# AI SOC: formal models

TLA+ models of the AI SOC pipeline (`src/backend`), the TLC configurations that
check them and the TLAPS proofs about them. Paths below are relative to
`src/backend` unless they begin with `src/`.

    tlc -config hitl_review.cfg MCHitlReview.tla
    tlc -config soar_execution.cfg SoarExecution.tla
    tlc -config pipeline.cfg Pipeline.tla
    tlc -config wazuh_bridge.cfg MCWazuhBridge.tla
    tlc -config alert_agents.cfg MCAlertAgents.tla
    tlc -config api_stores.cfg MCApiStores.tla
    tlc -config desktop_backend.cfg DesktopBackend.tla
    tlapm HitlReviewProofs.tla       (and the other seven modules named ...Proofs)

## 1. Inventory

An alert goes from Wazuh through a bridge into the Kafka topic `wazuh.raw`. One
orchestrator process consumes it and takes each alert through a LangGraph DAG;
risky playbooks wait for an analyst; approved ones are executed by Shuffle. The
API is a second process. The two share the database, Kafka, Redis and Shuffle,
and no memory. Everything in either process runs on one asyncio event loop, so
interleaving happens at `await`, and only there.

| Component | State | Operations | Talks to | What is hard |
|---|---|---|---|---|
| Wazuh bridge (`bridge/wazuh_kafka_bridge.py`) | `_seen_ids`, token | poll the newest batch, publish unseen alerts | Wazuh REST, Kafka | alerts beyond a batch, the trimmed set, restarts |
| Orchestrator (`orchestration/graph.py`, `infrastructure/kafka_client.py`) | offsets, tasks, one semaphore | fetch, start a task per message, run the graph, log failures | Kafka, all agents | commits ahead of handling, crash, one worker's failure, slots |
| Log analysis (`agents/log_analysis_agent.py`) | keys in Redis: ids seen, a window per rule, bad addresses | dedup, burst window, reputation, score | Redis, Kafka | redelivery, Redis failures, alerts of one rule at once |
| Threat intelligence (`agents/threat_intel_agent.py`, `integrations/`) | cached answers in Redis | parallel lookups, score, mark an address | TI services, Redis | some of six lookups failing, before or after their cache entry |
| Playbook generation (`agents/playbook_gen_agent.py`) | playbook and context caches in Redis | template, cache, context, model, fallback | Redis, Chroma, vLLM | a cache entry serving another alert |
| Supervisor (`agents/supervisor.py`) | none | routing, publish, drop, escalate | Kafka, database | order of publication, audit, execution |
| Human review (`agents/hitl_agent.py`, `api/hitl_api.py`, database clients) | `hitl_reviews`, `hitl_decisions`, resume tasks | park, wait, escalate, time out, decide, record | database, LISTEN/NOTIFY | lost wake-ups, the deadline, several analysts, crash |
| SOAR agent and Shuffle client (`agents/soar_agent.py`, `services/shuffle_client.py`) | watcher tasks | trigger, poll, time out, report | Shuffle, Kafka | lost answers, a status that is stale when used |
| SOAR routes (`api/soar_routes.py`) | `soar_hitl_requests` | hitl-gate, approve, reject, execution-result | Shuffle, database | two analysts at once, repeated callbacks, failure between call and UPDATE |
| Redis client | one lazy client | SET NX, burst window, cache | Redis | lazy creation, failure treated as "new" |
| LLM client | semaphore | call with timeout and retry | vLLM | retries against the concurrency limit |
| Authentication, log sources (`infrastructure/auth_client.py`, `api/log_source_api.py`, stores) | tables `users`, `auth_audit`, `log_sources` | seed admin, log in, create users; create, edit, delete, live status, enrolment | SQLite, Wazuh | two workers on one file, one connection per statement, a row read before a call and written after it |
| Desktop (`src/frontend/src/main`) | `currentStatus`, children, `.env` | launch, set up, start, stop, quit | docker compose | overlapping starts, children that outlive the application |

Dashboards, the vector store, the renderer, generators and deployment files keep
no protocol state of their own; `PROJECT.json` gives the reason for each.

What makes each component correct:

- **Human review**: one decision is acted on, it is on record first, silence is
  only taken for consent after the whole window, no irreversible step is
  published without a human, and a parked alert always ends.
- **Execution in Shuffle**: the gate's record agrees with what Shuffle was told,
  a decided gate stays decided, every execution is reported once and its
  watcher ends.
- **Pipeline**: an alert is acted on at most once however often it is
  delivered, no message is passed over but those Kafka took for done, every end
  leaves its row, and no path loses a slot of the semaphore.
- **Bridge**: an alert is sent again only after it was forgotten, none is
  remembered that was not sent, the memory is bounded, and after any fault the
  bridge catches up with Wazuh's newest alerts.

- **Agents**: an address is marked, and an alert raised by the mark, only for
  evidence its sources gave; of two alerts of a rule one is told of the other;
  one Redis client is made; every alert leaves the agents with the model's
  slots given back.
- **API stores**: whatever is done under a token has the audit row of a login
  behind it, edits and stored statuses do not undo each other, a source reported
  missing stays away, and the workers come up however they race for the first
  user.
- **Desktop**: "starting" is shown only of a child under way and is always left,
  and whatever overlapped, the status is right again from the next child that
  is spawned alone.

The hazards, each at its line and with the properties that watch it, are in
`PROJECT.json`.

## 2. Modules

| Module | Models | Uses |
|---|---|---|
| `ReviewContract` | abstract: what a review promises | |
| `HitlReview` | the parked review with both database clients, the analysts' API, `publish_to_soar` and the end of the alert | `ReviewContract` (refinement) |
| `MCHitlReview` | the action types and playbooks of the review's instance | `HitlReview` |
| `HitlReviewProofs` | invariant and theorems | `HitlReview` |
| `HitlContractProofs` | the refinement of `ReviewContract`, and what follows from it | `HitlReviewProofs` |
| `SoarExecution` | trigger, watcher, Shuffle, and the routes of the workflow gate | |
| `SoarExecutionProofs` | invariant and theorems | `SoarExecution` |
| `Pipeline` | consumer workers, semaphore, graph, Redis dedup, playbook cache | |
| `PipelineProofs` | invariant and theorems | `Pipeline` |
| `AlertAgents` | the calls of the three agents inside one alert: Redis client, lookups and their caches, context, model slots and retries | |
| `MCAlertAgents` | alerts, addresses and verdicts of its instance | `AlertAgents` |
| `AlertAgentsProofs` | invariant and theorems | `AlertAgents` |
| `ApiStores` | API workers over one SQLite file: startup, login, users, log sources | |
| `MCApiStores` | the mixes of requests of its instance | `ApiStores` |
| `ApiStoresProofs` | invariant and theorems | `ApiStores` |
| `DesktopBackend` | the desktop application's main process and its compose children | |
| `DesktopBackendProofs` | invariant and theorems | `DesktopBackend` |
| `WazuhBridge` | the polling loop, its token, `_seen_ids`, the Kafka producer | |
| `MCWazuhBridge` | the ids of the bridge's instance | `WazuhBridge` |
| `WazuhBridgeProofs` | invariant and theorems | `WazuhBridge` |

The modules are joined at their actions. `Pipeline!Park` opens the review that
`HitlReview` follows from `InsertReview` on. `Pipeline!Execute` and
`HitlReview!RunSoar` start an execution, which `SoarExecution` follows from
`Trigger` on. What `WazuhBridge!Deliver` puts in the topic is what
`Pipeline!Fetch` reads; the second copy of an alert the bridge has forgotten is
the duplicate `Pipeline` meets. `AlertAgents` opens up three of `Pipeline`'s nodes
(`Analyse`, `Enrich`, `Generate`), one action each there, at their awaits.

### HitlReview

`task[r]` is the program counter of `HITLAgent.run` and then of
`_resume_after_decision`; every await is a state boundary. `backend` says
which client the process was started with: on Postgres the loop of
`wait_for_decision` (`connecting`, `checking`, `waiting`, `reading`), on SQLite
that of `_await_decision` (`checking`, `polling`, `sleeping`). `rows`, `status`
and `audit` are the database; `published` and `soar` are what left the process;
`request[q]` is an analyst's POST. `Tick` lets a second pass for all of them.

A playbook is the set of the action types of its steps, which is all that
stripping and the irreversibility test read. `soar[r]` records the playbook an
execution took its parameters from.

`early` is a history variable: the rows that existed when the task began to
look. It separates a decision that comes before the `LISTEN` from one after it.

`wire[r]` is the dedicated connection of the `LISTEN`. `Notify` is the
`pg_notify` of `store_decision`'s transaction: it puts a notification on the
wire if somebody listens and the connection stands. `Deliver` is `_on_notify`,
some time later, in any order with the timers and the deadline. `LoseListener`
drops the connection with what was on its way (a fault); nothing tells the task,
whose waits go on until the timeout.

### SoarExecution

`agent[x]` is the counter of `execute_playbook` and the detached
`_soar_resume`; `elapsed` is the variable of `wait`, which counts sleeps.
`row[x]` is the status in `soar_hitl_requests`, `request[q]` the handler of
`hitl_approve` or `hitl_reject`: SELECT, call of Shuffle, UPDATE.

Shuffle is external. The model assumes what the code uses of it: an execution
in a terminal state stays there, continuing one that is not paused changes
nothing and is answered 2xx, a gated workflow pauses after its first step and
calls `hitl-gate`, perhaps more than once. The workflows registered by
`scripts/register_shuffle_workflows.py` send no `Authorization` header while
`hitl_gate` and `execution_result` demand a logged-in user, so `token` is FALSE
for them: the call is answered 401, no row is stored and analysts get a 404.
The run takes both values, so that its properties also cover a deployment
that adds a token.

### Pipeline

A position of the topic holds an alert, JSON that is no alert, or no JSON;
positions of different partitions may hold the same alert. `Fetch` is the
consumer's poll and `create_task`; `AutoCommit` is librdkafka's background
commit and may happen at any moment; `Acquire` is the semaphore, which asyncio
hands out in order. The nodes of the graph are one action each. `Crash`
restarts from the committed offsets; `WorkerFails` and `Shutdown` are the way
out by `KafkaException`: the failed worker gathers its own tasks, the tasks of
the others are cancelled, and every consumer commits what it has fetched as it
closes. k8s runs one replica of the orchestrator, so there is no rebalancing
with a second one.

What `_is_noise` and `_extract_iocs` say of an alert is left open, and so is
what the model writes. All alerts share one playbook cache key, the case in
which they can meet. `category` selects what `_contextual_playbook` would write
for them: `TemplateActions` has the action types of each template of
`_CATEGORY_TEMPLATES`, and `fast` is `PLAYBOOK_FAST_MODE`. The same operator is the
fallback of a failed model call.

### AlertAgents

`stage[t]` is the await a task is at, from `check_dedup` to the stored playbook.
The lookups of `gather` are callers of their own, each with a counter in
`lookup[t]`. `getting[c]` follows `RedisClient._get` for every caller: the look
without the lock, the lock, the second look, the creation. A command that fails
may have been carried out (`Written`), and every command's failure is answered as
the code answers it: no duplicate, no burst, unknown address, no cache entry.

A source that is not `live` has no API key and answers with its stub. What a
source says of an indicator is the constant `Verdict`; a live one may also fail,
which is not a fault to be counted: the code expects it. Scores are in
hundredths of a percent, with the code's weights and its threshold of 60.

`free` and `attempt` are `LLMClient.call`: the slot is taken inside the retried
function, so a task that backs off holds none. An attempt ends in an answer, in
an error that is tried again, or in one that is not and leads to the fallback.

### ApiStores

A request is a coroutine of one worker that opens a connection for every
statement; `at[c]` is the statement or call it waits for, `seen[c]` what it read.
A row of `log_sources` keeps, in place of a value, who wrote it: that is enough to
say which write survived. `users` and `audit` are the tables `users` and
`auth_audit`; tokens are the users they were issued for. Wazuh answers anything.
`SeedAdmin` of the worker that comes second raises on the UNIQUE username, its
startup fails, and its parent starts another.

`Verify` has two outcomes beside the right and the wrong password: `bcrypt` raises
on a password of more than 72 bytes, and `LoginRequest` does not limit its
length. The request then ends in an error before `_audit`, and leaves no row.
`POST /users` answers the same error of `hash_password` with its 400.

### DesktopBackend

`checks`, `ups` and `downs` count the calls waiting for `docker info` and the
children under way: the code keeps no list of them and kills none, and every
handler writes the one status. `orphans` are the children of an application
that has quit.

`Stop` is `stopServices` with its own guard, `status # "stopped"`. The tray's item
adds one of its own, but two other callers do not: the IPC `service:stop`, and
`before-quit` of a quit that does not come from the tray (the menu, Cmd+Q, the
updater), which the window's close handler cancels since only the tray's item sets
`isQuitting`. The application then stays open with a `down` under way, perhaps
beside an `up`. `Quit` is the tray's, and ends it.

`mixed` is a history variable: the last child was spawned beside others, or a
start that failed its Docker check reported over one.

### WazuhBridge

An alert is a number, its timestamp, so that the batch of a poll is the set of
the `BatchSize` greatest indexed ones and the loop takes the greatest left in
it. `Index` may add an alert older than others already there. `IdOf` gives the
field `id`; alerts without one share the empty string, and only the first of
them is ever sent. `phase` follows one poll: the token, the request with its
three attempts, each of which may spend three on the token, the loop, the
trimming. No await suspends the loop over the alerts, since `send` only queues;
it is split into steps because the producer's thread and Wazuh go on meanwhile.

`buffer` is the producer's queue. A delivery report only writes a log line, so
an alert whose delivery failed stays remembered and is not sent again: the
model has `failed` next to `topic`, and `CatchesUp` accepts either.

Alerts pushed out of the newest batch by a burst before a poll saw them, or
indexed late behind it, are lost. The model has these behaviours, and its
liveness property claims the newest alerts only.

## 3. Runs

| Run | States | Question |
|---|---|---|
| `hitl_review` | 440,133 | does a review keep its promises in every interleaving, and implement `ReviewContract`? |
| `hitl_early_decision` | violation | is a refusal stored before the LISTEN obeyed? |
| `hitl_unattended_target` | violation | are irreversible targets kept from Shuffle after a timeout? |
| `soar_execution` | 309,960 | do gate, routes, Shuffle and watcher stay consistent? |
| `soar_timeout` | violation | does a timeout mean the execution was unfinished? |
| `pipeline` | 438,996 | what do redelivery, crash and concurrency do to an alert? |
| `pipeline_duplicate` | violation | was an alert dropped as a duplicate processed before? |
| `pipeline_cache` | violation | is an alert's playbook its own? |
| `wazuh_bridge` | 512,024 | what do trimming, a full queue, outages, a stale token and restarts do to the alerts? |
| `alert_agents` | 319,254 | what do failing sources, a failing Redis, one model slot and another alert do to an alert in the agents? |
| `api_stores` | 237,422 | what do two workers and three requests at once do to users, audit rows and log sources? |
| `desktop_backend` | 9,547 | does the status of the services come right again, whatever overlapped? |

Bounds, and why they are enough:

- *Reviews* = 1. Reviews share the clock, the process and a crash and nothing
  else; the theorems hold for any number. *Requests* = 2: two analysts are the
  fewest who can contradict each other, before or after the pipeline decided.
- `EscalateSeconds` = 2, `TimeoutSeconds` = 3, `WaitCap` = 2, `PollInterval` = 1
  keep the order of the code's 600 s, 900 s, 30 s and 5 s where it matters:
  a wait may be cut by the cap, the escalation or the deadline, and several
  polls fit in the window. The clock saturates at the timeout.
- `Executions` = 1, since executions share nothing; three requests, so that one can
  be tried again while another decides otherwise; two callbacks,
  the second being the repeated one; two polls before the timeout.
- Two workers with one message each are the fewest that let the same alert be
  handled twice at a time, one worker's failure cancel the other's task, and
  a cached playbook meet another alert. Limits 1 and 2: with one slot the
  second message waits for the first. `Categories` are one whose template is
  harmless and one whose template isolates a host.
- Six alerts with four ids, one of them without a rule, polls of two, a set of
  three trimmed to one: four ids are the fewest with which a poll
  trims, and one of the newest alerts can be among those it forgets. A queue
  of one message is full in the middle of a batch. `MaxLate` = 1 lets an alert
  be indexed after a newer one. The code's 1200, 10,000 and 5,000 satisfy the
  same assumption, `SeenKept + BatchSize <= SeenLimit`.
- `alert_agents`: the pairs in `Carried` are those that share something: an
  alert delivered twice, two of one address, two of one rule from different
  addresses, and a templated one beside noise. The evidence of the first
  address exceeds the threshold only with all its sources, so that any failing
  one matters. `Settings` has all sources stubbed, two live, and the one that is asked
  about the address live. One slot and two tasks are the fewest with
  which a call waits; the three attempts are the code's.
- `api_stores`: each of `Mixes` is about one race, since a login shares nothing
  with a log source; `Placements` puts the second request with the first or with
  the third. Three requests let an edit meet another and a delete.
- `MaxClicks` = 8: launch, start, a second start, stop, quit and launch again
  with two to spare.
- `MaxFaults` = 1 in each module that counts faults: one crash, dropped
  connection, lost answer, refused call or failing call, at every point. The
  properties speak of one handling, or of one fault between two handlings.

No state constraint is used, and no symmetry, since the runs check liveness.
Deadlock is checked for the bridge, which polls for ever, and for the agents,
whose last step `AllOver` says that every task is over; not for the others, whose
instances are finite and stop when the alerts, requests and executions are
done.

What the passing runs show:

- `SilenceBeforeTimeout`, `ActsOnRecordedDecision`, `HumanBehindIrreversible`,
  `ExecutionChain`, `ResolvedIsAudited`: silence, record, irreversible
  steps, order of effects, audit.
- `WakeupsMatchRows` (Postgres) and `EarlyDecisionTaken` (SQLite): each
  client's own argument that a decision is not overlooked. A row committed since
  the `LISTEN` has woken the task, is on its way to it, or finds the connection
  cut; and a task is woken for nothing else, or it would read no row and take
  that for the timeout. The second property fails on Postgres, and that is what
  `hitl_early_decision` shows. Neither covers a decision whose connection is
  cut, or one stored during the last interval on SQLite: the timeout is acted on
  over it, and that is what the code does.
- `ParkedReviewEnds`, `WatchEnds`, `AlertEnds`, `AlertAnswered`, `ApiServes`,
  `Settles`: nothing waits for ever.
- `ImplementsContract`: the review refines `ReviewContract`, with rows as
  offers, the verdict as ruling and what was published as effect.
- `RowFollowsShuffle`, `GateOnRecord`, `DecisionIsFinal`: the weakest true
  statement about the unsynchronised routes. When two analysts race, the row may
  say APPROVED of an execution that the other one aborted; but each recorded
  decision is one Shuffle acknowledged, and REJECTED is never said of one
  that is still going on.
- `ReportedOnce`, `FinalIsFinal`: the watcher's
  events. The workflow's own `execution_complete` may come before
  `execution_started` and is not covered.
- `SlotsAccounted`, `LaunchedOnce`, `MessagesAccounted`, `EndsOnRecord`.
  `MessagesAccounted` is the exact measure of what a restart loses: messages
  whose offsets were committed behind their tasks' backs, and no other.
  `LaunchedOnce` excepts alerts for which Redis failed or forgot, because
  `check_dedup` then treats an alert as new. At most once is what the code
  gives; at least once it does not, as `pipeline_duplicate` shows.

- `OnceUnlessForgotten`, `NothingSkipped`, `SeenBounded`, `CatchesUp`: the
  bridge. The bound of `_seen_ids` needs its exception: a poll that is cut short
  by a full queue is not trimmed.
- `MarkIsEarned`: failures make the agents miss evidence and never invent it,
  and no cache holds a failure. `SecondSeesFirst` rests on the window's one
  transaction, and excepts alerts whose command failed or left the window.
  `OneClient`: the double-checked creation, with a failing one among its callers.
- `AccessOnRecord`: a login that was granted or refused has its row, and whatever
  was done under a token has a recorded login of its user behind it. This is
  less than the code's documentation says: `auth_client.py:9` and `:136` and
  `auth_api.py:83` promise a row for every attempt, and one that ends in an error
  - a locked database, a password `bcrypt` raises on - has none.
- `SourcesAgree` is what separate statements without a transaction still give,
  because each UPDATE sets its own columns only.
- `StatusRecovers`: `startServices` looks at the status before it waits for
  Docker, and stops and cancelled quits kill no `up` child; children then overlap
  and whichever ends last has the last word. While they do, the status may be
  wrong, and the property says how long: until a child is spawned alone. Through
  all of it "starting" is shown only of a child that has not ended, and `Settles`
  says that it is left.

What the violation runs show is in `PROJECT.json` under `findings`, with the
sentence of the documentation each contradicts.

Fairness: the event loop runs ready tasks, so each task's next step and each
handler's is weakly fair; time passes (`Tick`); a process that ends on an error is
restarted (`Shutdown`, `Restart` of the bridge, `Boot` of an API worker). For the
bridge, tokens age and outages end. In the agents every await ends: lookups and
model calls have timeouts and Redis answers or raises. `docker info` and
`docker compose` end. Nothing is assumed of analysts, of clients,
of the desktop's user, of Shuffle's progress, of auto-commits or of Redis. `PromptSpec` of `HitlReview`, used by
`hitl_early_decision` only, restricts the clock instead: it stands
still while any task or handler has something to do, so that the violation owes
nothing to slowness.

## 4. Proofs

Every safety property of the passing runs is a theorem: each invariant, the
action property `DecisionIsFinal`, and the refinement `ImplementsContract`. A run
shows it on its instance; the theorem holds for all values of the constants that
satisfy the module's `...Assumption`, so for any number of reviews, requests,
executions, messages, alerts, tasks, workers and faults. The assumptions say what
the constants are (numbers, sets, functions of a type), and that no timeout, poll
interval, batch, queue or semaphore is 0. Two say more: `SeenKept + BatchSize <=
SeenLimit` in the bridge, which holds of the code's 5,000, 1,200 and 10,000; and in
`ApiStores` no client has the name of a mark that a row keeps in place of a writer.

All proofs have one form. The module's `IInv` is inductive: `InitIInv` and one lemma
per action (or per family of actions with one effect) are put together in `NextIInv`,
and each property follows from `IInv`. Its parts are named after what they are
about. What an action leaves alone is stated once per part (`SameReviewInv`,
`SameQueue`, `SameOnce`, ...) and cited by the actions. Each `IInv` was checked
with TLC on the instance of its run before it was proved.

### HitlReviewProofs

| Theorem | States |
|---|---|
| `Invariant` | `IInv`, below |
| `TypeCorrect` | `TypeOK` |
| `TimeoutIsLate` | `SilenceBeforeTimeout` |
| `DecisionIsRecorded` | `ActsOnRecordedDecision` |
| `HumanBehindPublished` | `HumanBehindIrreversible` |
| `ExecutionIsChained` | `ExecutionChain` |
| `WakeupsAreSound` | `WakeupsMatchRows` |
| `EarlyDecisionWins` | `EarlyDecisionTaken` |
| `ResolutionIsAudited` | `ResolvedIsAudited` |

None of these is inductive alone. That a published irreversible step has a human
behind it, for instance, needs three more facts: what was published is what the
verdict asks for (`PublishedInv`), an analyst's verdict is a row (`RowsInv`),
and a timeout's playbook is stripped. `IInv` therefore ties each review's
verdict, rows, outputs, listener and clock to the state of its task, and each
handler under way to an analyst's decision.

`EarlyDecisionTaken` rests on a property of the SQLite loop that is easy to
break: a task whose first look finds a row is never in `sleeping`, and is in
`checking` only at age 0 (`ClientInv`), hence cannot reach the deadline without
having taken the row.

### HitlContractProofs

| Theorem | States |
|---|---|
| `ReviewKeepsContract` | `ImplementsContract`: `HitlReview` implements `ReviewContract` |
| `OneRuling` | `RulingIsFinal`: no later row, timeout or fault replaces the decision a task follows |
| `OneEffect` | `EffectIsFinal`: executed, dropped or escalated, and none follows another |
| `EffectIsRuled` | `EffectFollowsRuling`: the effect is the one the ruling asks for |

Each action of the review maps to one of the contract or to none: the insert to
`Open`, an analyst's row to `Offer`, `GiveUp` and `ReadDecision` to `Rule`,
`PublishPlaybook` and `CloseReview` to `Close`, `TaskFails` and `Crash` to `Abandon` of
those reviews whose playbook is not out. The row that records the verdict
(`RecordVerdict`) is no new offer, because an analyst's verdict is a row already.
`IInv` is not enough for this mapping, and `CInv` adds three facts: the timeout decides
nothing but APPROVE (or a drop could follow a TIMEOUT), a review that is not opened
has no status, and a handler that is storing asks about an opened one (or `Offer`
could precede `Open`). The last three theorems are about the detailed module and
follow from the refinement: `FinalStep` looks at the contract's steps only.

### PipelineProofs

| Theorem | States |
|---|---|
| `PipelineInvariant` | `IInv`, below |
| `PipelineTypes` | `TypeOK`; the semaphore's value stays between 0 and the limit |
| `SlotsReturn` | `SlotsAccounted` |
| `LaunchedAtMostOnce` | `LaunchedOnce` |
| `NothingPassedOver` | `MessagesAccounted` |
| `EndsRecorded` | `EndsOnRecord` |

`LaunchedOnce` counts what all handlings of an alert did together, so no statement
about one task implies it. A handling *carries* its alert while it may still
launch something (`Carrying`: it came through the dedup as new, and is not over).
`OnceInv` says of an alert that Redis neither failed for nor forgot: it was
launched at most once; once it is launched nobody carries it; at most one handling
carries it; and from the first carrier on its key is set. SET NX makes the first
carrier, every later handling finds the key, and the launch ends the carrying.
A crash only takes carriers away.

`SlotsAccounted` needs that a slot is taken by a task that holds none, and thus
that the semaphore's queue holds queued tasks, each once (`QueueInv`). That in turn
needs that a fetched message has no task yet, also after a restart sent its
worker back to the committed offset (`MessageInv`).

### SoarExecutionProofs

| Theorem | States |
|---|---|
| `SoarInvariant` | `IInv`, below |
| `SoarTypes` | `TypeOK` |
| `DecisionBehindCall` | `RowFollowsShuffle` |
| `GateBeforeCall` | `GateOnRecord` |
| `OneReport` | `ReportedOnce` |
| `ReportedStatusStays` | `FinalIsFinal` |
| `DecidedGateStays` | `DecisionIsFinal`, an action property |

A route holds no lock between its SELECT, its call and its UPDATE. What survives the
other analyst's steps is less than what it read: that there is a row, and that
Shuffle accepted a call of its kind (`RequestInv`). For the row it follows that
APPROVED stands for an accepted approval, and REJECTED for an accepted abort, after
which the execution is over (`RowInv`). The reports are events at positions: before
the watcher ends there is none, and each but an error has the start in front of it.

### WazuhBridgeProofs

| Theorem | States |
|---|---|
| `BridgeInvariant` | `IInv`, below |
| `BridgeTypes` | `TypeOK` |
| `BridgeSendsOnce` | `OnceUnlessForgotten` |
| `BridgeSkipsNothing` | `NothingSkipped` |
| `BridgeMemoryBounded` | `SeenBounded` |

The invariant balances: an id has been sent as often as it was forgotten, and
once more while it is remembered (`Balanced`); the ids remembered and the rest
of the batch together fit the limit and one batch (`Room`). The latter rests on
`NewestBound`, that a query returns at most `BatchSize` alerts, which is proved
from the cardinality of what lies above the least of them.

### AlertAgentsProofs

| Theorem | States |
|---|---|
| `AgentsInvariant` | `IInv`, below |
| `AgentsTypes` | `TypeOK`; never more model calls than slots, none tried a fourth time |
| `OneRedisClient` | `OneClient` |
| `BlameIsEarned` | `MarkIsEarned` |
| `BurstIsSeen` | `SecondSeesFirst` |

One part for each thing the tasks share. The client: who creates it holds the lock,
and there is none yet, which the second look under the lock establishes. The window: an
alert past its burst command is in its rule's window unless it was missed. The
evidence: a lookup has nothing or what its source says, so that a score can only fall
short of the full one, and reaches the threshold only where that does. The model: the
calls under way and the free slots add up.

### ApiStoresProofs

| Theorem | States |
|---|---|
| `ApiInvariant` | `IInv`, below |
| `ApiTypes` | `TypeOK` |
| `AccessIsRecorded` | `AccessOnRecord` |
| `RowsAgree` | `SourcesAgree` |

Each await implies something of what the request did before: at the stamp the audit
row is written, at the second read of a row the field of an edit is no longer the
first one, and every row of a login in the log is the one its request wrote
(`LoginInv`, `AnswerInv`). A row is made of the writes of requests that
were about it, and its agent and status come from one answer (`RowInv`); that
a deleted row stays away needs that ids are never inserted twice (`TargetInv`).

`AccessOnRecord` relates requests to logins of others, long over. `AccessInv` is a
second invariant on top of the first: every issued token has its login in the log,
and every request behind the check has a user that came by such a token
(`TokenInv`). It is preserved because the log only grows and a login under way or
answered keeps its user (`RecordKept`), whichever handler runs (`HandlePeers`).

### DesktopBackendProofs

| Theorem | States |
|---|---|
| `DesktopInvariant` | `IInv` |
| `DesktopTypes` | `TypeOK` |
| `StatusIsRecovered` | `StatusRecovers` |

That the status is right of a child spawned alone does not yet say that it stays
right once the child has ended. `Alone` adds that such a child, and the services it
has brought up, are over no orphans, which could take them down unseen. Three
lemmas say what spawning a child, its end, and a step that touches neither make of
the status (`SpawnStatus`, `EndStatus`, `SameStatus`).

### What is only model-checked

- Liveness: `ParkedReviewEnds`, `WatchEnds`, `AlertEnds`, `CatchesUp`,
  `AlertAnswered`, `ApiServes`, `Settles`. It needs fairness and thus ENABLED, which is
  out of this prover's reach.
- The violation runs: a counterexample is a behaviour, and TLC finds it.
- `ReviewContract` by itself: what it implies is proved of `HitlReview`, through the
  mapping.

## 5. Plan

1. Done: the modules of section 2; proofs of all safety properties the runs check, and
   of the refinement of `ReviewContract`.
2. Next: abstract specifications for two more components, with the proof that they
   are implemented - at-most-once handling of an alert (`Pipeline`; `OnceInv` is
   the invariant it needs) and a gate that is decided once (`SoarExecution`).
3. Then: action properties that follow from the present invariants, such as that the
   rows an alert left in the database outlive every restart, and that a
   recorded approval is never overwritten by a callback.

## 6. Not modelled

- Contents of alerts, prompts and playbooks beyond the fields named above; HTTP
  details; serialisation. The pure functions over them - `_rescore`,
  `_rule_level_to_severity`, `_extract_params`, the normalisation of a model's
  playbook - have no interleaving, and tables of examples serve them better.
- Kafka partitions of other topics, whose consumers are outside this
  repository; rebalancing between several orchestrators (one replica is
  deployed).
- Read-only dashboards; the vector store and its offline loader; the request
  counters of `metrics_middleware`; generators, checks and deployment files.
- Token cryptography and expiry, password hashing. Requests that FastAPI turns
  away with 422 before their handler runs.
- The case of an action type: types are model values (see below).
- The number of MISP lookups: the first three IOCs of an alert are looked up one
  after the other, without an await between them, and the model has one lookup.
- Code no running path reaches: the `hitl_edit` branch of the playbook agent (a
  parked review is resumed by `publish_to_soar`, never by the graph),
  `call_with_routing`, `find_by_host`, `alert_api`.
- NVD and GeoIP lookups: they share nothing with another task and do not enter
  the score.

Seen while modelling, and behind no run, since no sentence of the repository
that a model could test says otherwise or the detail is below the models:

- `auth_client.py:60` says of the generated administrator password "print it
  once", and nothing prints it.
- An edit of a source's host keeps its `wazuh_agent_id`, so that live status goes
  on about the old machine; and a live status under way while a source is
  enrolled stores the agent it read before over the new one (`ApiStores` has
  both behaviours; `StatusIsTold` claims only that agent and status belong
  together).
- The log sources' `_norm_status` keeps `never_connected`, `_wazuh_status` of
  `siem_api` makes it `disconnected`.
- A context retrieved while Chroma was down is memoised like any other.
- `rag_api` calls a `list_collections` that the vector store's client lacks.
- `Playbook.from_yaml` keeps an action type as the model wrote it
  (`schemas/playbook.py:207-218`). `has_irreversible_steps` compares it as it is
  and `_extract_params` upper-cases it (`soar_agent.py:227`), so that an
  irreversible step in lower case is reversible for the routing and the stripping
  and an action for Shuffle.
- The telemetry of `soar_api` buckets by hour of day and so adds up days.
- `stopServices` ignores the exit code of `down`, and says "All services stopped.";
  `before-quit` is not awaited by Electron, so the `down` child and any `up` child
  outlive the application (`OrphanEnds`).
