----------------------------- MODULE AlertAgents -----------------------------
(***************************************************************************)
(* What the agents of concurrent tasks do inside the nodes of the graph,   *)
(* which Pipeline takes as single steps: LogAnalysisAgent,                 *)
(* ThreatIntelAgent with its lookups, PlaybookGenAgent, and the clients of *)
(* Redis and of the language model that all tasks share.                   *)
(*                                                                         *)
(* Redis is reached through one client that the first callers create; a    *)
(* call that fails gives its caller a safe default.  The model is called   *)
(* under a semaphore, and a call that fails is tried again after the       *)
(* semaphore was released.                                                 *)
(***************************************************************************)
EXTENDS Integers, FiniteSets

CONSTANTS
    Tasks,      \* tasks in the graph
    Alerts,     \* the alerts that arrive
    Carried,    \* which alerts the tasks carry: assignments of Alerts to Tasks
    Indicators, \* addresses and domains: what the sources are asked about
    Verdict,    \* what a source, or its stub, says of an indicator, in percent
    Settings,   \* values of live
    Slots,      \* LLM_MAX_CONCURRENT_CALLS
    MaxFaults   \* bound: calls of Redis that fail and keys that expire

\* The lookups that go through a cache in Redis.  MISP has none.
Cached == {"vt", "otx", "shodan"}
Sources == Cached \cup {"misp"}

ASSUME AgentsAssumption ==
    /\ Alerts \subseteq [id : STRING, rule : STRING, noise : BOOLEAN, source : Indicators \cup {"none"},
                         ioc : Indicators \cup {"none"}, topic : STRING, template : BOOLEAN]
    /\ Carried \subseteq [Tasks -> Alerts]
    /\ Verdict \in [Sources -> [Indicators -> 0 .. 100]]
    /\ Settings \subseteq SUBSET Sources
    /\ Slots \in Nat \ {0}
    /\ MaxFaults \in Nat

VARIABLES
    alert,      \* per task: state["alert"]
    live,       \* sources really asked: USE_MOCK_TI is off and their key is set
    stage,      \* per task: the await its agent is at
    duplicate,  \* per task: analysis.is_duplicate
    related,    \* per task: analysis.correlated_alert_ids
    raised,     \* per task: the score was raised for a known malicious source
    lookup,     \* per task and cached source: how far the lookup is
    points,     \* per task and cached source: the answer of a live source
    attempt,    \* per task: attempts of the model call
    playbook,   \* per task: where state["playbook"] comes from
    free,       \* the value of the model client's semaphore
    connected,  \* RedisClient._client is not None
    pools,      \* clients created so far
    locker,     \* who holds _client_lock
    getting,    \* per caller of Redis: how far _get is
    dedup,      \* dedup:<id>
    burst,      \* burst:<rule>
    malicious,  \* malicious_ip:<address>
    answers,    \* ti:<source>:<indicator>
    contexts,   \* rag_ctx:<category>:<technique>
    playbooks,  \* playbook_cache:<category>:<technique>:<severity>
    missed,     \* history: ids that Redis failed to add to a window, or that left it
    faults      \* failures so far

input == <<alert, live>>
analysis == <<duplicate, related, raised>>
intel == <<lookup, points>>
model == <<attempt, free>>
client == <<connected, pools, locker, getting>>
windows == <<dedup, burst, missed>>
caches == <<answers, contexts, playbooks>>
vars == <<input, stage, analysis, intel, model, playbook, client, windows, malicious, caches, faults>>

-----------------------------------------------------------------------------

Ids == {a.id : a \in Alerts}
Rules == {a.rule : a \in Alerts}
Topics == {a.topic : a \in Alerts}

\* A task calls Redis from its agent and, while lookups run, from each of them.
Callers == Tasks \X (Cached \cup {"agent"})
Agent(t) == <<t, "agent">>
Nobody == <<>>
NotCached == -1

\* The awaits of the agents.  A task is at a stage of AtRedis while its agent
\* calls Redis.
AtRedis == {"dedup", "burst", "reputation",     \* LogAnalysisAgent
            "mark",                             \* ThreatIntelAgent
            "cache", "context", "memoise", "store"}  \* PlaybookGenAgent
Stages == AtRedis \cup {"lookups", "waiting", "calling", "dropped", "done"}
Over(t) == stage[t] \in {"dropped", "done"}

\* stop_after_attempt(3)
MaxAttempts == 3

TypeOK ==
    /\ alert \in [Tasks -> Alerts]
    /\ live \subseteq Sources
    /\ stage \in [Tasks -> Stages]
    /\ duplicate \in [Tasks -> BOOLEAN]
    /\ related \in [Tasks -> SUBSET Ids]
    /\ raised \in [Tasks -> BOOLEAN]
    /\ lookup \in [Tasks -> [Cached -> {"todo", "asking", "answered", "done"}]]
    /\ points \in [Tasks -> [Cached -> 0 .. 100]]
    /\ attempt \in [Tasks -> 0 .. MaxAttempts]
    /\ playbook \in [Tasks -> {"none", "template", "cached", "model", "fallback"}]
    /\ free \in 0 .. Slots
    /\ connected \in BOOLEAN
    /\ pools \in Nat
    /\ locker \in Callers \cup {Nobody}
    /\ getting \in [Callers -> {"idle", "waiting", "creating", "ready", "failed"}]
    /\ dedup \subseteq Ids
    /\ burst \in [Rules -> SUBSET Ids]
    /\ malicious \subseteq Indicators
    /\ answers \in [Cached -> [Indicators -> NotCached .. 100]]
    /\ contexts \subseteq Topics
    /\ playbooks \subseteq Topics
    /\ missed \subseteq Ids
    /\ faults \in 0 .. MaxFaults

Init ==
    /\ alert \in Carried
    /\ live \in Settings
    /\ stage = [t \in Tasks |-> "dedup"]
    /\ duplicate = [t \in Tasks |-> FALSE]
    /\ related = [t \in Tasks |-> {}]
    /\ raised = [t \in Tasks |-> FALSE]
    /\ lookup = [t \in Tasks |-> [s \in Cached |-> "todo"]]
    /\ points = [t \in Tasks |-> [s \in Cached |-> 0]]
    /\ attempt = [t \in Tasks |-> 0]
    /\ playbook = [t \in Tasks |-> "none"]
    /\ free = Slots
    /\ connected = FALSE
    /\ pools = 0
    /\ locker = Nobody
    /\ getting = [c \in Callers |-> "idle"]
    /\ dedup = {}
    /\ burst = [r \in Rules |-> {}]
    /\ malicious = {}
    /\ answers = [s \in Cached |-> [x \in Indicators |-> NotCached]]
    /\ contexts = {}
    /\ playbooks = {}
    /\ missed = {}
    /\ faults = 0

Goto(t, s) == stage' = [stage EXCEPT ![t] = s]
Fault == faults < MaxFaults /\ faults' = faults + 1

-----------------------------------------------------------------------------
(***************************************************************************)
(* RedisClient._get.  A caller suspends only when there is no client yet.  *)
(***************************************************************************)

\* What the lookup is asked about: the source address, or the first of the
\* public addresses, domains and hashes in the alert's log line.
Subject(t, s) == IF s = "shodan" THEN alert[t].source ELSE alert[t].ioc
\* The lookup goes through Redis: it is neither a stub nor without a subject.
Asked(t, s) == s \in live /\ Subject(t, s) # "none"

CallsRedis(c) ==
    LET t == c[1] IN
    IF c = Agent(t)
    THEN stage[t] \in AtRedis
    ELSE stage[t] = "lookups" /\ Asked(t, c[2]) /\ lookup[t][c[2]] \in {"todo", "answered"}

\* `if self._client is None`: the caller asks for the lock.
WaitForLock(c) ==
    /\ CallsRedis(c) /\ ~connected /\ getting[c] = "idle"
    /\ getting' = [getting EXCEPT ![c] = "waiting"]
    /\ UNCHANGED <<connected, pools, locker, faults>>

\* Mutant: with the lock it does not look again.
TakeLockBlindly(c) ==
    /\ getting[c] = "waiting" /\ locker = Nobody
    /\ getting' = [getting EXCEPT ![c] = "creating"]
    /\ locker' = c
    /\ UNCHANGED <<connected, pools, faults>>

\* With the lock it looks again, and creates the client or leaves at once.
TakeLock(c) ==
    /\ getting[c] = "waiting" /\ locker = Nobody
    /\ getting' = [getting EXCEPT ![c] = IF connected THEN "ready" ELSE "creating"]
    /\ locker' = IF connected THEN Nobody ELSE c
    /\ UNCHANGED <<connected, pools, faults>>

\* `await aioredis.from_url(...)`, and the lock is released either way.
CreateClient(c) ==
    /\ getting[c] = "creating"
    /\ locker' = Nobody
    /\ \/ connected' = TRUE /\ pools' = pools + 1 /\ getting' = [getting EXCEPT ![c] = "ready"]
          /\ UNCHANGED faults
       \/ Fault /\ getting' = [getting EXCEPT ![c] = "failed"] /\ UNCHANGED <<connected, pools>>

GetClient(c) ==
    /\ WaitForLock(c) \/ TakeLock(c) \/ CreateClient(c)
    /\ UNCHANGED <<input, stage, analysis, intel, model, playbook, windows, malicious, caches>>

\* A command of c is answered (ok), or something raised on the way to it.
Command(c, ok) ==
    /\ \/ ok /\ connected /\ getting[c] \in {"idle", "ready"} /\ UNCHANGED faults
       \/ ~ok /\ connected /\ getting[c] \in {"idle", "ready"} /\ Fault
       \/ ~ok /\ getting[c] = "failed" /\ UNCHANGED faults
    /\ getting' = [getting EXCEPT ![c] = "idle"]
    /\ UNCHANGED <<connected, pools, locker>>

\* What a command may leave of `old` when it was to write `new`: it may have
\* been carried out although its answer was lost.
Written(c, ok, old, new) ==
    IF ok THEN {new} ELSE IF getting[c] = "failed" THEN {old} ELSE {old, new}

-----------------------------------------------------------------------------
(***************************************************************************)
(* LogAnalysisAgent.run, and where the supervisor sends the alert then.    *)
(***************************************************************************)

\* SET NX: only the first to write the id sees it as new.
CheckDedup(t) ==
    \E ok \in BOOLEAN :
        /\ stage[t] = "dedup" /\ Command(Agent(t), ok)
        /\ dedup' \in Written(Agent(t), ok, dedup, dedup \cup {alert[t].id})
        /\ duplicate' = [duplicate EXCEPT ![t] = ok /\ alert[t].id \in dedup]
        /\ Goto(t, "burst")
        /\ UNCHANGED <<input, related, raised, intel, model, playbook, burst, missed, malicious, caches>>

\* Mutant: the window is read and the id is not added.
CheckBurstReadOnly(t) ==
    /\ stage[t] = "burst" /\ Command(Agent(t), TRUE)
    /\ related' = [related EXCEPT ![t] = burst[alert[t].rule] \ {alert[t].id}]
    /\ Goto(t, "reputation")
    /\ UNCHANGED <<input, duplicate, raised, intel, model, playbook, windows, malicious, caches>>

\* One transaction adds the id to the window of its rule and reads the window.
CheckBurst(t) ==
    LET rule == alert[t].rule
        id == alert[t].id
    IN \E ok \in BOOLEAN :
        /\ stage[t] = "burst" /\ Command(Agent(t), ok)
        /\ burst' \in Written(Agent(t), ok, burst, [burst EXCEPT ![rule] = @ \cup {id}])
        /\ related' = [related EXCEPT ![t] = IF ok THEN burst[rule] \ {id} ELSE {}]
        /\ missed' = IF ok THEN missed ELSE missed \cup {id}
        /\ Goto(t, "reputation")
        /\ UNCHANGED <<input, duplicate, raised, intel, model, playbook, dedup, malicious, caches>>

\* Duplicates and noise end here; an alert without indicators needs no lookups.
PlaybookStage(t) == IF alert[t].template THEN "done" ELSE "cache"
AfterAnalysis(t) ==
    IF duplicate[t] \/ alert[t].noise THEN "dropped"
    ELSE IF alert[t].ioc # "none" THEN "lookups" ELSE PlaybookStage(t)

\* The category's template is used as it is, without Redis or the model.
FromTemplate(t) ==
    playbook' = IF stage'[t] = "done" THEN [playbook EXCEPT ![t] = "template"] ELSE playbook

\* _rescore: that its source is known raises the score of an alert.
Rescored(t, known) == raised' = [raised EXCEPT ![t] = known]

CheckReputation(t) ==
    LET source == alert[t].source
    IN
    /\ stage[t] = "reputation"
    /\ \/ /\ source = "none"
          /\ UNCHANGED <<raised, client, faults>>
       \/ \E ok \in BOOLEAN :
            /\ source # "none" /\ Command(Agent(t), ok)
            /\ Rescored(t, ok /\ source \in malicious)
    /\ Goto(t, AfterAnalysis(t)) /\ FromTemplate(t)
    /\ UNCHANGED <<input, duplicate, related, intel, model, windows, malicious, caches>>

Analyse(t) == CheckDedup(t) \/ CheckBurst(t) \/ CheckReputation(t)

-----------------------------------------------------------------------------
(***************************************************************************)
(* The lookups, gathered by ThreatIntelAgent.run.                          *)
(***************************************************************************)

nonIntel == <<input, stage, analysis, model, playbook, windows, malicious, contexts, playbooks>>

ReadAnswer(t, s) ==
    LET known == answers[s][Subject(t, s)]
    IN \E ok \in BOOLEAN :
        /\ lookup[t][s] = "todo" /\ Command(<<t, s>>, ok)
        /\ IF ok /\ known # NotCached
           THEN /\ lookup' = [lookup EXCEPT ![t][s] = "done"]
                /\ points' = [points EXCEPT ![t][s] = known]
           ELSE lookup' = [lookup EXCEPT ![t][s] = "asking"] /\ UNCHANGED points
        /\ UNCHANGED <<nonIntel, answers>>

\* Mutant: the neutral result of a source that fails is cached as well.
AskSourceCachingFailures(t, s) ==
    /\ lookup[t][s] = "asking"
    /\ lookup' = [lookup EXCEPT ![t][s] = "answered"]
    /\ \/ points' = [points EXCEPT ![t][s] = Verdict[s][Subject(t, s)]]
       \/ UNCHANGED points
    /\ UNCHANGED <<nonIntel, client, answers, faults>>

\* The source answers, or the neutral result is returned and not cached.
AskSource(t, s) ==
    /\ lookup[t][s] = "asking"
    /\ \/ /\ lookup' = [lookup EXCEPT ![t][s] = "answered"]
          /\ points' = [points EXCEPT ![t][s] = Verdict[s][Subject(t, s)]]
       \/ lookup' = [lookup EXCEPT ![t][s] = "done"] /\ UNCHANGED points
    /\ UNCHANGED <<nonIntel, client, answers, faults>>

CacheAnswer(t, s) ==
    \E ok \in BOOLEAN :
        /\ lookup[t][s] = "answered" /\ Command(<<t, s>>, ok)
        /\ answers' \in Written(<<t, s>>, ok, answers,
                                [answers EXCEPT ![s][Subject(t, s)] = points[t][s]])
        /\ lookup' = [lookup EXCEPT ![t][s] = "done"]
        /\ UNCHANGED <<nonIntel, points>>

LookUp(t, s) ==
    /\ stage[t] = "lookups" /\ Asked(t, s)
    /\ ReadAnswer(t, s) \/ AskSource(t, s) \/ CacheAnswer(t, s)

\* What the task got of a source, or of its stub.
Says(t, s) ==
    IF Subject(t, s) = "none" THEN 0
    ELSE IF s \in live THEN points[t][s] ELSE Verdict[s][Subject(t, s)]

\* MISP is asked in one step; live, it may fail and then says nothing.
MispSays(t) == {Verdict["misp"][alert[t].ioc]} \cup (IF "misp" \in live THEN {0} ELSE {})

\* _compute_threat_score, in hundredths of a percent.
Score(vt, misp, otx, shodan) == 35 * vt + 25 * misp + 20 * otx + 20 * shodan
Threshold == 6000

JoinLookups(t) ==
    /\ stage[t] = "lookups"
    /\ \A s \in Cached : Asked(t, s) => lookup[t][s] = "done"
    /\ \E misp \in MispSays(t) :
         Goto(t, IF alert[t].source # "none"
                    /\ Score(Says(t, "vt"), misp, Says(t, "otx"), Says(t, "shodan")) >= Threshold
                 THEN "mark" ELSE PlaybookStage(t))
    /\ FromTemplate(t)
    /\ UNCHANGED <<input, analysis, intel, model, client, windows, malicious, caches, faults>>

MarkMalicious(t) ==
    \E ok \in BOOLEAN :
        /\ stage[t] = "mark" /\ Command(Agent(t), ok)
        /\ malicious' \in Written(Agent(t), ok, malicious, malicious \cup {alert[t].source})
        /\ Goto(t, PlaybookStage(t)) /\ FromTemplate(t)
        /\ UNCHANGED <<input, analysis, intel, model, windows, caches>>

Enrich(t) == (\E s \in Cached : LookUp(t, s)) \/ JoinLookups(t) \/ MarkMalicious(t)

-----------------------------------------------------------------------------
(***************************************************************************)
(* PlaybookGenAgent.run for a category without a template, and             *)
(* LLMClient.call.                                                         *)
(***************************************************************************)

Topic(t) == alert[t].topic

ReadPlaybook(t) ==
    \E ok \in BOOLEAN :
        LET hit == ok /\ Topic(t) \in playbooks IN
        /\ stage[t] = "cache" /\ Command(Agent(t), ok)
        /\ playbook' = IF hit THEN [playbook EXCEPT ![t] = "cached"] ELSE playbook
        /\ Goto(t, IF hit THEN "done" ELSE "context")
        /\ UNCHANGED <<input, analysis, intel, model, windows, malicious, caches>>

\* _retrieve_context: the memoised context, or the vector store's, memoised in
\* turn.  The queries of the store touch nothing shared, and one that fails
\* leaves the context without its chunks.
ReadContext(t) ==
    \E ok \in BOOLEAN :
        /\ stage[t] = "context" /\ Command(Agent(t), ok)
        /\ Goto(t, IF ok /\ Topic(t) \in contexts THEN "waiting" ELSE "memoise")
        /\ UNCHANGED <<input, analysis, intel, model, playbook, windows, malicious, caches>>

Memoise(t) ==
    \E ok \in BOOLEAN :
        /\ stage[t] = "memoise" /\ Command(Agent(t), ok)
        /\ contexts' \in Written(Agent(t), ok, contexts, contexts \cup {Topic(t)})
        /\ Goto(t, "waiting")
        /\ UNCHANGED <<input, analysis, intel, model, playbook, windows, malicious, answers, playbooks>>

RetrieveContext(t) == ReadContext(t) \/ Memoise(t)

\* Mutant: calls are counted, and not held back.
TakeSlotUnguarded(t) ==
    /\ stage[t] = "waiting"
    /\ free' = free - 1
    /\ attempt' = [attempt EXCEPT ![t] = @ + 1]
    /\ Goto(t, "calling") /\ UNCHANGED playbook

\* `async with self._semaphore`, at once or after wait_exponential: a task that
\* waits, or sleeps before it tries again, holds no slot.
TakeSlot(t) ==
    /\ stage[t] = "waiting" /\ free > 0
    /\ free' = free - 1
    /\ attempt' = [attempt EXCEPT ![t] = @ + 1]
    /\ Goto(t, "calling") /\ UNCHANGED playbook

\* Whatever ends the call gives the slot back.
GiveSlot == free' = free + 1

\* Mutant: the slot is released after the call, not by `async with`: an error
\* keeps it.
CallEndsKeepingSlot(t) ==
    /\ stage[t] = "calling" /\ UNCHANGED attempt
    /\ \/ Goto(t, "store") /\ GiveSlot /\ UNCHANGED playbook
       \/ attempt[t] < MaxAttempts /\ Goto(t, "waiting") /\ UNCHANGED <<playbook, free>>
       \/ Goto(t, "done") /\ UNCHANGED free /\ playbook' = [playbook EXCEPT ![t] = "fallback"]

\* APIError is tried again, at most three times in all; a timeout, an answer
\* without choices and a text that is no playbook are not.
CallEnds(t) ==
    /\ stage[t] = "calling" /\ GiveSlot /\ UNCHANGED attempt
    /\ \/ Goto(t, "store") /\ UNCHANGED playbook
       \/ attempt[t] < MaxAttempts /\ Goto(t, "waiting") /\ UNCHANGED playbook
       \/ Goto(t, "done") /\ playbook' = [playbook EXCEPT ![t] = "fallback"]

CallModel(t) ==
    /\ TakeSlot(t) \/ CallEnds(t)
    /\ UNCHANGED <<input, analysis, intel, client, windows, malicious, caches, faults>>

StorePlaybook(t) ==
    \E ok \in BOOLEAN :
        /\ stage[t] = "store" /\ Command(Agent(t), ok)
        /\ playbooks' \in Written(Agent(t), ok, playbooks, playbooks \cup {Topic(t)})
        /\ playbook' = [playbook EXCEPT ![t] = "model"]
        /\ Goto(t, "done")
        /\ UNCHANGED <<input, analysis, intel, model, windows, malicious, answers, contexts>>

Generate(t) == ReadPlaybook(t) \/ RetrieveContext(t) \/ CallModel(t) \/ StorePlaybook(t)

-----------------------------------------------------------------------------

\* Any key may reach its time to live, and any id may leave its window.
Expire ==
    /\ Fault
    /\ \/ \E i \in dedup : dedup' = dedup \ {i} /\ UNCHANGED <<burst, missed, malicious, caches>>
       \/ \E r \in Rules : \E i \in burst[r] :
            /\ burst' = [burst EXCEPT ![r] = @ \ {i}] /\ missed' = missed \cup {i}
            /\ UNCHANGED <<dedup, malicious, caches>>
       \/ \E x \in malicious : malicious' = malicious \ {x} /\ UNCHANGED <<windows, caches>>
       \/ \E s \in Cached, x \in Indicators :
            /\ answers' = [answers EXCEPT ![s][x] = NotCached]
            /\ answers[s][x] # NotCached /\ UNCHANGED <<windows, malicious, contexts, playbooks>>
       \/ \E p \in contexts : contexts' = contexts \ {p} /\ UNCHANGED <<windows, malicious, answers, playbooks>>
       \/ \E p \in playbooks : playbooks' = playbooks \ {p} /\ UNCHANGED <<windows, malicious, answers, contexts>>
    /\ UNCHANGED <<input, stage, analysis, intel, model, playbook, client>>

TaskStep(t) ==
    \/ \E s \in Cached \cup {"agent"} : GetClient(<<t, s>>)
    \/ Analyse(t) \/ Enrich(t) \/ Generate(t)

AllOver == (\A t \in Tasks : Over(t)) /\ UNCHANGED vars

Next == (\E t \in Tasks : TaskStep(t)) \/ Expire \/ AllOver

Spec == Init /\ [][Next]_vars

\* asyncio runs every task that can go on, and every await of the agents ends:
\* the lookups and the model call have timeouts, Redis answers or raises.
FairSpec == Spec /\ \A t \in Tasks : WF_vars(TaskStep(t))

-----------------------------------------------------------------------------
(***************************************************************************)
(* Properties.                                                             *)
(***************************************************************************)

\* However many callers find no client, one is created: each connection pool
\* is as large as the pipeline's concurrency, so a second one may exhaust Redis.
OneClient == pools <= 1

\* What the sources say of an alert, all of them answering.
Evidence(a) ==
    LET says(s, x) == IF x = "none" THEN 0 ELSE Verdict[s][x]
    IN Score(says("vt", a.ioc), says("misp", a.ioc), says("otx", a.ioc), says("shodan", a.source))

Earned(x) == \E t \in Tasks : alert[t].source = x /\ Evidence(alert[t]) >= Threshold

\* Failing sources, lost commands and expired keys make the system miss an
\* evil address, and never blame an innocent one: an address is marked, and an
\* alert's score raised, only if some alert from that address has evidence for
\* it; and what other tasks will take from the cache is what the source said.
MarkIsEarned ==
    /\ \A x \in malicious : Earned(x)
    /\ \A t \in Tasks : raised[t] => Earned(alert[t].source)
    /\ \A s \in Cached, x \in Indicators : answers[s][x] \in {NotCached, Verdict[s][x]}

PastBurst(t) == stage[t] \notin {"dedup", "burst"}

\* Of two alerts of one rule in one window, whatever the order in which their
\* tasks run, at least one is told of the other, unless Redis failed.
SecondSeesFirst ==
    \A t, u \in Tasks :
        LET a == alert[t]
            b == alert[u]
        IN (/\ PastBurst(t) /\ PastBurst(u)
            /\ a.rule = b.rule /\ a.id # b.id /\ {a.id, b.id} \cap missed = {})
           => a.id \in related[u] \/ b.id \in related[t]

\* With one slot for several calls, with API errors, timeouts and backoff, with
\* Redis failing while its client is created: every task leaves the agents, and
\* all slots are back.
AlertAnswered == <>[](free = Slots /\ \A t \in Tasks : Over(t))

=============================================================================
