------------------------------ MODULE Pipeline ------------------------------
(***************************************************************************)
(* The orchestrator: orchestration/graph.py consumes wazuh.raw with one    *)
(* worker per partition, starts a task for every message and lets the      *)
(* tasks through one semaphore; a task takes its alert through the graph:  *)
(* analyse, enrich, generate_playbook, and then hitl, execute and soar, or *)
(* drop.                                                                   *)
(*                                                                         *)
(* Offsets are committed behind the tasks' backs and Redis remembers which *)
(* alerts were seen, so what a crash, a failed call or a second delivery   *)
(* does to an alert depends on how far its first handling had come.  A     *)
(* parked alert is taken on by HitlReview and a triggered one by           *)
(* SoarExecution.                                                          *)
(***************************************************************************)
EXTENDS Naturals, Sequences, FiniteSets

CONSTANTS
    Workers,        \* consumer workers, each with a partition of wazuh.raw
    Length,         \* bound: messages in a partition
    Alerts,         \* alert ids; all share a category and a playbook cache key
    Categories,     \* bound: the categories they may share
    Critical,       \* alerts of severity CRITICAL
    Limits,         \* values PIPELINE_MAX_CONCURRENT_ALERTS may have
    MaxFaults       \* bound: crashes and failing calls

ASSUME PipelineAssumption ==
    /\ Length \in Nat
    /\ Critical \subseteq Alerts
    /\ Limits \subseteq Nat \ {0}
    /\ MaxFaults \in Nat

VARIABLES
    topic,      \* what wazuh.raw holds at each position
    next,       \* per worker: messages fetched
    committed,  \* per worker: the offset Kafka keeps for the group
    worker,     \* per worker: "running", or "stopping" on a KafkaException
    limit,      \* PIPELINE_MAX_CONCURRENT_ALERTS
    queue,      \* tasks waiting for the semaphore, in order
    free,       \* the semaphore's value
    task,       \* per message: how far its task is
    dup,        \* per message: analysis.is_duplicate
    playbook,   \* per message: state["playbook"]
    fast,       \* PLAYBOOK_FAST_MODE
    category,   \* the alerts' category, in lower case
    trace,      \* per message: what its handlings left in the database
    dedup,      \* alerts with a dedup key in Redis
    cache,      \* the cached playbook, if any
    launched,   \* history: per alert, reviews opened and playbooks executed
    uncertain,  \* history: alerts Redis failed for or has forgotten
    faults      \* crashes and failures so far

broker == <<topic, next, committed, worker>>
semaphore == <<limit, queue, free>>
state == <<task, dup, playbook>>
results == <<trace, launched>>
settings == <<fast, category>>
redis == <<settings, dedup, cache, uncertain>>
vars == <<broker, semaphore, state, redis, results, faults>>

-----------------------------------------------------------------------------

Messages == Workers \X (1 .. Length)

\* A message is an alert, JSON that is none, or no JSON at all.
Contents == Alerts \cup {"invalid", "garbled"}

\* What routing and execution read of a playbook: whose fields its steps
\* name, whether its confidence reaches 0.85, and what has_irreversible_steps
\* answers (it compares the action types as they are written; a step written
\* in lower case is reversible to it).
Playbooks == [of : Alerts, confident : BOOLEAN, reversible : BOOLEAN]
NoPlaybook == [of |-> "nobody", confident |-> FALSE, reversible |-> FALSE]

\* The states in which a task holds its slot, and those in which it is over.
Holding == {"deduping", "analysing", "enriching", "generating", "prompting",
            "parking", "publishing", "triggering", "dropping"}
Ended == {"parked", "executed", "dropped", "failed"}
TaskStates == {"none", "queued", "lost"} \cup Holding \cup Ended

Traces == {"PENDING", "EXECUTED", "DROPPED"}

TypeOK ==
    /\ topic \in [Messages -> Contents]
    /\ next \in [Workers -> 0 .. Length]
    /\ committed \in [Workers -> 0 .. Length]
    /\ worker \in [Workers -> {"running", "stopping"}]
    /\ queue \in Seq(Messages)
    /\ limit \in Limits
    /\ free \in 0 .. limit
    /\ task \in [Messages -> TaskStates]
    /\ dup \in [Messages -> BOOLEAN]
    /\ playbook \in [Messages -> Playbooks \cup {NoPlaybook}]
    /\ trace \in [Messages -> SUBSET Traces]
    /\ fast \in BOOLEAN
    /\ category \in Categories
    /\ dedup \subseteq Alerts
    /\ cache \in Playbooks \cup {NoPlaybook}
    /\ launched \in [Alerts -> Nat]
    /\ uncertain \subseteq Alerts
    /\ faults \in 0 .. MaxFaults

Init ==
    /\ topic \in [Messages -> Contents]
    /\ next = [w \in Workers |-> 0]
    /\ committed = [w \in Workers |-> 0]
    /\ worker = [w \in Workers |-> "running"]
    /\ queue = <<>>
    /\ limit \in Limits
    /\ free = limit
    /\ task = [m \in Messages |-> "none"]
    /\ dup = [m \in Messages |-> FALSE]
    /\ playbook = [m \in Messages |-> NoPlaybook]
    /\ trace = [m \in Messages |-> {}]
    /\ fast \in BOOLEAN
    /\ category \in Categories
    /\ dedup = {}
    /\ cache = NoPlaybook
    /\ launched = [a \in Alerts |-> 0]
    /\ uncertain = {}
    /\ faults = 0

Goto(m, s) == task' = [task EXCEPT ![m] = s]

\* The task is over, and with it its PipelineState; it leaves `async with
\* semaphore`.
End(m, s) ==
    /\ Goto(m, s)
    /\ free' = free + 1
    /\ dup' = [dup EXCEPT ![m] = FALSE]
    /\ playbook' = [playbook EXCEPT ![m] = NoPlaybook]
    /\ UNCHANGED <<limit, queue>>

Leave(m, t) == trace' = [trace EXCEPT ![m] = @ \cup {t}]
Launch(m) == launched' = [launched EXCEPT ![topic[m]] = @ + 1]
Fault == faults < MaxFaults /\ faults' = faults + 1

-----------------------------------------------------------------------------
(* The consumer workers.                                                   *)

\* poll returns a message; what is not JSON is skipped with a warning, and
\* for the rest a task is created that comes to the semaphore.
Fetch(w) ==
    LET m == <<w, next[w] + 1>>
    IN
    /\ worker[w] = "running"
    /\ next[w] < Length
    /\ next' = [next EXCEPT ![w] = @ + 1]
    /\ IF topic[m] = "garbled"
       THEN UNCHANGED <<task, queue>>
       ELSE Goto(m, "queued") /\ queue' = Append(queue, m)
    /\ UNCHANGED <<topic, committed, worker, limit, free, dup, playbook, redis, results, faults>>

\* enable.auto.commit: a background thread commits what poll has returned,
\* however far the tasks are.
AutoCommit(w) ==
    /\ committed[w] < next[w]
    /\ committed' = [committed EXCEPT ![w] = next[w]]
    /\ UNCHANGED <<topic, next, worker, semaphore, state, redis, results, faults>>

\* A mutation of Acquire: nobody looks at the semaphore's value.
AcquireAtOnce(m) ==
    /\ queue # <<>> /\ m = Head(queue)
    /\ queue' = Tail(queue)
    /\ Goto(m, "deduping")
    /\ free' = free - 1
    /\ UNCHANGED <<broker, limit, dup, playbook, redis, results, faults>>

\* The semaphore is handed out in order.  A message that is no WazuhAlert
\* fails at once.
Acquire(m) ==
    /\ queue # <<>> /\ m = Head(queue)
    /\ free > 0
    /\ queue' = Tail(queue)
    /\ IF topic[m] = "invalid"
       THEN Goto(m, "failed") /\ UNCHANGED free
       ELSE Goto(m, "deduping") /\ free' = free - 1
    /\ UNCHANGED <<broker, limit, dup, playbook, redis, results, faults>>

\* A mutation of Restarted: the new consumer goes on where the old one was.
RestartedAhead(offset) ==
    /\ committed' = offset
    /\ next' = next
    /\ worker' = [w \in Workers |-> "running"]
    /\ queue' = <<>>
    /\ free' = limit
    /\ task' = [m \in Messages |->
          IF task[m] \notin {"queued"} \cup Holding THEN task[m]
          ELSE IF m[2] <= offset[m[1]] THEN "lost" ELSE "none"]
    /\ dup' = [m \in Messages |-> FALSE]
    /\ playbook' = [m \in Messages |-> NoPlaybook]
    /\ UNCHANGED <<topic, limit, redis, results>>

\* A new process: it starts at the committed offsets, and the tasks of the
\* old one are gone.  Redis and the database stay.
Restarted(offset) ==
    /\ committed' = offset
    /\ next' = offset
    /\ worker' = [w \in Workers |-> "running"]
    /\ queue' = <<>>
    /\ free' = limit
    /\ task' = [m \in Messages |->
          IF task[m] \notin {"queued"} \cup Holding THEN task[m]
          ELSE IF m[2] <= offset[m[1]] THEN "lost" ELSE "none"]
    /\ dup' = [m \in Messages |-> FALSE]
    /\ playbook' = [m \in Messages |-> NoPlaybook]
    /\ UNCHANGED <<topic, limit, redis, results>>

Crash ==
    /\ Fault
    /\ Restarted(committed)

\* A KafkaException leaves the worker's loop ...
WorkerFails(w) ==
    /\ worker[w] = "running"
    /\ Fault
    /\ worker' = [worker EXCEPT ![w] = "stopping"]
    /\ UNCHANGED <<topic, next, committed, semaphore, state, redis, results>>

\* ... which gathers its own tasks.  Then the exception ends the process: the
\* tasks of the other workers are cancelled, and every consumer commits what
\* it has fetched as it closes.
Shutdown ==
    /\ \E w \in Workers :
          /\ worker[w] = "stopping"
          /\ \A i \in 1 .. Length : task[<<w, i>>] \notin {"queued"} \cup Holding
    /\ Restarted(next)
    /\ UNCHANGED faults

-----------------------------------------------------------------------------
(* The nodes of the graph.                                                 *)

\* A mutation of CheckDedup: EXISTS, and nobody sets the key.
CheckOnly(m) ==
    /\ task[m] = "deduping"
    /\ dup' = [dup EXCEPT ![m] = topic[m] \in dedup]
    /\ Goto(m, "analysing")
    /\ UNCHANGED <<broker, semaphore, playbook, redis, results, faults>>

\* check_dedup: SET NX.  When Redis fails the alert counts as new, whether
\* the key was set or not.
CheckDedup(m) ==
    LET a == topic[m]
    IN
    /\ task[m] = "deduping"
    /\ \/ /\ dup' = [dup EXCEPT ![m] = a \in dedup]
          /\ dedup' = dedup \cup {a}
          /\ UNCHANGED <<uncertain, faults>>
       \/ /\ Fault
          /\ dup' = [dup EXCEPT ![m] = FALSE]
          /\ dedup' \in {dedup, dedup \cup {a}}
          /\ uncertain' = uncertain \cup {a}
    /\ Goto(m, "analysing")
    /\ UNCHANGED <<broker, semaphore, playbook, settings, cache, results>>

\* The rest of the analysis and route_after_analysis: duplicates and noise are
\* dropped, alerts with IOCs are enriched.  What an alert is, is left open.
Analyse(m) ==
    /\ task[m] = "analysing"
    /\ \/ Goto(m, "dropping")
       \/ ~dup[m] /\ \E s \in {"enriching", "generating"} : Goto(m, s)
    /\ UNCHANGED <<broker, semaphore, dup, playbook, redis, results, faults>>

Enrich(m) ==
    /\ task[m] = "enriching"
    /\ Goto(m, "generating")
    /\ UNCHANGED <<broker, semaphore, dup, playbook, redis, results, faults>>


\* route_after_playbook.
RouteOf(a, p) ==
    IF ~p.confident \/ a \in Critical \/ ~p.reversible THEN "parking" ELSE "publishing"

\* The playbook is sent, written to the state and routed.
Generated(m, p) ==
    /\ playbook' = [playbook EXCEPT ![m] = p]
    /\ Goto(m, RouteOf(topic[m], p))

\* _CATEGORY_TEMPLATES: the actions of the steps of each template.
TemplateActions == [
    authentication_failures |-> {"BLOCK_IP", "DISABLE_USER", "RESET_PASSWORD", "REVOKE_TOKEN", "NOTIFY_ANALYST"},
    privilege_escalation    |-> {"ISOLATE_HOST", "KILL_PROCESS", "COLLECT_FORENSICS", "DISABLE_USER", "PATCH_CVE"},
    web_attack              |-> {"BLOCK_IP", "COLLECT_FORENSICS", "PATCH_CVE", "CREATE_TICKET"},
    lateral_movement        |-> {"ISOLATE_HOST", "BLOCK_IP", "DISABLE_USER", "COLLECT_FORENSICS", "RESET_PASSWORD"},
    malware                 |-> {"ISOLATE_HOST", "KILL_PROCESS", "COLLECT_FORENSICS", "BLOCK_IP", "PATCH_CVE"},
    c2                      |-> {"BLOCK_IP", "ISOLATE_HOST", "KILL_PROCESS", "COLLECT_FORENSICS", "PATCH_CVE"},
    data_exfiltration       |-> {"BLOCK_IP", "ISOLATE_HOST", "DISABLE_USER", "COLLECT_FORENSICS", "CREATE_TICKET"},
    recon                   |-> {"BLOCK_IP", "COLLECT_FORENSICS", "CREATE_TICKET"},
    authentication_success  |-> {"NOTIFY_ANALYST", "RESET_PASSWORD", "CREATE_TICKET"},
    container_security      |-> {"KILL_PROCESS", "COLLECT_FORENSICS", "PATCH_CVE"},
    supply_chain            |-> {"ISOLATE_HOST", "COLLECT_FORENSICS", "PATCH_CVE"}]
GenericActions == {"NOTIFY_ANALYST", "COLLECT_FORENSICS", "CREATE_TICKET"}
Irreversible == {"ISOLATE_HOST", "DISABLE_USER", "REVOKE_TOKEN"}

\* The category has a template.
Templated == category \in DOMAIN TemplateActions
Fast == fast /\ Templated

\* _contextual_playbook: confidence 0.92 from a template, 0.70 without one.
ContextualPlaybook(a) ==
    [of |-> a,
     confident |-> Templated,
     reversible |-> (IF Templated THEN TemplateActions[category] ELSE GenericActions)
                        \cap Irreversible = {}]

\* The fast path and the cache; failing both, the model is asked.
Generate(m) ==
    LET a == topic[m]
    IN
    /\ task[m] = "generating"
    /\ \/ /\ Fast
          /\ Generated(m, ContextualPlaybook(a))
       \/ /\ ~Fast
          /\ cache # NoPlaybook
          /\ Generated(m, cache)
       \/ /\ ~Fast
          /\ cache = NoPlaybook
          /\ Goto(m, "prompting")
          /\ UNCHANGED playbook
    /\ UNCHANGED <<broker, semaphore, dup, redis, results, faults>>

\* llm_client.call: its answer is cached (CacheExpires takes it out again if Redis
\* did not).  Without one, or with one that is no playbook, the contextual
\* playbook has to do.
Prompt(m) ==
    LET a == topic[m]
    IN
    /\ task[m] = "prompting"
    /\ \/ \E c, r \in BOOLEAN :
             LET p == [of |-> a, confident |-> c, reversible |-> r]
             IN  Generated(m, p) /\ cache' = p
       \/ Generated(m, ContextualPlaybook(a)) /\ UNCHANGED cache
    /\ UNCHANGED <<broker, semaphore, dup, settings, dedup, uncertain, results, faults>>

\* A mutation of Park: the node waits for the analyst in its slot.
ParkInSlot(m) ==
    /\ task[m] = "parking"
    /\ Leave(m, "PENDING")
    /\ Launch(m)
    /\ Goto(m, "parked")
    /\ UNCHANGED <<broker, semaphore, dup, playbook, redis, faults>>

\* The hitl node stores the review and detaches its resume task.
Park(m) ==
    /\ task[m] = "parking"
    /\ Leave(m, "PENDING")
    /\ Launch(m)
    /\ End(m, "parked")
    /\ UNCHANGED <<broker, redis, faults>>

\* publish_to_soar writes its audit row before the trigger.
Publish(m) ==
    /\ task[m] = "publishing"
    /\ Leave(m, "EXECUTED")
    /\ Goto(m, "triggering")
    /\ UNCHANGED <<broker, semaphore, dup, playbook, launched, redis, faults>>

\* soar_agent.run: the trigger; the watcher is detached.
Execute(m) ==
    /\ task[m] = "triggering"
    /\ Launch(m)
    /\ End(m, "executed")
    /\ UNCHANGED <<broker, trace, redis, faults>>

\* A mutation of Drop: duplicates leave no row.
DropSilently(m) ==
    /\ task[m] = "dropping"
    /\ IF dup[m] THEN UNCHANGED trace ELSE Leave(m, "DROPPED")
    /\ End(m, "dropped")
    /\ UNCHANGED <<broker, launched, redis, faults>>

\* drop_and_log.
Drop(m) ==
    /\ task[m] = "dropping"
    /\ Leave(m, "DROPPED")
    /\ End(m, "dropped")
    /\ UNCHANGED <<broker, launched, redis, faults>>

\* What the node a task is in writes to the database.
Writes(m) ==
    CASE task[m] = "parking" -> {"PENDING"}
      [] task[m] = "publishing" -> {"EXECUTED"}
      [] task[m] = "dropping" -> {"DROPPED"}
      [] OTHER -> {}

\* A mutation of Fail: acquire and release without a `finally`.
FailInSlot(m) ==
    /\ task[m] \in Holding
    /\ Fault
    /\ Goto(m, "failed")
    /\ UNCHANGED <<broker, semaphore, dup, playbook, redis, results>>

\* A call of the node raises, before or after its write; _handle logs the
\* exception and is done with the alert.
Fail(m) ==
    /\ task[m] \in Holding
    /\ Fault
    /\ \E ts \in {{}, Writes(m)} : trace' = [trace EXCEPT ![m] = @ \cup ts]
    /\ End(m, "failed")
    /\ UNCHANGED <<broker, launched, redis>>

-----------------------------------------------------------------------------
(* Redis.                                                                  *)

\* A dedup key expires (DEDUP_TTL_SECONDS) or is lost.
KeyExpires(a) ==
    /\ a \in dedup
    /\ Fault
    /\ dedup' = dedup \ {a}
    /\ uncertain' = uncertain \cup {a}
    /\ UNCHANGED <<broker, semaphore, state, settings, cache, results>>

\* The playbook cache expires, or was not written.
CacheExpires ==
    /\ cache # NoPlaybook
    /\ cache' = NoPlaybook
    /\ UNCHANGED <<broker, semaphore, state, settings, dedup, uncertain, results, faults>>

-----------------------------------------------------------------------------

Node(m) ==
    \/ CheckDedup(m)
    \/ Analyse(m)
    \/ Enrich(m)
    \/ Generate(m)
    \/ Prompt(m)
    \/ Park(m)
    \/ Publish(m)
    \/ Execute(m)
    \/ Drop(m)

Next ==
    \/ \E w \in Workers : Fetch(w) \/ AutoCommit(w) \/ WorkerFails(w)
    \/ \E m \in Messages : Acquire(m) \/ Node(m) \/ Fail(m)
    \/ \E a \in Alerts : KeyExpires(a)
    \/ CacheExpires
    \/ Crash
    \/ Shutdown

Spec == Init /\ [][Next]_vars

\* The event loop runs what is ready, and a process that ends is restarted.
FairSpec ==
    /\ Spec
    /\ \A w \in Workers : WF_vars(Fetch(w))
    /\ \A m \in Messages : WF_vars(Acquire(m)) /\ WF_vars(Node(m))
    /\ WF_vars(Shutdown)

-----------------------------------------------------------------------------
(* Properties.                                                             *)

\* The slots the semaphore has given out are those of the tasks in the
\* graph: no path out of _handle keeps one, an exception or a parked review.
SlotsAccounted ==
    free + Cardinality({m \in Messages : task[m] \in Holding}) = limit

\* An alert is reviewed or executed once, however often it is delivered -
\* twice in the topic, again after a crash, by two workers at a time - as long
\* as Redis answers and remembers.
LaunchedOnce == \A a \in Alerts : launched[a] <= 1 \/ a \in uncertain

\* No message is passed over: what a worker has gone past has a task, has come
\* to an end, or was lost to a restart; and a restart loses only what Kafka
\* took for done, the offsets committed behind the tasks' backs (the consumer
\* workers and enable.auto.commit, over any crashes, shutdowns and
\* redeliveries).
MessagesAccounted ==
    \A m \in Messages :
        /\ m[2] <= next[m[1]] /\ topic[m] # "garbled" => task[m] # "none"
        /\ task[m] = "lost" => m[2] <= committed[m[1]]

\* A handling that ended without an exception left its row: the review, the
\* audit of the execution, the audit of the drop.
EndsOnRecord ==
    \A m \in Messages :
        /\ task[m] = "parked" => "PENDING" \in trace[m]
        /\ task[m] \in {"triggering", "executed"} => "EXECUTED" \in trace[m]
        /\ task[m] = "dropped" => "DROPPED" \in trace[m]

\* Every message that is JSON is handled to an end, or is lost to a restart:
\* no task waits for the semaphore for ever, not behind parked reviews.
AlertEnds ==
    \A m \in Messages : topic[m] # "garbled" ~> task[m] \in Ended \cup {"lost"}

-----------------------------------------------------------------------------
(* What the documentation says, and the code does not do.                  *)

\* An alert is dropped as a duplicate only if it was processed already, or is
\* being processed (infrastructure/redis_client.py, the docstring of
\* check_dedup).
DuplicateMeansProcessed ==
    \A m \in Messages :
        task[m] = "dropping" /\ dup[m] =>
            \E n \in Messages :
                /\ topic[n] = topic[m]
                /\ trace[n] # {} \/ (n # m /\ task[n] \in Holding)

\* The playbook of an alert is tailored to it (docs/chapter_8_testing.md).
PlaybookIsTailored ==
    \A m \in Messages :
        playbook[m] # NoPlaybook => playbook[m].of = topic[m]

=============================================================================
