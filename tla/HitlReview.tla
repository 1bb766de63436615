----------------------------- MODULE HitlReview -----------------------------
(***************************************************************************)
(* The human-in-the-loop review of a playbook: agents/hitl_agent.py parks  *)
(* an alert, a detached resume task waits for a decision with the client   *)
(* of infrastructure/sqlite_client.py or postgres_client.py, records it    *)
(* and runs the rest of the pipeline through agents/supervisor.py and      *)
(* agents/soar_agent.py.  Analysts decide through api/hitl_api.py, in      *)
(* another process that shares only the database.                          *)
(*                                                                         *)
(* Every await of the code is a point where the other tasks, the analysts  *)
(* and the clock may take steps.  A playbook is the set of the action      *)
(* types of its steps.  Time is counted per review, from the moment its    *)
(* task took `start`, and saturates at the timeout: the code compares the  *)
(* elapsed time with nothing larger.                                       *)
(***************************************************************************)
EXTENDS Naturals, Sequences, FiniteSets

CONSTANTS
    Reviews,          \* the reviews the pipeline opens, one per parked alert
    Requests,         \* the POSTs of analysts to /api/hitl/{review_id}/decision
    Backends,         \* the database clients the process may be started with
    StepKinds,        \* action types of playbook steps
    Irreversible,     \* IRREVERSIBLE_ACTIONS
    Generated,        \* the playbook the generator wrote
    Rewritten,        \* the playbook an analyst sends along with EDIT
    EscalateSeconds,  \* ESCALATE_SECONDS
    TimeoutSeconds,   \* TIMEOUT_SECONDS
    PollInterval,     \* POLL_INTERVAL of the SQLite loop
    WaitCap,          \* the 30 s cap of one Postgres wait
    SoarEnabled,      \* SOAR_ENABLED
    MaxFaults         \* bound: crashes and failing calls of one behaviour

ASSUME HitlAssumption ==
    /\ Backends \subseteq {"sqlite", "postgres"}
    /\ Irreversible \subseteq StepKinds
    /\ Generated \subseteq StepKinds
    /\ Rewritten \subseteq StepKinds
    /\ EscalateSeconds \in Nat
    /\ TimeoutSeconds \in Nat \ {0}
    /\ PollInterval \in Nat \ {0}
    /\ WaitCap \in Nat \ {0}
    /\ SoarEnabled \in BOOLEAN
    /\ MaxFaults \in Nat

VARIABLES
    backend,    \* which client `sqlite_client` is bound to
    task,       \* per review: how far its task is
    age,        \* per review: seconds since its task took `start`
    timer,      \* per review: seconds left of the current wait or sleep
    escalated,  \* per review: the senior analyst was notified
    notified,   \* per review: the NOTIFY callback has set `matched`
    wire,       \* per review: the dedicated connection of its LISTEN
    verdict,    \* per review: the decision its task acts on
    rows,       \* per review: its hitl_decisions rows
    status,     \* per review: hitl_reviews.status
    early,      \* history: the rows there were when its task began to look:
                \* at its start with SQLite, at LISTEN with Postgres
    published,  \* per review: playbooks sent to wazuh.playbooks
    soar,       \* per review: playbooks a Shuffle execution took its targets from
    audit,      \* per review: audit_log rows by outcome
    request,    \* per request: how far its handler is, and its decision
    stamp,      \* the last decided_at handed out
    faults      \* crashes and failures so far

\* The variables by what they belong to: the process and its peers, the
\* clock of a wait, the listener, the decision taken, the database, and what
\* leaves the pipeline.
env == <<backend, request, faults>>
timing == <<age, timer, escalated>>
listener == <<notified, wire, early>>
choice == <<verdict, stamp>>
database == <<rows, status, audit>>
outputs == <<published, soar>>
vars == <<task, env, timing, listener, choice, database, outputs>>

-----------------------------------------------------------------------------
(* Decisions, and the playbook a decision publishes.                       *)

Actions == {"APPROVE", "EDIT", "REJECT", "ESCALATE"}
Outcomes == {"EXECUTED", "DROPPED", "ESCALATED"}

\* analyst_id, as far as publish_to_soar looks at it.
Deciders == {"analyst", "system:timeout"}

Decision == [action : Actions, by : Deciders, edited : BOOLEAN, at : Nat]
NoDecision == [action |-> "NONE", by |-> "nobody", edited |-> FALSE, at |-> 0]

\* The row poll_decision returns: ORDER BY decided_at DESC LIMIT 1.
IsLatest(d, ds) == d \in ds /\ \A e \in ds : e.at <= d.at

\* _auto_partial_approve.
TimeoutApproval(at) ==
    [action |-> "APPROVE", by |-> "system:timeout", edited |-> FALSE, at |-> at]

\* _strip_irreversible.
StripIrreversible(pb) == pb \ Irreversible

\* A mutation of PlaybookOf: the analyst_id test is dropped.
UnstrippedPlaybook(d) == IF d.edited THEN Rewritten ELSE Generated

\* The local `playbook` of publish_to_soar.
PlaybookOf(d) ==
    LET chosen == IF d.edited THEN Rewritten ELSE Generated
    IN  IF d.by = "system:timeout" THEN StripIrreversible(chosen) ELSE chosen

-----------------------------------------------------------------------------
(* How far a task is.  hitl_agent.run is Inserting; everything after the   *)
(* create_task is the resume task.                                         *)

Waiting == {"connecting", "checking", "waiting", "reading", "polling", "sleeping"}
Running == {"inserted", "deciding", "recorded", "published", "audited"} \cup Waiting
TaskStates == Running \cup {"absent", "resolved", "lost"}

\* States in which the listener is registered and its callback can fire.
Listening(r) == backend = "postgres" /\ task[r] \in {"checking", "waiting"}

\* The connection is quiet, a notification is on its way over it, or it has
\* dropped without a word to the task.
Wires == {"quiet", "notifying", "cut"}

RequestStates == {"idle", "storing", "auditing", "answered", "dead"}

TypeOK ==
    /\ backend \in Backends
    /\ task \in [Reviews -> TaskStates]
    /\ age \in [Reviews -> 0 .. TimeoutSeconds]
    /\ timer \in [Reviews -> Nat]
    /\ escalated \in [Reviews -> BOOLEAN]
    /\ notified \in [Reviews -> BOOLEAN]
    /\ wire \in [Reviews -> Wires]
    /\ verdict \in [Reviews -> Decision \cup {NoDecision}]
    /\ rows \in [Reviews -> SUBSET Decision]
    /\ status \in [Reviews -> Actions \cup {"none", "PENDING"}]
    /\ early \in [Reviews -> SUBSET Decision]
    /\ published \in [Reviews -> Seq(SUBSET StepKinds)]
    /\ soar \in [Reviews -> Seq(SUBSET StepKinds)]
    /\ audit \in [Reviews -> [Outcomes -> Nat]]
    /\ request \in [Requests -> [state : RequestStates, review : Reviews,
                                 decision : Decision \cup {NoDecision}]]
    /\ stamp \in Nat
    /\ faults \in 0 .. MaxFaults

Init ==
    /\ backend \in Backends
    /\ task = [r \in Reviews |-> "absent"]
    /\ age = [r \in Reviews |-> 0]
    /\ timer = [r \in Reviews |-> 0]
    /\ escalated = [r \in Reviews |-> FALSE]
    /\ notified = [r \in Reviews |-> FALSE]
    /\ wire = [r \in Reviews |-> "quiet"]
    /\ verdict = [r \in Reviews |-> NoDecision]
    /\ rows = [r \in Reviews |-> {}]
    /\ status = [r \in Reviews |-> "none"]
    /\ early = [r \in Reviews |-> {}]
    /\ published = [r \in Reviews |-> <<>>]
    /\ soar = [r \in Reviews |-> <<>>]
    /\ audit = [r \in Reviews |-> [o \in Outcomes |-> 0]]
    /\ request \in [Requests -> [state : {"idle"}, review : Reviews,
                                 decision : {NoDecision}]]
    /\ stamp = 0
    /\ faults = 0

Goto(r, s) == task' = [task EXCEPT ![r] = s]

-----------------------------------------------------------------------------
(* Parking the alert: hitl_agent.run.                                      *)

\* store_pending_review commits the row: from here on analysts can see it.
InsertReview(r) ==
    /\ task[r] = "absent"
    /\ Goto(r, "inserted")
    /\ status' = [status EXCEPT ![r] = "PENDING"]
    /\ UNCHANGED <<env, timing, listener, choice, outputs, rows, audit>>

\* The notifications are out; the resume task is created and takes `start`.
\* The worker that ran the graph is free again.
ParkAndDetach(r) ==
    /\ task[r] = "inserted"
    /\ IF backend = "postgres"
       THEN /\ Goto(r, "connecting")
            /\ UNCHANGED early
       ELSE /\ Goto(r, "checking")
            /\ early' = [early EXCEPT ![r] = rows[r]]
    /\ UNCHANGED <<env, timing, choice, database, outputs, notified, wire>>

-----------------------------------------------------------------------------
(* Waiting for a decision: _await_decision and, for Postgres,              *)
(* wait_for_decision.                                                      *)

Least(a, b) == IF a <= b THEN a ELSE b
Most(a, b) == IF a >= b THEN a ELSE b

\* wait_secs of one Postgres wait, once escalation has been looked at.
WaitSeconds(elapsed, hasEscalated) ==
    LET remaining == TimeoutSeconds - elapsed
        untilEscalate == IF hasEscalated THEN remaining ELSE EscalateSeconds - elapsed
    IN  Most(1, Least(Least(untilEscalate, remaining), WaitCap))

\* add_listener: from here on a NOTIFY for the review is sent to the task.
\* The rows already there are not looked at.
Listen(r) ==
    /\ task[r] = "connecting"
    /\ Goto(r, "checking")
    /\ early' = [early EXCEPT ![r] = rows[r]]
    /\ UNCHANGED <<env, timing, choice, database, outputs, notified, wire>>

\* _on_notify: the notification arrives, some time after the commit.
Deliver(r) ==
    /\ Listening(r)
    /\ wire[r] = "notifying"
    /\ notified' = [notified EXCEPT ![r] = TRUE]
    /\ wire' = [wire EXCEPT ![r] = "quiet"]
    /\ UNCHANGED <<task, env, timing, choice, database, outputs, early>>

\* The dedicated connection drops, with what was on its way.  Nothing tells
\* the task: its waits end by their timers, and removing the listener from a
\* closed connection and closing it again do nothing.
LoseListener(r) ==
    /\ Listening(r)
    /\ wire[r] # "cut"
    /\ faults < MaxFaults
    /\ wire' = [wire EXCEPT ![r] = "cut"]
    /\ faults' = faults + 1
    /\ UNCHANGED <<task, timing, choice, database, outputs, notified, early,
                   backend, request>>

\* A mutation of EscalateIfDue: the notification follows the timeout's clock.
EscalateLate(r) ==
    escalated' = [escalated EXCEPT ![r] = @ \/ age[r] > TimeoutSeconds]

\* The escalation that the top of either loop sends, at most once.
EscalateIfDue(r) ==
    escalated' = [escalated EXCEPT ![r] = @ \/ age[r] >= EscalateSeconds]

\* The top of the loop when the review has timed out: the decision is made
\* up, whatever rows or notifications have arrived since the last look.
GiveUp(r) ==
    /\ task[r] = "checking"
    /\ age[r] >= TimeoutSeconds
    /\ EscalateIfDue(r)
    /\ verdict' = [verdict EXCEPT ![r] = TimeoutApproval(stamp + 1)]
    /\ stamp' = stamp + 1
    /\ Goto(r, "deciding")
    /\ UNCHANGED <<env, listener, database, outputs, age, timer>>

\* A mutation of KeepWaiting: the SQLite loop sleeps before it polls.
SleepFirst(r) ==
    /\ task[r] = "checking"
    /\ age[r] < TimeoutSeconds
    /\ EscalateIfDue(r)
    /\ Goto(r, IF backend = "postgres" THEN "waiting" ELSE "sleeping")
    /\ timer' = [timer EXCEPT ![r] = PollInterval]
    /\ UNCHANGED <<env, listener, choice, database, outputs, age>>

\* A mutation of KeepWaiting: the event is cleared before each wait, also
\* when the notification came as the last wait's timer ran out.
ForgetWakeup(r) ==
    /\ task[r] = "checking"
    /\ age[r] < TimeoutSeconds
    /\ EscalateIfDue(r)
    /\ notified' = [notified EXCEPT ![r] = FALSE]
    /\ IF backend = "postgres"
       THEN /\ Goto(r, "waiting")
            /\ timer' = [timer EXCEPT ![r] = WaitSeconds(age[r], escalated'[r])]
       ELSE /\ Goto(r, "polling")
            /\ UNCHANGED timer
    /\ UNCHANGED <<env, wire, early, choice, database, outputs, age>>

\* The top of the loop before that: Postgres waits for a notification,
\* SQLite polls.
KeepWaiting(r) ==
    /\ task[r] = "checking"
    /\ age[r] < TimeoutSeconds
    /\ EscalateIfDue(r)
    /\ IF backend = "postgres"
       THEN /\ Goto(r, "waiting")
            /\ timer' = [timer EXCEPT ![r] = WaitSeconds(age[r], escalated'[r])]
       ELSE /\ Goto(r, "polling")
            /\ UNCHANGED timer
    /\ UNCHANGED <<env, listener, choice, database, outputs, age>>

\* wait_for returns because the callback set the event.  The listener is
\* removed on the way out.
TakeNotification(r) ==
    /\ task[r] = "waiting"
    /\ notified[r]
    /\ Goto(r, "reading")
    /\ UNCHANGED <<env, timing, listener, choice, database, outputs>>

\* A mutation of TimerFires: the Postgres wait has no timeout.
SleepEnds(r) ==
    /\ task[r] = "sleeping"
    /\ timer[r] = 0
    /\ Goto(r, "checking")
    /\ UNCHANGED <<env, timing, listener, choice, database, outputs>>

\* wait_for or sleep returns because its time is up.
TimerFires(r) ==
    /\ task[r] \in {"waiting", "sleeping"}
    /\ timer[r] = 0
    /\ Goto(r, "checking")
    /\ UNCHANGED <<env, timing, listener, choice, database, outputs>>

\* poll_decision finds a row: it is the decision the task acts on.
ReadDecision(r) ==
    /\ task[r] \in {"reading", "polling"}
    /\ \E d \in rows[r] :
          /\ IsLatest(d, rows[r])
          /\ verdict' = [verdict EXCEPT ![r] = d]
    /\ Goto(r, "deciding")
    /\ UNCHANGED <<env, timing, listener, database, outputs, stamp>>

\* poll_decision finds none, which only the SQLite loop can meet.
PollAgainLater(r) ==
    /\ task[r] = "polling"
    /\ rows[r] = {}
    /\ timer' = [timer EXCEPT ![r] = PollInterval]
    /\ Goto(r, "sleeping")
    /\ UNCHANGED <<env, listener, choice, database, outputs, age, escalated>>

-----------------------------------------------------------------------------
(* store_decision, called by the API for the analyst's decision and again  *)
(* by the resume task for the one it acts on: one transaction inserts a    *)
(* row, sets the review's status and, on Postgres, notifies.               *)

\* pg_notify: the server sends a notification to the review's listener, if
\* there is one and its connection still stands.  It is not there yet.
Notify(r) ==
    wire' = [wire EXCEPT ![r] =
        IF Listening(r) /\ @ = "quiet" THEN "notifying" ELSE @]

\* A mutation of CommitDecision: the status is a word of its own.
CommitDecided(r, d) ==
    /\ rows' = [rows EXCEPT ![r] = @ \cup {d}]
    /\ status' = [status EXCEPT ![r] = "DECIDED"]
    /\ Notify(r)

CommitDecision(r, d) ==
    /\ rows' = [rows EXCEPT ![r] = @ \cup {d}]
    /\ status' = [status EXCEPT ![r] = d.action]
    /\ Notify(r)

\* A mutation of RecordVerdict: the resume task does not store its decision.
SkipRecording(r) ==
    /\ task[r] = "deciding"
    /\ Goto(r, "recorded")
    /\ UNCHANGED <<env, timing, listener, choice, database, outputs>>

\* A mutation of RecordVerdict: the task looks again before it stores.
RecordLatest(r) ==
    /\ task[r] = "deciding"
    /\ \E d \in rows[r] \cup {verdict[r]} :
          /\ IsLatest(d, rows[r] \cup {verdict[r]})
          /\ verdict' = [verdict EXCEPT ![r] = d]
          /\ CommitDecision(r, d)
    /\ Goto(r, "recorded")
    /\ UNCHANGED <<env, timing, outputs, notified, early, audit, stamp>>

RecordVerdict(r) ==
    /\ task[r] = "deciding"
    /\ CommitDecision(r, verdict[r])
    /\ Goto(r, "recorded")
    /\ UNCHANGED <<env, timing, choice, outputs, notified, early, audit>>

-----------------------------------------------------------------------------
(* Acting on the decision: publish_to_soar and soar_agent.run, or one of   *)
(* the other two terminal nodes of the supervisor.                         *)

\* A mutation of PublishPlaybook: the audit entry is left out.
PublishUnaudited(r) ==
    /\ task[r] = "recorded"
    /\ verdict[r].action \in {"APPROVE", "EDIT"}
    /\ published' = [published EXCEPT ![r] = Append(@, PlaybookOf(verdict[r]))]
    /\ Goto(r, "audited")
    /\ UNCHANGED <<env, timing, listener, choice, database, soar>>

\* publish_to_soar up to its send to wazuh.playbooks.
PublishPlaybook(r) ==
    /\ task[r] = "recorded"
    /\ verdict[r].action \in {"APPROVE", "EDIT"}
    /\ published' = [published EXCEPT ![r] = Append(@, PlaybookOf(verdict[r]))]
    /\ Goto(r, "published")
    /\ UNCHANGED <<env, timing, listener, choice, database, soar>>

\* One audit_log row.
Log(r, outcome) == audit' = [audit EXCEPT ![r][outcome] = @ + 1]

\* The rest of publish_to_soar.
AuditExecuted(r) ==
    /\ task[r] = "published"
    /\ Log(r, "EXECUTED")
    /\ Goto(r, "audited")
    /\ UNCHANGED <<env, timing, listener, choice, outputs, rows, status>>

\* soar_agent.run: the targets of the Shuffle execution are extracted from
\* state["playbook"], which is still the generated one.  A failing trigger
\* ends the task all the same.
RunSoar(r) ==
    /\ task[r] = "audited"
    /\ \E triggered \in BOOLEAN :
          soar' = IF SoarEnabled /\ triggered
                  THEN [soar EXCEPT ![r] = Append(@, Generated)]
                  ELSE soar
    /\ Goto(r, "resolved")
    /\ UNCHANGED <<env, timing, listener, choice, database, published>>

\* drop_and_log and escalate_to_senior.
OutcomeOf(action) == IF action = "REJECT" THEN "DROPPED" ELSE "ESCALATED"

\* A mutation of CloseReview: the entry is left to the API's handler.
CloseSilently(r) ==
    /\ task[r] = "recorded"
    /\ verdict[r].action \in {"REJECT", "ESCALATE"}
    /\ Goto(r, "resolved")
    /\ UNCHANGED <<env, timing, listener, choice, database, outputs>>

CloseReview(r) ==
    /\ task[r] = "recorded"
    /\ verdict[r].action \in {"REJECT", "ESCALATE"}
    /\ Log(r, OutcomeOf(verdict[r].action))
    /\ Goto(r, "resolved")
    /\ UNCHANGED <<env, timing, listener, choice, outputs, rows, status>>

-----------------------------------------------------------------------------
(* submit_decision.                                                        *)

\* The handler validates the body and builds the decision.  It does not ask
\* whether the review is still pending.
Submit(q) ==
    LET r == request[q].review IN
    /\ request[q].state = "idle"
    /\ status[r] # "none"
    /\ \E a \in Actions, e \in BOOLEAN :
          /\ e => a = "EDIT"
          /\ request' = [request EXCEPT ![q].state = "storing", ![q].decision =
                [action |-> a, by |-> "analyst", edited |-> e, at |-> stamp + 1]]
    /\ stamp' = stamp + 1
    /\ UNCHANGED <<timing, listener, database, outputs, backend, task, verdict, faults>>

StoreDecision(q) ==
    LET r == request[q].review
        d == request[q].decision
    IN
    /\ request[q].state = "storing"
    /\ CommitDecision(r, d)
    /\ request' = [request EXCEPT ![q].state =
          IF d.action \in {"REJECT", "ESCALATE"} THEN "auditing" ELSE "answered"]
    /\ UNCHANGED <<timing, choice, outputs, backend, task, notified, early, audit, faults>>

\* The immediate audit row of the two terminal actions.
StoreAudit(q) ==
    /\ request[q].state = "auditing"
    /\ Log(request[q].review, OutcomeOf(request[q].decision.action))
    /\ request' = [request EXCEPT ![q].state = "answered"]
    /\ UNCHANGED <<timing, listener, choice, outputs, backend, task, rows, status, faults>>

-----------------------------------------------------------------------------
(* The clock, and what can go wrong.                                       *)

\* One second passes for the tasks that measure one.  None passes at the top
\* of a loop: elapsed is read and compared with no await in between.
Tick ==
    /\ \A r \in Reviews : task[r] # "checking"
    /\ \E r \in Reviews : task[r] \in Waiting /\ (age[r] < TimeoutSeconds \/ timer[r] > 0)
    /\ age' = [r \in Reviews |-> IF task[r] \in Waiting
                                 THEN Least(age[r] + 1, TimeoutSeconds) ELSE age[r]]
    /\ timer' = [r \in Reviews |-> IF task[r] \in Waiting /\ timer[r] > 0
                                   THEN timer[r] - 1 ELSE timer[r]]
    /\ UNCHANGED <<env, listener, choice, database, outputs, task, escalated>>

\* An awaited call raises: _handle or the resume task logs it and gives up.
TaskFails(r) ==
    /\ task[r] \in Running
    /\ faults < MaxFaults
    /\ Goto(r, "lost")
    /\ faults' = faults + 1
    /\ UNCHANGED <<timing, listener, choice, database, outputs, backend, request>>

\* The orchestrator dies.  Its successor knows nothing of the tasks.
Crash ==
    /\ faults < MaxFaults
    /\ task' = [r \in Reviews |-> IF task[r] \in Running THEN "lost" ELSE task[r]]
    /\ faults' = faults + 1
    /\ UNCHANGED <<timing, listener, choice, database, outputs, backend, request>>

\* A call of a handler raises, or the API process dies.
RequestFails(q) ==
    /\ request[q].state \in {"storing", "auditing"}
    /\ faults < MaxFaults
    /\ request' = [request EXCEPT ![q].state = "dead"]
    /\ faults' = faults + 1
    /\ UNCHANGED <<timing, listener, choice, database, outputs, backend, task>>

-----------------------------------------------------------------------------

\* The steps the event loop owes a task: everything but its beginning and
\* its failures.
TaskStep(r) ==
    \/ ParkAndDetach(r)
    \/ Listen(r)
    \/ GiveUp(r)
    \/ KeepWaiting(r)
    \/ TakeNotification(r)
    \/ TimerFires(r)
    \/ ReadDecision(r)
    \/ PollAgainLater(r)
    \/ RecordVerdict(r)
    \/ PublishPlaybook(r)
    \/ AuditExecuted(r)
    \/ RunSoar(r)
    \/ CloseReview(r)

HandlerStep(q) == StoreDecision(q) \/ StoreAudit(q)

Step ==
    \/ \E r \in Reviews : InsertReview(r) \/ TaskStep(r) \/ TaskFails(r)
    \/ \E r \in Reviews : Deliver(r) \/ LoseListener(r)
    \/ \E q \in Requests : Submit(q) \/ HandlerStep(q) \/ RequestFails(q)
    \/ Crash

Next == Step \/ Tick

Spec == Init /\ [][Next]_vars

\* A database and an event loop that are never late: a second passes only
\* when each task is waiting or sleeping with time left, no notification is
\* on its way and no handler is in the middle of a request.
PromptTick ==
    /\ Tick
    /\ \A r \in Reviews : task[r] \in Running =>
          /\ task[r] \in {"waiting", "sleeping"} /\ timer[r] > 0
          /\ ~notified[r] /\ wire[r] # "notifying"
    /\ \A q \in Requests : request[q].state \notin {"storing", "auditing"}

PromptNext == Step \/ PromptTick

PromptSpec == Init /\ [][PromptNext]_vars

\* The event loop runs ready tasks and handlers, and time passes.  Nothing
\* obliges an analyst to decide.
FairSpec ==
    /\ Spec
    /\ \A r \in Reviews : WF_vars(TaskStep(r))
    /\ \A q \in Requests : WF_vars(HandlerStep(q))
    /\ WF_vars(Tick)

-----------------------------------------------------------------------------
(* Properties.                                                             *)

\* The pipeline decides on its own only when the whole window has passed,
\* and never before the senior analyst was notified, when the escalation is
\* due within the window (_await_decision, wait_for_decision).
SilenceBeforeTimeout ==
    \A r \in Reviews :
        verdict[r].by = "system:timeout" =>
            /\ age[r] = TimeoutSeconds
            /\ EscalateSeconds <= TimeoutSeconds => escalated[r]

\* Whatever the pipeline does for a review, the decision it acts on is in
\* hitl_decisions by then, and the dashboard no longer shows the review as
\* pending: the resume task stores its decision before it acts.
ActsOnRecordedDecision ==
    \A r \in Reviews :
        \/ published[r] # <<>>
        \/ soar[r] # <<>>
        \/ task[r] \in {"recorded", "resolved"}
        => verdict[r] \in rows[r] /\ status[r] # "PENDING"

\* A playbook that goes out to wazuh.playbooks with an irreversible step has
\* an approving analyst's row behind it, whichever of the analyst, the
\* timeout and a second analyst came first.
HumanBehindIrreversible ==
    \A r \in Reviews : \A i \in DOMAIN published[r] :
        published[r][i] \cap Irreversible # {} =>
            \E d \in rows[r] : d.by = "analyst" /\ d.action \in {"APPROVE", "EDIT"}

\* A Shuffle execution has its EXECUTED row before it starts, and the row
\* its published playbook; each happens at most once per review, with any
\* number of decisions and failures.
ExecutionChain ==
    \A r \in Reviews :
        /\ Len(soar[r]) <= audit[r]["EXECUTED"]
        /\ audit[r]["EXECUTED"] <= Len(published[r])
        /\ Len(published[r]) <= 1

\* While a task listens, a row committed since its LISTEN has woken it, or
\* its notification is on its way, over any number of waits that end by their
\* timers, unless the connection has dropped; and a wakeup finds a row, or
\* poll_decision would return None, which the caller takes for the timeout
\* (wait_for_decision, _on_notify).
WakeupsMatchRows ==
    \A r \in Reviews :
        Listening(r) =>
            /\ rows[r] # early[r] => notified[r] \/ wire[r] \in {"notifying", "cut"}
            /\ notified[r] \/ wire[r] = "notifying" => rows[r] # {}

\* The SQLite loop polls before it can time out: a decision that is there
\* when the task starts is never overridden by the timeout, however late the
\* event loop runs the task.
EarlyDecisionTaken ==
    \A r \in Reviews :
        backend = "sqlite" /\ early[r] # {} => verdict[r].by # "system:timeout"

\* A review that ran to its end left the audit row of its own outcome.
ResolvedIsAudited ==
    \A r \in Reviews :
        task[r] = "resolved" =>
            audit[r][IF verdict[r].action \in {"APPROVE", "EDIT"}
                     THEN "EXECUTED" ELSE OutcomeOf(verdict[r].action)] > 0

\* An alert parked for review ends, by a decision or by the timeout, unless
\* its task is lost: it never waits for ever on either client.
ParkedReviewEnds ==
    \A r \in Reviews : task[r] = "inserted" ~> task[r] \in {"resolved", "lost"}

-----------------------------------------------------------------------------
(* The review as the rest of the system sees it.                           *)

ContractStage(r) ==
    IF published[r] # <<>> \/ task[r] = "resolved" THEN "closed"
    ELSE IF task[r] = "lost" THEN "abandoned"
    ELSE IF verdict[r] # NoDecision THEN "ruled"
    ELSE IF task[r] = "absent" THEN "unopened" ELSE "open"

ContractEffect(r) ==
    IF published[r] # <<>> THEN "executed"
    ELSE IF task[r] # "resolved" THEN "none"
    ELSE IF verdict[r].action = "REJECT" THEN "dropped" ELSE "escalated"

ContractRuling(r) ==
    IF verdict[r] = NoDecision THEN "none"
    ELSE IF verdict[r].by = "analyst" THEN verdict[r].action ELSE "TIMEOUT"

Contract == INSTANCE ReviewContract WITH
    stage <- [r \in Reviews |-> ContractStage(r)],
    offers <- [r \in Reviews |-> {d.action : d \in {e \in rows[r] : e.by = "analyst"}}],
    ruling <- [r \in Reviews |-> ContractRuling(r)],
    effect <- [r \in Reviews |-> ContractEffect(r)]

\* Tasks, rows, listeners and handlers together keep the contract of a
\* review: one ruling, offered by an analyst or the timeout's own, and one
\* effect that follows from it.
ImplementsContract == Contract!Spec

-----------------------------------------------------------------------------
(* What the documentation says, and the code does not do.                  *)

\* A review that analysts refused before its task began to listen, and that
\* nobody approved, is not executed (api/hitl_api.py: the pipeline picks a
\* recorded decision up within about 5 seconds).
EarlyRefusalObeyed ==
    \A r \in Reviews :
        /\ early[r] # {}
        /\ \A d \in rows[r] : d.by = "analyst" => d.action \in {"REJECT", "ESCALATE"}
        => published[r] = <<>>

\* Shuffle is given the targets of an irreversible step only if an analyst
\* approved (agents/hitl_agent.py: the irreversible steps have been removed).
HumanBehindIrreversibleTarget ==
    \A r \in Reviews : \A i \in DOMAIN soar[r] :
        soar[r][i] \cap Irreversible # {} =>
            \E d \in rows[r] : d.by = "analyst" /\ d.action \in {"APPROVE", "EDIT"}

=============================================================================
