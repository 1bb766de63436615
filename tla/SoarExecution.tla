---------------------------- MODULE SoarExecution ----------------------------
(***************************************************************************)
(* An approved playbook in Shuffle: agents/soar_agent.py triggers the      *)
(* execution, announces it on wazuh.soar-actions and detaches a watcher    *)
(* that polls with services/shuffle_client.py until Shuffle is done or the *)
(* timeout is over.  Gated workflows stop at a gate; api/soar_routes.py    *)
(* records the gate in soar_hitl_requests and takes the analysts'          *)
(* approvals and rejections to Shuffle.                                    *)
(*                                                                         *)
(* The watcher runs in the orchestrator and the routes in the API: they    *)
(* share Shuffle and nothing else.  Shuffle itself is external; what is    *)
(* assumed of it is in its own section below.                              *)
(***************************************************************************)
EXTENDS Naturals, Sequences, FiniteSets

CONSTANTS
    Executions,        \* one per approved alert
    Requests,          \* analysts' calls of hitl-approve and hitl-reject
    ExecutionTimeout,  \* SHUFFLE_EXECUTION_TIMEOUT
    PollInterval,      \* SHUFFLE_POLL_INTERVAL
    Tokens,            \* whether the workflows' calls may carry a bearer token
    MaxCallbacks,      \* bound: times Shuffle calls hitl-gate for an execution
    MaxFaults          \* bound: crashes, refused calls and lost answers

ASSUME SoarAssumption ==
    /\ ExecutionTimeout \in Nat \ {0}
    /\ PollInterval \in Nat \ {0}
    /\ Tokens \subseteq BOOLEAN
    /\ MaxCallbacks \in Nat
    /\ MaxFaults \in Nat

VARIABLES
    shuffle,    \* per execution: its status in Shuffle
    gated,      \* per execution: its workflow has a hitl_gate step
    token,      \* whether the workflows' calls do: the registered ones do not
    callbacks,  \* per execution: hitl-gate calls Shuffle has made
    agent,      \* per execution: how far execute_playbook and its watcher are
    elapsed,    \* per execution: `elapsed` of its watcher
    events,     \* per execution: what was published about it, in order
    final,      \* per execution: the status its watcher saw last
    row,        \* per execution: soar_hitl_requests.status
    request,    \* per request: its handler
    accepted,   \* history: per execution, the calls Shuffle answered with 2xx
    faults      \* crashes and failures so far

\* The variables of the orchestrator, of Shuffle and of the API.
watching == <<agent, elapsed, events, final>>
workflow == <<shuffle, gated, token, callbacks>>
gate == <<row, request, accepted>>
vars == <<watching, workflow, gate, faults>>

-----------------------------------------------------------------------------

\* _TERMINAL_STATUSES.
Terminal == {"FINISHED", "FAILED", "ABORTED"}
Statuses == {"none", "running", "paused", "continued", "notified"} \cup Terminal

AgentStates == {"approved", "started", "refused", "polling", "sleeping", "overdue",
                "finished", "ended", "lost"}
Events == {"execution_started", "execution_error", "execution_timeout",
           "SOAR_EXECUTION_COMPLETE", "execution_complete"}
RowStates == {"none", "PENDING", "APPROVED", "REJECTED"}
RequestStates == {"idle", "pending", "accepted", "answered", "404", "502", "dead"}
Kinds == {"approve", "reject"}

TypeOK ==
    /\ shuffle \in [Executions -> Statuses]
    /\ gated \in [Executions -> BOOLEAN]
    /\ token \in Tokens
    /\ callbacks \in [Executions -> 0 .. MaxCallbacks]
    /\ agent \in [Executions -> AgentStates]
    /\ elapsed \in [Executions -> Nat]
    /\ events \in [Executions -> Seq(Events)]
    /\ final \in [Executions -> Terminal \cup {"none"}]
    /\ row \in [Executions -> RowStates]
    /\ request \in [Requests -> [state : RequestStates, kind : Kinds, execution : Executions]]
    /\ accepted \in [Executions -> SUBSET Kinds]
    /\ faults \in 0 .. MaxFaults

Init ==
    /\ shuffle = [x \in Executions |-> "none"]
    /\ gated \in [Executions -> BOOLEAN]
    /\ token \in Tokens
    /\ callbacks = [x \in Executions |-> 0]
    /\ agent = [x \in Executions |-> "approved"]
    /\ elapsed = [x \in Executions |-> 0]
    /\ events = [x \in Executions |-> <<>>]
    /\ final = [x \in Executions |-> "none"]
    /\ row = [x \in Executions |-> "none"]
    /\ request \in [Requests -> [state : {"idle"}, kind : Kinds, execution : Executions]]
    /\ accepted = [x \in Executions |-> {}]
    /\ faults = 0

Goto(x, s) == agent' = [agent EXCEPT ![x] = s]
Publish(x, e) == events' = [events EXCEPT ![x] = Append(@, e)]
Answer(q, s) == request' = [request EXCEPT ![q].state = s]
Fault == faults < MaxFaults /\ faults' = faults + 1

-----------------------------------------------------------------------------
(* execute_playbook.                                                       *)

\* ShuffleClient.trigger: Shuffle starts the workflow and says so.
Trigger(x) ==
    /\ agent[x] = "approved"
    /\ shuffle' = [shuffle EXCEPT ![x] = "running"]
    /\ Goto(x, "started")
    /\ UNCHANGED <<gate, gated, token, callbacks, elapsed, events, final, faults>>

\* trigger raises: Shuffle refused the workflow, or started it and its answer
\* did not come in time.
TriggerFails(x) ==
    /\ agent[x] = "approved"
    /\ Fault
    /\ \E s \in {"none", "running"} : shuffle' = [shuffle EXCEPT ![x] = s]
    /\ Goto(x, "refused")
    /\ UNCHANGED <<gate, gated, token, callbacks, elapsed, events, final>>

\* A mutation of AnnounceStart: the watcher is created and nothing is sent.
WatchFirst(x) ==
    /\ agent[x] = "started"
    /\ Goto(x, "polling")
    /\ UNCHANGED <<workflow, gate, elapsed, events, final, faults>>

\* The execution_started event, and then the watcher.
AnnounceStart(x) ==
    /\ agent[x] = "started"
    /\ Publish(x, "execution_started")
    /\ Goto(x, "polling")
    /\ UNCHANGED <<workflow, gate, elapsed, final, faults>>

\* The execution_error event of a failed trigger or of a refused poll.
ReportError(x) ==
    /\ agent[x] = "refused"
    /\ Publish(x, "execution_error")
    /\ Goto(x, "ended")
    /\ UNCHANGED <<workflow, gate, elapsed, final, faults>>

-----------------------------------------------------------------------------
(* ShuffleClient.wait and _soar_resume.                                    *)

\* A mutation of Poll: a paused execution counts as done.
PollPaused(x) ==
    /\ agent[x] = "polling"
    /\ IF shuffle[x] \in Terminal \cup {"paused"}
       THEN /\ Goto(x, "finished")
            /\ final' = [final EXCEPT ![x] = IF @ = "none" THEN "FINISHED" ELSE @]
       ELSE /\ Goto(x, "sleeping")
            /\ UNCHANGED final
    /\ UNCHANGED <<workflow, gate, elapsed, events, faults>>

\* get_status answers.
Poll(x) ==
    /\ agent[x] = "polling"
    /\ IF shuffle[x] \in Terminal
       THEN /\ Goto(x, "finished")
            /\ final' = [final EXCEPT ![x] = shuffle[x]]
       ELSE /\ Goto(x, "sleeping")
            /\ UNCHANGED final
    /\ UNCHANGED <<workflow, gate, elapsed, events, faults>>

\* get_status raises HTTPStatusError, which the watcher reports.
PollRefused(x) ==
    /\ agent[x] = "polling"
    /\ Fault
    /\ Goto(x, "refused")
    /\ UNCHANGED <<workflow, gate, elapsed, events, final>>

\* A mutation of Sleep: `elapsed` is never advanced.
SleepUncounted(x) ==
    /\ agent[x] = "sleeping"
    /\ Goto(x, IF elapsed[x] < ExecutionTimeout THEN "polling" ELSE "overdue")
    /\ UNCHANGED <<workflow, gate, elapsed, events, final, faults>>

\* The sleep is over: `elapsed` counts sleeps, not the time polls take.  The
\* last sleep is followed by no poll.
Sleep(x) ==
    /\ agent[x] = "sleeping"
    /\ elapsed' = [elapsed EXCEPT ![x] = @ + PollInterval]
    /\ Goto(x, IF elapsed'[x] < ExecutionTimeout THEN "polling" ELSE "overdue")
    /\ UNCHANGED <<workflow, gate, events, final, faults>>

ReportTimeout(x) ==
    /\ agent[x] = "overdue"
    /\ Publish(x, "execution_timeout")
    /\ Goto(x, "ended")
    /\ UNCHANGED <<workflow, gate, elapsed, final, faults>>

ReportCompletion(x) ==
    /\ agent[x] = "finished"
    /\ Publish(x, "SOAR_EXECUTION_COMPLETE")
    /\ Goto(x, "ended")
    /\ UNCHANGED <<workflow, gate, elapsed, final, faults>>

\* A call raises what nobody catches - a RequestError of a poll, a failing
\* send - or the orchestrator dies: no event, no second watcher.
WatcherLost(x) ==
    /\ agent[x] \notin {"ended", "lost"}
    /\ Fault
    /\ Goto(x, "lost")
    /\ UNCHANGED <<workflow, gate, elapsed, events, final>>

-----------------------------------------------------------------------------
(* Shuffle.  A terminal execution stays as it is; a gated workflow stops   *)
(* once, after its first step, and calls hitl-gate, perhaps again.         *)

\* The workflow comes to its gate.
ReachGate(x) ==
    /\ shuffle[x] = "running"
    /\ gated[x]
    /\ shuffle' = [shuffle EXCEPT ![x] = "paused"]
    /\ UNCHANGED <<watching, gate, gated, token, callbacks, faults>>

\* Every step before the last is done.
Acted(x) == shuffle[x] = IF gated[x] THEN "continued" ELSE "running"

\* The last step calls execution_result, which publishes for those who are
\* logged in.
NotifyPipeline(x) ==
    /\ Acted(x)
    /\ shuffle' = [shuffle EXCEPT ![x] = "notified"]
    /\ IF token THEN Publish(x, "execution_complete") ELSE UNCHANGED events
    /\ UNCHANGED <<gate, gated, token, callbacks, agent, elapsed, final, faults>>

\* The workflow is over: its last step is done, or one has failed.
EndWorkflow(x) ==
    /\ \/ /\ shuffle[x] = "notified"
          /\ shuffle' = [shuffle EXCEPT ![x] = "FINISHED"]
       \/ /\ Acted(x)
          /\ shuffle' = [shuffle EXCEPT ![x] = "FAILED"]
    /\ UNCHANGED <<watching, gate, gated, token, callbacks, faults>>

\* What a continue or a delete does: nothing to a terminal execution.
Continued(s) == IF s = "paused" THEN "continued" ELSE s
Aborted(s) == IF s \in Terminal THEN s ELSE "ABORTED"

-----------------------------------------------------------------------------
(* The routes of soar_routes.                                              *)

\* A mutation of HitlGate: INSERT OR REPLACE.
ReopenGate(x) ==
    /\ gated[x]
    /\ shuffle[x] \notin {"none", "running"}
    /\ callbacks[x] < MaxCallbacks
    /\ callbacks' = [callbacks EXCEPT ![x] = @ + 1]
    /\ row' = [row EXCEPT ![x] = IF token THEN "PENDING" ELSE @]
    /\ UNCHANGED <<watching, shuffle, gated, token, request, accepted, faults>>

\* hitl_gate: 401 without a token.  With one the row is inserted once:
\* execution_id is UNIQUE, and another call of the same execution fails.
HitlGate(x) ==
    /\ gated[x]
    /\ shuffle[x] \notin {"none", "running"}
    /\ callbacks[x] < MaxCallbacks
    /\ callbacks' = [callbacks EXCEPT ![x] = @ + 1]
    /\ row' = [row EXCEPT ![x] = IF token /\ @ = "none" THEN "PENDING" ELSE @]
    /\ UNCHANGED <<watching, shuffle, gated, token, request, accepted, faults>>

\* A mutation of FindPending: any request for the execution will do.
SkipPending(q) ==
    /\ request[q].state = "idle"
    /\ shuffle[request[q].execution] # "none"
    /\ Answer(q, "pending")
    /\ UNCHANGED <<watching, workflow, row, accepted, faults>>

\* The SELECT of hitl_approve and hitl_reject.
FindPending(q) ==
    /\ request[q].state = "idle"
    /\ shuffle[request[q].execution] # "none"
    /\ Answer(q, IF row[request[q].execution] = "PENDING" THEN "pending" ELSE "404")
    /\ UNCHANGED <<watching, workflow, row, accepted, faults>>

\* Their call of Shuffle, which answers 2xx.  Approving an execution that is
\* no longer paused is answered all the same.
CallShuffle(q) ==
    LET x == request[q].execution
        k == request[q].kind
    IN
    /\ request[q].state = "pending"
    /\ shuffle' = [shuffle EXCEPT ![x] = IF k = "approve" THEN Continued(@) ELSE Aborted(@)]
    /\ accepted' = [accepted EXCEPT ![x] = @ \cup {k}]
    /\ Answer(q, "accepted")
    /\ UNCHANGED <<watching, gated, token, callbacks, row, faults>>

\* Shuffle refuses: 502, and the row stays as it is.
CallRefused(q) ==
    /\ request[q].state = "pending"
    /\ Fault
    /\ Answer(q, "502")
    /\ UNCHANGED <<watching, workflow, row, accepted>>

\* The answer of Shuffle is lost, or the API dies: the call may have worked.
CallLost(q) ==
    LET x == request[q].execution
        k == request[q].kind
    IN
    /\ request[q].state \in {"pending", "accepted"}
    /\ Fault
    /\ \/ UNCHANGED shuffle
       \/ /\ request[q].state = "pending"
          /\ shuffle' = [shuffle EXCEPT ![x] = IF k = "approve" THEN Continued(@) ELSE Aborted(@)]
    /\ Answer(q, "dead")
    /\ UNCHANGED <<watching, gated, token, callbacks, row, accepted>>

\* A mutation of StatusOf: the route's verb is written.
VerbOf(kind) == kind

\* The status the UPDATE of each route writes.
StatusOf(kind) == IF kind = "approve" THEN "APPROVED" ELSE "REJECTED"

\* A mutation of UpdateRow: the statuses of the two routes are swapped.
UpdateSwapped(q) ==
    /\ request[q].state = "accepted"
    /\ row' = [row EXCEPT ![request[q].execution] =
          IF request[q].kind = "approve" THEN "REJECTED" ELSE "APPROVED"]
    /\ Answer(q, "answered")
    /\ UNCHANGED <<watching, workflow, accepted, faults>>

\* The UPDATE, whatever the row has become since the SELECT.
UpdateRow(q) ==
    /\ request[q].state = "accepted"
    /\ row' = [row EXCEPT ![request[q].execution] = StatusOf(request[q].kind)]
    /\ Answer(q, "answered")
    /\ UNCHANGED <<watching, workflow, accepted, faults>>

-----------------------------------------------------------------------------

\* The steps the event loop owes an execution once it is approved.
AgentStep(x) ==
    \/ Trigger(x)
    \/ AnnounceStart(x)
    \/ ReportError(x)
    \/ Poll(x)
    \/ Sleep(x)
    \/ ReportTimeout(x)
    \/ ReportCompletion(x)

AgentFault(x) == TriggerFails(x) \/ PollRefused(x) \/ WatcherLost(x)

ShuffleStep(x) == ReachGate(x) \/ HitlGate(x) \/ NotifyPipeline(x) \/ EndWorkflow(x)

HandlerStep(q) == CallShuffle(q) \/ UpdateRow(q)

HandlerFault(q) == CallRefused(q) \/ CallLost(q)

Next ==
    \/ \E x \in Executions : AgentStep(x) \/ AgentFault(x) \/ ShuffleStep(x)
    \/ \E q \in Requests : FindPending(q) \/ HandlerStep(q) \/ HandlerFault(q)

Spec == Init /\ [][Next]_vars

\* The event loops of the orchestrator and of the API.  Nothing is assumed of
\* Shuffle's progress or of the analysts'.
FairSpec ==
    /\ Spec
    /\ \A x \in Executions : WF_vars(AgentStep(x))
    /\ \A q \in Requests : WF_vars(HandlerStep(q))

-----------------------------------------------------------------------------
(* Properties.                                                             *)

\* A decision in soar_hitl_requests is one Shuffle has answered, and a
\* rejected execution is over: the routes call Shuffle before they UPDATE,
\* also when two analysts decide at once.
RowFollowsShuffle ==
    \A x \in Executions :
        /\ row[x] = "APPROVED" => "approve" \in accepted[x]
        /\ row[x] = "REJECTED" => "reject" \in accepted[x] /\ shuffle[x] \in Terminal

\* A gated execution goes on or is aborted only after its gate was recorded
\* for the analysts: no call reaches Shuffle without the row.
GateOnRecord ==
    \A x \in Executions :
        (gated[x] /\ shuffle[x] \in {"continued", "notified"}) \/ accepted[x] # {} => row[x] # "none"

\* A decided gate is not reopened, however often Shuffle calls hitl-gate.
DecisionIsFinal ==
    [][\A x \in Executions :
          row[x] \in {"APPROVED", "REJECTED"} => row'[x] \in {"APPROVED", "REJECTED"}]_vars

Reports == {"execution_error", "execution_timeout", "SOAR_EXECUTION_COMPLETE"}

\* An execution is reported once by its agent, by an error, a timeout or its
\* end, whatever the analysts, Shuffle and the callback do meanwhile; and the
\* watcher's report of an end or a timeout follows the announcement of the
\* start: the watcher is created after that send.
ReportedOnce ==
    \A x \in Executions :
        LET reports == {i \in DOMAIN events[x] : events[x][i] \in Reports}
        IN
        /\ Cardinality(reports) <= 1
        /\ \A i \in reports : events[x][i] # "execution_error" =>
               \E j \in 1 .. i - 1 : events[x][j] = "execution_started"

\* The status an end is reported with is the execution's last one: a paused
\* or continued execution is not over, and a late rejection changes nothing.
FinalIsFinal ==
    \A x \in Executions : final[x] # "none" => shuffle[x] = final[x]

\* A watcher ends: by its timeout if Shuffle stays silent at the gate.
WatchEnds ==
    \A x \in Executions : agent[x] = "started" ~> agent[x] \in {"ended", "lost"}

-----------------------------------------------------------------------------
(* What the documentation says, and the code does not do.                  *)

\* The watcher gives up only on an execution that has not reached a terminal
\* state by then (services/shuffle_client.py, the docstring of wait).
TimeoutMeansUnfinished ==
    [][\A x \in Executions :
          agent[x] = "sleeping" /\ agent'[x] = "overdue" => shuffle[x] \notin Terminal]_vars

=============================================================================
