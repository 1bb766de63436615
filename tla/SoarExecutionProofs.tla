------------------------ MODULE SoarExecutionProofs ------------------------
(***************************************************************************)
(* Safety of SoarExecution for any executions, requests and limits.  The   *)
(* routes and the watcher share nothing but Shuffle, so the invariant ties *)
(* each of them to Shuffle: what a handler under way already knows of its  *)
(* row and of Shuffle's answer, and what the watcher has published so far. *)
(***************************************************************************)
EXTENDS SoarExecution, FiniteSetTheorems, TLAPS

\* Nothing has happened to an execution that Shuffle does not know.
UnknownInv(x) ==
    /\ agent[x] = "approved" => shuffle[x] = "none"
    /\ shuffle[x] = "none" => row[x] = "none" /\ accepted[x] = {}

\* The row of an execution, and what Shuffle was told of it.
RowInv(x) ==
    /\ row[x] = "APPROVED" => "approve" \in accepted[x]
    /\ row[x] = "REJECTED" => "reject" \in accepted[x]
    /\ "reject" \in accepted[x] => shuffle[x] \in Terminal
    /\ accepted[x] # {} => row[x] # "none"
    /\ gated[x] /\ shuffle[x] \in {"continued", "notified"} => row[x] # "none"

\* A handler past its SELECT has found a row; past its call, Shuffle's answer.
RequestInv(q) ==
    LET x == request[q].execution
    IN /\ request[q].state \in {"pending", "accepted"} => row[x] # "none"
       /\ request[q].state = "accepted" => request[q].kind \in accepted[x]

\* Where the reports of an execution are among its events.
ReportsOf(x) == {i \in DOMAIN events[x] : events[x][i] \in Reports}

Started(x) == \E j \in DOMAIN events[x] : events[x][j] = "execution_started"

\* The watcher exists.
AfterStart == {"polling", "sleeping", "overdue", "finished"}

\* What the agent has published by the time it is where it is.
EventsInv(x) ==
    /\ agent[x] # "ended" => ReportsOf(x) = {}
    /\ agent[x] \in AfterStart => Started(x)
    /\ \A i, j \in ReportsOf(x) : i = j
    /\ \A i \in ReportsOf(x) : events[x][i] # "execution_error" =>
           \E j \in 1 .. i - 1 : events[x][j] = "execution_started"

\* The status the watcher has seen.
FinalInv(x) == final[x] # "none" => final[x] \in Terminal /\ shuffle[x] = final[x]

ExecutionInv(x) == UnknownInv(x) /\ RowInv(x) /\ EventsInv(x) /\ FinalInv(x)

IInv ==
    /\ TypeOK
    /\ \A x \in Executions : ExecutionInv(x)
    /\ \A q \in Requests : RequestInv(q)

-----------------------------------------------------------------------------

\* No execution is triggered and no analyst has called yet.
LEMMA InitIInv == Init => IInv
<1> SUFFICES ASSUME Init PROVE IInv
  OBVIOUS
<1> USE SoarAssumption
<1>1. TypeOK
  BY DEF Init, TypeOK, Statuses, AgentStates, Events, RowStates, RequestStates, Kinds
<1>2. \A x \in Executions : ExecutionInv(x)
  BY DEF Init, ExecutionInv, UnknownInv, RowInv, EventsInv, FinalInv, ReportsOf, AfterStart, Terminal
<1>3. \A q \in Requests : RequestInv(q)
  BY DEF Init, RequestInv
<1>4. QED
  BY <1>1, <1>2, <1>3 DEF IInv

-----------------------------------------------------------------------------
(* What does not touch an execution or a request keeps what is known of it. *)

SameExecution(x) ==
    /\ shuffle'[x] = shuffle[x] /\ gated'[x] = gated[x]
    /\ agent'[x] = agent[x] /\ events'[x] = events[x] /\ final'[x] = final[x]
    /\ row'[x] = row[x] /\ accepted'[x] = accepted[x]

\* Executions share nothing.
LEMMA SameExecutionInv ==
    ASSUME NEW x \in Executions, ExecutionInv(x), SameExecution(x)
    PROVE  ExecutionInv(x)'
  BY DEF SameExecution, ExecutionInv, UnknownInv, RowInv, EventsInv, FinalInv, ReportsOf, Started

\* A step of the orchestrator or of Shuffle leaves the handlers as they are.
LEMMA SameGateInv ==
    ASSUME \A q \in Requests : RequestInv(q), UNCHANGED gate
    PROVE  \A q \in Requests : RequestInv(q)'
  BY DEF RequestInv, gate

\* An event is appended to those of its execution (KafkaProducerClient.send).
LEMMA PublishedEvents ==
    ASSUME NEW x \in Executions, NEW e \in Events, Publish(x, e),
           events \in [Executions -> Seq(Events)]
    PROVE  /\ events' \in [Executions -> Seq(Events)]
           /\ \A y \in Executions \ {x} : events'[y] = events[y]
           /\ DOMAIN events[x] = 1 .. Len(events[x])
           /\ DOMAIN events'[x] = 1 .. Len(events[x]) + 1
           /\ Len(events[x]) \in Nat
           /\ events'[x][Len(events[x]) + 1] = e
           /\ \A i \in DOMAIN events[x] : events'[x][i] = events[x][i]
<1>1. events[x] \in Seq(Events)
  OBVIOUS
<1>2. Append(events[x], e) \in Seq(Events)
  BY <1>1
<1>3. events' = [events EXCEPT ![x] = Append(events[x], e)]
  BY DEF Publish
<1>4. events'[x] = Append(events[x], e)
  BY <1>3
<1>5. QED
  BY <1>1, <1>2, <1>3, <1>4

\* An agent that publishes nothing keeps EventsInv, if it neither ends nor
\* passes the announcement.
LEMMA QuietAgent ==
    ASSUME NEW x \in Executions, EventsInv(x), events'[x] = events[x],
           agent[x] # "ended", agent'[x] \in AfterStart => agent[x] \in AfterStart
    PROVE  EventsInv(x)'
  BY DEF EventsInv, ReportsOf, Started, AfterStart

\* A further event that is no report changes nothing of what EventsInv says, as
\* long as the agent's state asks for nothing new.
LEMMA OtherEvent ==
    ASSUME NEW x \in Executions, NEW e \in Events \ Reports, Publish(x, e),
           events \in [Executions -> Seq(Events)], EventsInv(x)
    PROVE  /\ ReportsOf(x)' = ReportsOf(x)
           /\ Started(x) \/ e = "execution_started" => Started(x)'
           /\ \A i, j \in ReportsOf(x)' : i = j
           /\ \A i \in ReportsOf(x)' : events'[x][i] # "execution_error" =>
                  \E j \in 1 .. i - 1 : events'[x][j] = "execution_started"
<1> DEFINE n == Len(events[x])
<1>1. /\ DOMAIN events[x] = 1 .. n /\ DOMAIN events'[x] = 1 .. n + 1 /\ n \in Nat
      /\ events'[x][n + 1] = e
      /\ \A i \in DOMAIN events[x] : events'[x][i] = events[x][i]
  BY PublishedEvents
<1> HIDE DEF n
<1>2. ReportsOf(x)' = ReportsOf(x)
  BY <1>1 DEF ReportsOf
<1>3. Started(x) \/ e = "execution_started" => Started(x)'
  BY <1>1 DEF Started
<1>4. ASSUME NEW i \in ReportsOf(x)', events'[x][i] # "execution_error"
      PROVE  \E j \in 1 .. i - 1 : events'[x][j] = "execution_started"
  <2>1. i \in ReportsOf(x) /\ i \in 1 .. n /\ events[x][i] # "execution_error"
    BY <1>1, <1>2, <1>4 DEF ReportsOf
  <2>2. PICK j \in 1 .. i - 1 : events[x][j] = "execution_started"
    BY <2>1 DEF EventsInv
  <2>3. QED
    BY <1>1, <2>1, <2>2
<1>5. QED
  BY <1>2, <1>3, <1>4 DEF EventsInv

\* The first report is the only one, and comes after the announcement.
LEMMA FirstReport ==
    ASSUME NEW x \in Executions, NEW e \in Reports, Publish(x, e),
           events \in [Executions -> Seq(Events)],
           ReportsOf(x) = {}, e # "execution_error" => Started(x)
    PROVE  /\ \A i, j \in ReportsOf(x)' : i = j
           /\ \A i \in ReportsOf(x)' : events'[x][i] # "execution_error" =>
                  \E j \in 1 .. i - 1 : events'[x][j] = "execution_started"
<1> DEFINE n == Len(events[x])
<1>1. /\ DOMAIN events[x] = 1 .. n /\ DOMAIN events'[x] = 1 .. n + 1 /\ n \in Nat
      /\ events'[x][n + 1] = e
      /\ \A i \in DOMAIN events[x] : events'[x][i] = events[x][i]
  BY PublishedEvents DEF Reports, Events
<1> HIDE DEF n
<1>2. ReportsOf(x)' = {n + 1}
  BY <1>1 DEF ReportsOf
<1>3. QED
  BY <1>1, <1>2 DEF Started

-----------------------------------------------------------------------------
(* The orchestrator's steps. *)

\* trigger: an execution Shuffle did not know runs.
LEMMA TriggerStep == ASSUME IInv, NEW x \in Executions, Trigger(x) PROVE IInv'
<1> USE DEF Trigger, watching, workflow, gate, Goto, Fault
<1>1. TypeOK'
  BY SoarAssumption DEF IInv, TypeOK, AgentStates, Statuses, Terminal
<1>2. ExecutionInv(x)'
  <2>1. EventsInv(x)'
    BY QuietAgent DEF IInv, TypeOK, ExecutionInv, AfterStart
  <2>2. (UnknownInv(x) /\ RowInv(x) /\ FinalInv(x))'
    BY DEF IInv, TypeOK, ExecutionInv, UnknownInv, RowInv, FinalInv, Terminal
  <2>3. QED
    BY <2>1, <2>2 DEF ExecutionInv
<1>3. \A y \in Executions \ {x} : ExecutionInv(y)'
  BY SameExecutionInv DEF IInv, TypeOK, SameExecution
<1>4. \A q \in Requests : RequestInv(q)'
  BY SameGateInv DEF IInv
<1>5. QED
  BY <1>1, <1>2, <1>3, <1>4 DEF IInv

\* trigger raises, whatever Shuffle did.
LEMMA TriggerFailsStep == ASSUME IInv, NEW x \in Executions, TriggerFails(x) PROVE IInv'
<1> USE DEF TriggerFails, watching, workflow, gate, Goto, Fault
<1>1. TypeOK'
  BY SoarAssumption DEF IInv, TypeOK, AgentStates, Statuses, Terminal
<1>2. ExecutionInv(x)'
  <2>1. EventsInv(x)'
    BY QuietAgent DEF IInv, TypeOK, ExecutionInv, AfterStart
  <2>2. (UnknownInv(x) /\ RowInv(x) /\ FinalInv(x))'
    BY DEF IInv, TypeOK, ExecutionInv, UnknownInv, RowInv, FinalInv, Terminal
  <2>3. QED
    BY <2>1, <2>2 DEF ExecutionInv
<1>3. \A y \in Executions \ {x} : ExecutionInv(y)'
  BY SameExecutionInv DEF IInv, TypeOK, SameExecution
<1>4. \A q \in Requests : RequestInv(q)'
  BY SameGateInv DEF IInv
<1>5. QED
  BY <1>1, <1>2, <1>3, <1>4 DEF IInv

\* get_status: the watcher takes a terminal status over, or sleeps.
LEMMA PollStep == ASSUME IInv, NEW x \in Executions, Poll(x) PROVE IInv'
<1> USE DEF Poll, watching, workflow, gate, Goto, Fault
<1>1. TypeOK'
  BY SoarAssumption DEF IInv, TypeOK, AgentStates, Statuses, Terminal
<1>2. ExecutionInv(x)'
  <2>1. EventsInv(x)'
    BY QuietAgent DEF IInv, TypeOK, ExecutionInv, AfterStart
  <2>2. (UnknownInv(x) /\ RowInv(x) /\ FinalInv(x))'
    BY DEF IInv, TypeOK, ExecutionInv, UnknownInv, RowInv, FinalInv, Terminal
  <2>3. QED
    BY <2>1, <2>2 DEF ExecutionInv
<1>3. \A y \in Executions \ {x} : ExecutionInv(y)'
  BY SameExecutionInv DEF IInv, TypeOK, SameExecution
<1>4. \A q \in Requests : RequestInv(q)'
  BY SameGateInv DEF IInv
<1>5. QED
  BY <1>1, <1>2, <1>3, <1>4 DEF IInv

\* get_status raises: the watcher has not reported yet.
LEMMA PollRefusedStep == ASSUME IInv, NEW x \in Executions, PollRefused(x) PROVE IInv'
<1> USE DEF PollRefused, watching, workflow, gate, Goto, Fault
<1>1. TypeOK'
  BY SoarAssumption DEF IInv, TypeOK, AgentStates, Statuses, Terminal
<1>2. ExecutionInv(x)'
  <2>1. EventsInv(x)'
    BY QuietAgent DEF IInv, TypeOK, ExecutionInv, AfterStart
  <2>2. (UnknownInv(x) /\ RowInv(x) /\ FinalInv(x))'
    BY DEF IInv, TypeOK, ExecutionInv, UnknownInv, RowInv, FinalInv, Terminal
  <2>3. QED
    BY <2>1, <2>2 DEF ExecutionInv
<1>3. \A y \in Executions \ {x} : ExecutionInv(y)'
  BY SameExecutionInv DEF IInv, TypeOK, SameExecution
<1>4. \A q \in Requests : RequestInv(q)'
  BY SameGateInv DEF IInv
<1>5. QED
  BY <1>1, <1>2, <1>3, <1>4 DEF IInv

\* The sleep of wait is over: the clock of the watcher is no part of the invariant.
LEMMA SleepStep == ASSUME IInv, NEW x \in Executions, Sleep(x) PROVE IInv'
<1> USE DEF Sleep, watching, workflow, gate, Goto, Fault
<1>1. TypeOK'
  BY SoarAssumption DEF IInv, TypeOK, AgentStates, Statuses, Terminal
<1>2. ExecutionInv(x)'
  <2>1. EventsInv(x)'
    BY QuietAgent DEF IInv, TypeOK, ExecutionInv, AfterStart
  <2>2. (UnknownInv(x) /\ RowInv(x) /\ FinalInv(x))'
    BY DEF IInv, TypeOK, ExecutionInv, UnknownInv, RowInv, FinalInv, Terminal
  <2>3. QED
    BY <2>1, <2>2 DEF ExecutionInv
<1>3. \A y \in Executions \ {x} : ExecutionInv(y)'
  BY SameExecutionInv DEF IInv, TypeOK, SameExecution
<1>4. \A q \in Requests : RequestInv(q)'
  BY SameGateInv DEF IInv
<1>5. QED
  BY <1>1, <1>2, <1>3, <1>4 DEF IInv

\* The watcher is lost, and reports nothing any more.
LEMMA WatcherLostStep == ASSUME IInv, NEW x \in Executions, WatcherLost(x) PROVE IInv'
<1> USE DEF WatcherLost, watching, workflow, gate, Goto, Fault
<1>1. TypeOK'
  BY SoarAssumption DEF IInv, TypeOK, AgentStates, Statuses, Terminal
<1>2. ExecutionInv(x)'
  <2>1. EventsInv(x)'
    BY QuietAgent DEF IInv, TypeOK, ExecutionInv, AfterStart
  <2>2. (UnknownInv(x) /\ RowInv(x) /\ FinalInv(x))'
    BY DEF IInv, TypeOK, ExecutionInv, UnknownInv, RowInv, FinalInv, Terminal
  <2>3. QED
    BY <2>1, <2>2 DEF ExecutionInv
<1>3. \A y \in Executions \ {x} : ExecutionInv(y)'
  BY SameExecutionInv DEF IInv, TypeOK, SameExecution
<1>4. \A q \in Requests : RequestInv(q)'
  BY SameGateInv DEF IInv
<1>5. QED
  BY <1>1, <1>2, <1>3, <1>4 DEF IInv

\* The start is announced before the watcher can report anything.
LEMMA AnnounceStartStep == ASSUME IInv, NEW x \in Executions, AnnounceStart(x) PROVE IInv'
<1> USE DEF AnnounceStart, watching, workflow, gate, Goto, Fault
<1>1. "execution_started" \in Events
  BY DEF Events
<1>2. TypeOK' /\ \A y \in Executions \ {x} : events'[y] = events[y]
  BY <1>1, PublishedEvents DEF IInv, TypeOK, AgentStates
<1>3. ExecutionInv(x)'
  <2>1. "execution_started" \in Events \ Reports /\ EventsInv(x)
    BY DEF IInv, ExecutionInv, Events, Reports
  <2>2. EventsInv(x)'
    BY <2>1, OtherEvent DEF IInv, TypeOK, EventsInv, AfterStart
  <2>3. QED
    BY <2>2 DEF IInv, TypeOK, ExecutionInv, UnknownInv, RowInv, FinalInv
<1>4. \A y \in Executions \ {x} : ExecutionInv(y)'
  BY <1>2, SameExecutionInv DEF IInv, TypeOK, SameExecution
<1>5. \A q \in Requests : RequestInv(q)'
  BY SameGateInv DEF IInv
<1>6. QED
  BY <1>2, <1>3, <1>4, <1>5 DEF IInv

\* A failed trigger or poll is the first report.
LEMMA ReportErrorStep == ASSUME IInv, NEW x \in Executions, ReportError(x) PROVE IInv'
<1> USE DEF ReportError, watching, workflow, gate, Goto, Fault
<1>1. "execution_error" \in Events
  BY DEF Events
<1>2. TypeOK' /\ \A y \in Executions \ {x} : events'[y] = events[y]
  BY <1>1, PublishedEvents DEF IInv, TypeOK, AgentStates
<1>3. ExecutionInv(x)'
  <2>1. ReportsOf(x) = {} /\ ("execution_error" # "execution_error" => Started(x))
    BY DEF IInv, ExecutionInv, EventsInv, AfterStart
  <2>2. EventsInv(x)'
    BY <1>1, <2>1, FirstReport DEF IInv, TypeOK, EventsInv, AfterStart, Reports
  <2>3. QED
    BY <2>2 DEF IInv, TypeOK, ExecutionInv, UnknownInv, RowInv, FinalInv
<1>4. \A y \in Executions \ {x} : ExecutionInv(y)'
  BY <1>2, SameExecutionInv DEF IInv, TypeOK, SameExecution
<1>5. \A q \in Requests : RequestInv(q)'
  BY SameGateInv DEF IInv
<1>6. QED
  BY <1>2, <1>3, <1>4, <1>5 DEF IInv

\* A timeout is the first report, and follows the announcement.
LEMMA ReportTimeoutStep == ASSUME IInv, NEW x \in Executions, ReportTimeout(x) PROVE IInv'
<1> USE DEF ReportTimeout, watching, workflow, gate, Goto, Fault
<1>1. "execution_timeout" \in Events
  BY DEF Events
<1>2. TypeOK' /\ \A y \in Executions \ {x} : events'[y] = events[y]
  BY <1>1, PublishedEvents DEF IInv, TypeOK, AgentStates
<1>3. ExecutionInv(x)'
  <2>1. ReportsOf(x) = {} /\ ("execution_timeout" # "execution_error" => Started(x))
    BY DEF IInv, ExecutionInv, EventsInv, AfterStart
  <2>2. EventsInv(x)'
    BY <1>1, <2>1, FirstReport DEF IInv, TypeOK, EventsInv, AfterStart, Reports
  <2>3. QED
    BY <2>2 DEF IInv, TypeOK, ExecutionInv, UnknownInv, RowInv, FinalInv
<1>4. \A y \in Executions \ {x} : ExecutionInv(y)'
  BY <1>2, SameExecutionInv DEF IInv, TypeOK, SameExecution
<1>5. \A q \in Requests : RequestInv(q)'
  BY SameGateInv DEF IInv
<1>6. QED
  BY <1>2, <1>3, <1>4, <1>5 DEF IInv

\* So is the end.
LEMMA ReportCompletionStep == ASSUME IInv, NEW x \in Executions, ReportCompletion(x) PROVE IInv'
<1> USE DEF ReportCompletion, watching, workflow, gate, Goto, Fault
<1>1. "SOAR_EXECUTION_COMPLETE" \in Events
  BY DEF Events
<1>2. TypeOK' /\ \A y \in Executions \ {x} : events'[y] = events[y]
  BY <1>1, PublishedEvents DEF IInv, TypeOK, AgentStates
<1>3. ExecutionInv(x)'
  <2>1. ReportsOf(x) = {} /\ ("SOAR_EXECUTION_COMPLETE" # "execution_error" => Started(x))
    BY DEF IInv, ExecutionInv, EventsInv, AfterStart
  <2>2. EventsInv(x)'
    BY <1>1, <2>1, FirstReport DEF IInv, TypeOK, EventsInv, AfterStart, Reports
  <2>3. QED
    BY <2>2 DEF IInv, TypeOK, ExecutionInv, UnknownInv, RowInv, FinalInv
<1>4. \A y \in Executions \ {x} : ExecutionInv(y)'
  BY <1>2, SameExecutionInv DEF IInv, TypeOK, SameExecution
<1>5. \A q \in Requests : RequestInv(q)'
  BY SameGateInv DEF IInv
<1>6. QED
  BY <1>2, <1>3, <1>4, <1>5 DEF IInv

-----------------------------------------------------------------------------
(* Shuffle's steps. *)

\* A gated workflow comes to its gate.
LEMMA ReachGateStep == ASSUME IInv, NEW x \in Executions, ReachGate(x) PROVE IInv'
<1> USE DEF ReachGate, watching, gate
<1>1. TypeOK'
  BY DEF IInv, TypeOK, Statuses
<1>2. ExecutionInv(x)'
  <2>1. EventsInv(x)'
    BY DEF IInv, ExecutionInv, EventsInv, ReportsOf, Started
  <2>2. (UnknownInv(x) /\ RowInv(x) /\ FinalInv(x))'
    BY DEF IInv, TypeOK, ExecutionInv, UnknownInv, RowInv, FinalInv, Terminal
  <2>3. QED
    BY <2>1, <2>2 DEF ExecutionInv
<1>3. \A y \in Executions \ {x} : ExecutionInv(y)'
  BY SameExecutionInv DEF IInv, TypeOK, SameExecution
<1>4. \A q \in Requests : RequestInv(q)'
  BY SameGateInv DEF IInv
<1>5. QED
  BY <1>1, <1>2, <1>3, <1>4 DEF IInv

\* A workflow ends: the status becomes terminal from one that is not.
LEMMA EndWorkflowStep == ASSUME IInv, NEW x \in Executions, EndWorkflow(x) PROVE IInv'
<1> USE DEF EndWorkflow, Acted, watching, gate
<1>1. TypeOK'
  BY DEF IInv, TypeOK, Statuses, Terminal
<1>2. ExecutionInv(x)'
  <2>1. EventsInv(x)'
    BY DEF IInv, ExecutionInv, EventsInv, ReportsOf, Started
  <2>2. (UnknownInv(x) /\ RowInv(x) /\ FinalInv(x))'
    BY DEF IInv, TypeOK, ExecutionInv, UnknownInv, RowInv, FinalInv, Terminal
  <2>3. QED
    BY <2>1, <2>2 DEF ExecutionInv
<1>3. \A y \in Executions \ {x} : ExecutionInv(y)'
  BY SameExecutionInv DEF IInv, TypeOK, SameExecution
<1>4. \A q \in Requests : RequestInv(q)'
  BY SameGateInv DEF IInv
<1>5. QED
  BY <1>1, <1>2, <1>3, <1>4 DEF IInv

\* execution_result: the workflow's own event is no report of the agent's.
LEMMA NotifyPipelineStep == ASSUME IInv, NEW x \in Executions, NotifyPipeline(x) PROVE IInv'
<1> USE DEF NotifyPipeline, Acted, gate
<1>1. "execution_complete" \in Events \ Reports
  BY DEF Events, Reports
<1>2. TypeOK' /\ \A y \in Executions \ {x} : events'[y] = events[y]
  <2>1. /\ events' \in [Executions -> Seq(Events)]
        /\ \A y \in Executions \ {x} : events'[y] = events[y]
    BY <1>1, PublishedEvents DEF IInv, TypeOK
  <2>2. QED
    BY <2>1 DEF IInv, TypeOK, Statuses
<1>3. ExecutionInv(x)'
  <2>1. EventsInv(x)'
    <3>1. CASE token
      <4>1. EventsInv(x) /\ Publish(x, "execution_complete")
        BY <3>1 DEF IInv, ExecutionInv
      <4>2. QED
        BY <1>1, <4>1, OtherEvent DEF IInv, TypeOK, EventsInv, AfterStart
    <3>2. CASE ~token
      BY <3>2 DEF IInv, ExecutionInv, EventsInv, ReportsOf, Started
    <3>3. QED
      BY <3>1, <3>2
  <2>2. (UnknownInv(x) /\ RowInv(x) /\ FinalInv(x))'
    BY DEF IInv, TypeOK, ExecutionInv, UnknownInv, RowInv, FinalInv, Terminal
  <2>3. QED
    BY <2>1, <2>2 DEF ExecutionInv
<1>4. \A y \in Executions \ {x} : ExecutionInv(y)'
  BY <1>2, SameExecutionInv DEF IInv, TypeOK, SameExecution
<1>5. \A q \in Requests : RequestInv(q)'
  BY SameGateInv DEF IInv
<1>6. QED
  BY <1>2, <1>3, <1>4, <1>5 DEF IInv

\* hitl_gate inserts a row where there is none, and leaves one that is there.
LEMMA HitlGateStep == ASSUME IInv, NEW x \in Executions, HitlGate(x) PROVE IInv'
<1> USE DEF HitlGate, watching
<1>1. TypeOK'
  BY SoarAssumption DEF IInv, TypeOK, RowStates
<1>2. ExecutionInv(x)'
  <2>1. EventsInv(x)'
    BY DEF IInv, ExecutionInv, EventsInv, ReportsOf, Started
  <2>2. (UnknownInv(x) /\ RowInv(x) /\ FinalInv(x))'
    BY DEF IInv, TypeOK, ExecutionInv, UnknownInv, RowInv, FinalInv, Terminal
  <2>3. QED
    BY <2>1, <2>2 DEF ExecutionInv
<1>3. \A y \in Executions \ {x} : ExecutionInv(y)'
  BY SameExecutionInv DEF IInv, TypeOK, SameExecution
<1>4. \A q \in Requests : RequestInv(q)'
  BY DEF IInv, TypeOK, RequestInv
<1>5. QED
  BY <1>1, <1>2, <1>3, <1>4 DEF IInv

-----------------------------------------------------------------------------
(* The routes. *)

RequestType == [Requests -> [state : RequestStates, kind : Kinds, execution : Executions]]

\* Answering a request changes its state, and no other request.
LEMMA AnsweredRequest ==
    ASSUME NEW q \in Requests, NEW st \in RequestStates, Answer(q, st), request \in RequestType
    PROVE  /\ request' \in RequestType
           /\ \A p \in Requests : /\ request'[p].kind = request[p].kind
                                  /\ request'[p].execution = request[p].execution
           /\ \A p \in Requests \ {q} : request'[p] = request[p]
           /\ request'[q].state = st
<1>1. request[q] \in [state : RequestStates, kind : Kinds, execution : Executions]
  BY DEF RequestType
<1>2. [request[q] EXCEPT !.state = st] \in [state : RequestStates, kind : Kinds, execution : Executions]
  BY <1>1
<1>3. request' = [request EXCEPT ![q] = [request[q] EXCEPT !.state = st]]
  BY DEF Answer
<1>4. QED
  BY <1>1, <1>2, <1>3 DEF RequestType

\* The SELECT: a handler goes on only with a row.
LEMMA FindPendingStep == ASSUME IInv, NEW q \in Requests, FindPending(q) PROVE IInv'
<1> DEFINE x == request[q].execution
<1> USE DEF FindPending, watching, workflow
<1>1. PICK st \in {"pending", "404"} :
        Answer(q, st) /\ (st = "pending" => row[x] = "PENDING")
  OBVIOUS
<1>2. request \in RequestType /\ st \in RequestStates
  BY DEF IInv, TypeOK, RequestType, RequestStates
<1>3. /\ request' \in RequestType /\ request'[q].state = st /\ request'[q].execution = x
      /\ \A p \in Requests \ {q} : request'[p] = request[p]
  BY <1>1, <1>2, AnsweredRequest
<1>4. TypeOK'
  BY <1>3 DEF IInv, TypeOK, RequestType
<1>5. \A y \in Executions : ExecutionInv(y)'
  BY SameExecutionInv DEF IInv, SameExecution
<1>6. \A p \in Requests : RequestInv(p)'
  BY <1>1, <1>3 DEF IInv, RequestInv
<1>7. QED
  BY <1>4, <1>5, <1>6 DEF IInv

\* What a continue or a delete leaves of a status.
LEMMA CalledStatus ==
    \A s \in Statuses \ {"none"} :
        /\ Continued(s) \in Statuses \ {"none"} /\ Aborted(s) \in Terminal
        /\ s \in Terminal => Continued(s) = s /\ Aborted(s) = s
        /\ Continued(s) = "notified" => s = "notified"
  BY DEF Continued, Aborted, Statuses, Terminal

\* A call of Shuffle about an execution that has a row: its status goes on or
\* becomes terminal, and a terminal one stays as it is.
LEMMA CalledExecution ==
    ASSUME IInv, NEW x \in Executions, NEW k \in Kinds, row[x] # "none",
           shuffle' = [shuffle EXCEPT ![x] = IF k = "approve" THEN Continued(@) ELSE Aborted(@)],
           accepted' \in {accepted, [accepted EXCEPT ![x] = @ \cup {k}]},
           UNCHANGED <<watching, gated, row>>
    PROVE  /\ shuffle' \in [Executions -> Statuses]
           /\ accepted' \in [Executions -> SUBSET Kinds]
           /\ \A y \in Executions : ExecutionInv(y)'
<1> USE DEF watching
<1>1. shuffle[x] \in Statuses \ {"none"}
  BY DEF IInv, TypeOK, ExecutionInv, UnknownInv
<1>2. /\ shuffle'[x] \in Statuses \ {"none"}
      /\ shuffle[x] \in Terminal => shuffle'[x] = shuffle[x]
      /\ k = "reject" => shuffle'[x] \in Terminal
  BY <1>1, CalledStatus DEF IInv, TypeOK, Kinds, Statuses, Terminal
<1>3. /\ accepted[x] \subseteq accepted'[x] /\ accepted'[x] \subseteq accepted[x] \cup {k}
      /\ accepted' \in [Executions -> SUBSET Kinds]
  <2>1. CASE accepted' = accepted
    BY <2>1 DEF IInv, TypeOK
  <2>2. CASE accepted' = [accepted EXCEPT ![x] = @ \cup {k}]
    <3>1. accepted[x] \cup {k} \in SUBSET Kinds
      BY DEF IInv, TypeOK
    <3>2. QED
      BY <2>2, <3>1 DEF IInv, TypeOK
  <2>3. QED
    BY <2>1, <2>2
<1>4. shuffle' \in [Executions -> Statuses]
  BY <1>2 DEF IInv, TypeOK
<1>5. ExecutionInv(x)'
  <2>1. EventsInv(x)'
    BY DEF IInv, ExecutionInv, EventsInv, ReportsOf, Started
  <2>2. UnknownInv(x)'
    BY <1>1, <1>2 DEF IInv, ExecutionInv, UnknownInv
  <2>3. RowInv(x)'
    BY <1>2, <1>3 DEF IInv, ExecutionInv, RowInv, Kinds
  <2>4. FinalInv(x)'
    BY <1>2 DEF IInv, ExecutionInv, FinalInv
  <2>5. QED
    BY <2>1, <2>2, <2>3, <2>4 DEF ExecutionInv
<1>6. \A y \in Executions \ {x} : ExecutionInv(y)'
  BY SameExecutionInv DEF IInv, TypeOK, SameExecution
<1>7. QED
  BY <1>3, <1>4, <1>5, <1>6

\* Shuffle answers: the handler knows it, and may update the row.
LEMMA CallShuffleStep == ASSUME IInv, NEW q \in Requests, CallShuffle(q) PROVE IInv'
<1> DEFINE x == request[q].execution
           k == request[q].kind
<1>1. request \in RequestType /\ x \in Executions /\ k \in Kinds /\ "accepted" \in RequestStates
  BY DEF IInv, TypeOK, RequestType, RequestStates
<1>2. /\ request' \in RequestType /\ request'[q].state = "accepted"
      /\ request'[q].execution = x /\ request'[q].kind = k
      /\ \A p \in Requests \ {q} : request'[p] = request[p]
  BY <1>1, AnsweredRequest DEF CallShuffle
<1>3. row[x] # "none"
  BY DEF IInv, RequestInv, CallShuffle
<1>4. /\ shuffle' \in [Executions -> Statuses] /\ accepted' \in [Executions -> SUBSET Kinds]
      /\ \A y \in Executions : ExecutionInv(y)'
  BY <1>1, <1>3, CalledExecution DEF CallShuffle
<1>5. TypeOK'
  BY <1>2, <1>4 DEF IInv, TypeOK, RequestType, CallShuffle, watching
<1>6. \A p \in Requests : RequestInv(p)'
  <2>1. k \in accepted'[x] /\ \A y \in Executions : accepted[y] \subseteq accepted'[y]
    BY <1>1 DEF IInv, TypeOK, CallShuffle
  <2>2. \A p \in Requests : request[p].execution \in Executions
    BY DEF IInv, TypeOK
  <2>3. QED
    BY <1>2, <1>3, <2>1, <2>2 DEF IInv, RequestInv, CallShuffle
<1>7. QED
  BY <1>4, <1>5, <1>6 DEF IInv

\* Shuffle refuses: nothing but the answer.
LEMMA CallRefusedStep == ASSUME IInv, NEW q \in Requests, CallRefused(q) PROVE IInv'
<1> USE DEF CallRefused, Fault, watching, workflow
<1>1. request \in RequestType /\ "502" \in RequestStates
  BY DEF IInv, TypeOK, RequestType, RequestStates
<1>2. /\ request' \in RequestType /\ request'[q].state = "502"
      /\ \A p \in Requests \ {q} : request'[p] = request[p]
  BY <1>1, AnsweredRequest
<1>3. TypeOK'
  BY <1>2, SoarAssumption DEF IInv, TypeOK, RequestType
<1>4. \A y \in Executions : ExecutionInv(y)'
  BY SameExecutionInv DEF IInv, SameExecution
<1>5. \A p \in Requests : RequestInv(p)'
  BY <1>2 DEF IInv, RequestInv
<1>6. QED
  BY <1>3, <1>4, <1>5 DEF IInv

\* The answer is lost, or the API dies: the call may have worked, and nobody
\* will update the row.
LEMMA CallLostStep == ASSUME IInv, NEW q \in Requests, CallLost(q) PROVE IInv'
<1> DEFINE x == request[q].execution
           k == request[q].kind
<1>1. request \in RequestType /\ x \in Executions /\ k \in Kinds /\ "dead" \in RequestStates
  BY DEF IInv, TypeOK, RequestType, RequestStates
<1>2. /\ request' \in RequestType /\ request'[q].state = "dead"
      /\ \A p \in Requests \ {q} : request'[p] = request[p]
  BY <1>1, AnsweredRequest DEF CallLost
<1>3. row[x] # "none"
  BY DEF IInv, RequestInv, CallLost
<1>4. shuffle' \in [Executions -> Statuses] /\ \A y \in Executions : ExecutionInv(y)'
  <2>1. CASE UNCHANGED shuffle
    BY <2>1, SameExecutionInv DEF IInv, TypeOK, SameExecution, CallLost, watching
  <2>2. CASE shuffle' = [shuffle EXCEPT ![x] = IF k = "approve" THEN Continued(@) ELSE Aborted(@)]
    BY <1>1, <1>3, <2>2, CalledExecution DEF CallLost
  <2>3. QED
    BY <2>1, <2>2 DEF CallLost
<1>5. TypeOK'
  BY <1>2, <1>4, SoarAssumption DEF IInv, TypeOK, RequestType, CallLost, Fault, watching
<1>6. \A p \in Requests : RequestInv(p)'
  BY <1>2 DEF IInv, RequestInv, CallLost
<1>7. QED
  BY <1>4, <1>5, <1>6 DEF IInv

\* The UPDATE: what it writes, Shuffle has answered.
LEMMA UpdateRowStep == ASSUME IInv, NEW q \in Requests, UpdateRow(q) PROVE IInv'
<1> USE DEF UpdateRow, watching, workflow
<1>1. request \in RequestType /\ "answered" \in RequestStates
  BY DEF IInv, TypeOK, RequestType, RequestStates
<1> PICK x \in Executions, k \in Kinds : x = request[q].execution /\ k = request[q].kind
  BY <1>1 DEF RequestType
<1>2. /\ request' \in RequestType /\ request'[q].state = "answered"
      /\ \A p \in Requests \ {q} : request'[p] = request[p]
  BY <1>1, AnsweredRequest
<1>3. k \in accepted[x] /\ row'[x] = StatusOf(k) /\ \A y \in Executions \ {x} : row'[y] = row[y]
  BY DEF IInv, TypeOK, RequestInv
<1>4. TypeOK'
  BY <1>2 DEF IInv, TypeOK, RequestType, RowStates, StatusOf
<1>5. ExecutionInv(x)'
  <2>1. (EventsInv(x) /\ FinalInv(x))'
    BY DEF IInv, ExecutionInv, EventsInv, FinalInv, ReportsOf, Started
  <2>2. (UnknownInv(x) /\ RowInv(x))'
    BY <1>3 DEF IInv, ExecutionInv, UnknownInv, RowInv, StatusOf, Kinds
  <2>3. QED
    BY <2>1, <2>2 DEF ExecutionInv
<1>6. \A y \in Executions \ {x} : ExecutionInv(y)'
  BY <1>3, SameExecutionInv DEF IInv, SameExecution
<1>7. \A p \in Requests : RequestInv(p)'
  <2>1. \A y \in Executions : row[y] # "none" => row'[y] # "none"
    BY <1>3 DEF StatusOf
  <2>2. \A p \in Requests : request[p].execution \in Executions
    BY DEF IInv, TypeOK
  <2>3. QED
    BY <1>2, <2>1, <2>2 DEF IInv, RequestInv
<1>8. QED
  BY <1>4, <1>5, <1>6, <1>7 DEF IInv

-----------------------------------------------------------------------------

\* No step at all.
LEMMA StutterIInv == ASSUME IInv, UNCHANGED vars PROVE IInv'
<1> USE DEF vars, watching, workflow, gate
<1>1. TypeOK'
  BY DEF IInv, TypeOK
<1>2. \A x \in Executions : ExecutionInv(x)'
  BY SameExecutionInv DEF IInv, SameExecution
<1>3. \A q \in Requests : RequestInv(q)'
  BY SameGateInv DEF IInv
<1>4. QED
  BY <1>1, <1>2, <1>3 DEF IInv

\* Every step of the orchestrator, of Shuffle and of the API keeps the invariant.
LEMMA NextIInv == ASSUME IInv, [Next]_vars PROVE IInv'
<1>1. ASSUME NEW x \in Executions, AgentStep(x) PROVE IInv'
  BY <1>1, TriggerStep, AnnounceStartStep, ReportErrorStep, PollStep, SleepStep,
     ReportTimeoutStep, ReportCompletionStep DEF AgentStep
<1>2. ASSUME NEW x \in Executions, AgentFault(x) PROVE IInv'
  BY <1>2, TriggerFailsStep, PollRefusedStep, WatcherLostStep DEF AgentFault
<1>3. ASSUME NEW x \in Executions, ShuffleStep(x) PROVE IInv'
  BY <1>3, ReachGateStep, HitlGateStep, NotifyPipelineStep, EndWorkflowStep DEF ShuffleStep
<1>4. ASSUME NEW q \in Requests, FindPending(q) \/ HandlerStep(q) \/ HandlerFault(q) PROVE IInv'
  BY <1>4, FindPendingStep, CallShuffleStep, UpdateRowStep, CallRefusedStep, CallLostStep
     DEF HandlerStep, HandlerFault
<1>5. CASE UNCHANGED vars
  BY <1>5, StutterIInv
<1>6. QED
  BY <1>1, <1>2, <1>3, <1>4, <1>5 DEF Next

\* The invariant holds in every reachable state: gate, routes, Shuffle and
\* watcher stay consistent whatever the order of their steps.
THEOREM SoarInvariant == Spec => []IInv
<1>1. Init => IInv
  BY InitIInv
<1>2. IInv /\ [Next]_vars => IInv'
  BY NextIInv
<1>3. QED
  BY <1>1, <1>2, PTL DEF Spec

\* Type correctness, for any executions, requests, tokens and limits.
THEOREM SoarTypes == Spec => []TypeOK
<1>1. IInv => TypeOK
  BY DEF IInv
<1>2. QED
  BY <1>1, SoarInvariant, PTL

\* A decision on record is one Shuffle has answered, and a rejected execution
\* is over: hitl_approve and hitl_reject call Shuffle before they UPDATE.
THEOREM DecisionBehindCall == Spec => []RowFollowsShuffle
<1>1. IInv => RowFollowsShuffle
  BY DEF IInv, ExecutionInv, RowInv, RowFollowsShuffle
<1>2. QED
  BY <1>1, SoarInvariant, PTL

\* No gated execution goes on, and no call reaches Shuffle, without the row
\* hitl_gate stores.
THEOREM GateBeforeCall == Spec => []GateOnRecord
<1>1. IInv => GateOnRecord
  BY DEF IInv, ExecutionInv, RowInv, GateOnRecord
<1>2. QED
  BY <1>1, SoarInvariant, PTL

\* An execution is reported once by its agent, and its end or timeout after its
\* start was announced (_soar_resume).
THEOREM OneReport == Spec => []ReportedOnce
<1>1. ASSUME IInv PROVE ReportedOnce
  <2>1. ASSUME NEW x \in Executions PROVE Cardinality(ReportsOf(x)) <= 1
    <3>1. CASE ReportsOf(x) = {}
      BY <3>1, FS_EmptySet
    <3>2. CASE ReportsOf(x) # {}
      <4>1. PICK i \in ReportsOf(x) : ReportsOf(x) = {i}
        BY <1>1, <3>2 DEF IInv, ExecutionInv, EventsInv
      <4>2. QED
        BY <4>1, FS_Singleton
    <3>3. QED
      BY <3>1, <3>2
  <2>2. QED
    BY <1>1, <2>1 DEF IInv, ExecutionInv, EventsInv, ReportedOnce, ReportsOf
<1>2. QED
  BY <1>1, SoarInvariant, PTL

\* The status an end is reported with stays the execution's status, whatever an
\* analyst does afterwards.
THEOREM ReportedStatusStays == Spec => []FinalIsFinal
<1>1. IInv => FinalIsFinal
  BY DEF IInv, ExecutionInv, FinalInv, FinalIsFinal
<1>2. QED
  BY <1>1, SoarInvariant, PTL

\* A decided gate is never open again: hitl_gate inserts only where there is no
\* row, and each route writes a decision.
THEOREM DecidedGateStays == Spec => DecisionIsFinal
<1> DEFINE Decided(x) == row[x] \in {"APPROVED", "REJECTED"}
<1>1. ASSUME TypeOK, [Next]_vars, NEW x \in Executions, Decided(x)
      PROVE  row'[x] \in {"APPROVED", "REJECTED"}
  <2>1. CASE UNCHANGED row
    BY <1>1, <2>1
  <2>2. ASSUME NEW y \in Executions, HitlGate(y) PROVE row'[x] \in {"APPROVED", "REJECTED"}
    BY <1>1, <2>2 DEF HitlGate, TypeOK
  <2>3. ASSUME NEW q \in Requests, UpdateRow(q) PROVE row'[x] \in {"APPROVED", "REJECTED"}
    BY <1>1, <2>3 DEF UpdateRow, StatusOf, TypeOK
  <2>4. UNCHANGED row \/ (\E y \in Executions : HitlGate(y)) \/ (\E q \in Requests : UpdateRow(q))
    <3> USE DEF vars, gate, watching, workflow
    <3>1. ASSUME NEW y \in Executions, AgentStep(y) \/ AgentFault(y) PROVE UNCHANGED row
      BY <3>1 DEF AgentStep, AgentFault, Trigger, AnnounceStart, ReportError, Poll, Sleep,
                  ReportTimeout, ReportCompletion, TriggerFails, PollRefused, WatcherLost
    <3>2. ASSUME NEW y \in Executions, ShuffleStep(y), ~HitlGate(y) PROVE UNCHANGED row
      BY <3>2 DEF ShuffleStep, ReachGate, NotifyPipeline, EndWorkflow
    <3>3. ASSUME NEW q \in Requests, FindPending(q) \/ HandlerStep(q) \/ HandlerFault(q), ~UpdateRow(q)
          PROVE  UNCHANGED row
      BY <3>3 DEF FindPending, HandlerStep, HandlerFault, CallShuffle, CallRefused, CallLost
    <3>4. QED
      BY <1>1, <3>1, <3>2, <3>3 DEF Next
  <2>5. QED
    BY <2>1, <2>2, <2>3, <2>4
<1>2. TypeOK /\ [Next]_vars =>
        [\A x \in Executions :
            row[x] \in {"APPROVED", "REJECTED"} => row'[x] \in {"APPROVED", "REJECTED"}]_vars
  BY <1>1
<1>3. QED
  BY <1>2, SoarTypes, PTL DEF Spec, DecisionIsFinal

=============================================================================
