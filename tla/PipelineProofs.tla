--------------------------- MODULE PipelineProofs ---------------------------
(***************************************************************************)
(* Safety of Pipeline for any workers, topics, alerts, limits and faults.  *)
(* What happens to an alert depends on all messages that carry it: the     *)
(* invariant follows the one handling of an alert that may still launch    *)
(* something, and ties it to the key in Redis; it keeps the semaphore's    *)
(* queue free of repetitions, without which a slot could be taken twice,   *)
(* and each worker's committed offset behind what it has fetched.          *)
(***************************************************************************)
EXTENDS Pipeline, FiniteSetTheorems, TLAPS

Active == {"queued"} \cup Holding

\* Types other than that of the semaphore's value; no offset is committed
\* before its message is fetched.
Types ==
    /\ topic \in [Messages -> Contents]
    /\ next \in [Workers -> 0 .. Length]
    /\ committed \in [Workers -> 0 .. Length]
    /\ \A w \in Workers : committed[w] <= next[w]
    /\ worker \in [Workers -> {"running", "stopping"}]
    /\ limit \in Limits
    /\ task \in [Messages -> TaskStates]
    /\ dup \in [Messages -> BOOLEAN]
    /\ playbook \in [Messages -> Playbooks \cup {NoPlaybook}]
    /\ trace \in [Messages -> SUBSET Traces]
    /\ fast \in BOOLEAN
    /\ category \in Categories
    /\ dedup \subseteq Alerts
    /\ cache \in Playbooks \cup {NoPlaybook}
    /\ launched \in [Alerts -> Nat]
    /\ uncertain \subseteq Alerts
    /\ faults \in 0 .. MaxFaults

\* What waits for the semaphore is queued, once.
QueueInv ==
    /\ queue \in Seq(Messages)
    /\ \A i \in DOMAIN queue : task[queue[i]] = "queued"
    /\ \A i, j \in DOMAIN queue : queue[i] = queue[j] => i = j

InGraph == {m \in Messages : task[m] \in Holding}

SlotsInv ==
    /\ free \in Nat
    /\ IsFiniteSet(InGraph) /\ free + Cardinality(InGraph) = limit

\* No message has a task before it is fetched and none is passed over, an
\* alert in the graph is one, and what a task has left behind.
MessageInv(m) ==
    /\ task[m] = "queued" => topic[m] # "garbled"
    /\ task[m] \in Holding => topic[m] \in Alerts
    /\ m[2] > next[m[1]] => task[m] \notin Active
    /\ m[2] <= next[m[1]] /\ topic[m] # "garbled" => task[m] # "none"
    /\ task[m] = "lost" => m[2] <= committed[m[1]]
    /\ task[m] = "parked" => "PENDING" \in trace[m]
    /\ task[m] \in {"triggering", "executed"} => "EXECUTED" \in trace[m]
    /\ task[m] = "dropped" => "DROPPED" \in trace[m]

\* The handling of m may end in a review or an execution.
Carrying(m) ==
    \/ task[m] \in {"enriching", "generating", "prompting", "parking", "publishing", "triggering"}
    \/ task[m] = "analysing" /\ ~dup[m]

Carriers(a) == {m \in Messages : topic[m] = a /\ Carrying(m)}

\* An alert that Redis remembers was launched once and is over, or at most one
\* of its handlings may still launch it; either way its key is set.
OnceInv(a) ==
    a \notin uncertain =>
        /\ launched[a] <= 1
        /\ launched[a] > 0 => Carriers(a) = {}
        /\ \A m, n \in Carriers(a) : m = n
        /\ launched[a] > 0 \/ Carriers(a) # {} => a \in dedup

IInv ==
    /\ Types
    /\ QueueInv
    /\ SlotsInv
    /\ \A m \in Messages : MessageInv(m)
    /\ \A a \in Alerts : OnceInv(a)

-----------------------------------------------------------------------------

LEMMA InitIInv == Init => IInv
<1> SUFFICES ASSUME Init PROVE IInv
  OBVIOUS
<1> USE PipelineAssumption
<1>1. Types
  BY DEF Init, Types, TaskStates, Messages
<1>2. QueueInv
  BY DEF Init, QueueInv
<1>3. InGraph = {}
  BY DEF Init, InGraph, Holding
<1>4. SlotsInv
  BY <1>3, FS_EmptySet DEF Init, SlotsInv
<1>5. ASSUME NEW m \in Messages PROVE MessageInv(m)
  <2>1. m[1] \in Workers /\ m[2] \in 1 .. Length
    BY DEF Messages
  <2>2. ~(m[2] <= next[m[1]])
    BY <2>1 DEF Init
  <2>3. QED
    BY <2>2 DEF Init, MessageInv, Holding, Active
<1>6. \A a \in Alerts : OnceInv(a)
  BY DEF Init, OnceInv, Carriers, Carrying
<1>7. QED
  BY <1>1, <1>2, <1>4, <1>5, <1>6 DEF IInv

-----------------------------------------------------------------------------
(* What a step of one task leaves alone.                                   *)

\* The task of m goes on, those of the other messages stay where they are.
LEMMA GotoTask ==
    ASSUME IInv, NEW m \in Messages, NEW s \in TaskStates, Goto(m, s)
    PROVE  /\ task' \in [Messages -> TaskStates]
           /\ task'[m] = s
           /\ \A n \in Messages \ {m} : task'[n] = task[n]
  BY DEF IInv, Types, Goto

\* The queue is about queued tasks only.
LEMMA SameQueue ==
    ASSUME IInv, UNCHANGED queue, \A n \in Messages : task[n] = "queued" => task'[n] = "queued"
    PROVE  QueueInv'
<1>1. \A i \in DOMAIN queue : queue[i] \in Messages
  BY DEF IInv, QueueInv
<1>2. QED
  BY <1>1 DEF IInv, QueueInv

\* No task comes into the graph or leaves it.
LEMMA SameSlots ==
    ASSUME IInv, UNCHANGED <<free, limit>>,
           \A n \in Messages : task'[n] \in Holding <=> task[n] \in Holding
    PROVE  SlotsInv'
<1>1. InGraph' = InGraph
  BY DEF InGraph
<1>2. QED
  BY <1>1 DEF IInv, SlotsInv

\* A message of which nothing changes keeps its invariant.
LEMMA SameMessage ==
    ASSUME IInv, NEW n \in Messages, UNCHANGED <<topic[n], task[n], trace[n], next[n[1]]>>,
           n[2] <= committed[n[1]] => n[2] <= committed'[n[1]]
    PROVE  MessageInv(n)'
<1>1. MessageInv(n)
  BY DEF IInv
<1>2. QED
  BY <1>1 DEF MessageInv

\* Nothing is launched and no handling comes to carry its alert.
LEMMA SameOnce ==
    ASSUME IInv, UNCHANGED <<topic, launched>>, dedup \subseteq dedup', uncertain \subseteq uncertain',
           \A n \in Messages : Carrying(n)' => Carrying(n)
    PROVE  \A a \in Alerts : OnceInv(a)'
<1> SUFFICES ASSUME NEW a \in Alerts, a \notin uncertain' PROVE OnceInv(a)'
  BY DEF OnceInv
<1>1. OnceInv(a) /\ a \notin uncertain
  BY DEF IInv
<1>2. Carriers(a)' \subseteq Carriers(a)
  BY DEF Carriers
<1>3. QED
  BY <1>1, <1>2 DEF OnceInv

\* A task in the graph stays there: the semaphore and its queue are as they were.
LEMMA StaysInGraph ==
    ASSUME IInv, NEW m \in Messages, task[m] \in Holding, NEW s \in Holding, Goto(m, s),
           UNCHANGED <<broker, semaphore>>,
           \A n \in Messages \ {m} : UNCHANGED trace[n]
    PROVE  /\ task' \in [Messages -> TaskStates] /\ task'[m] = s
           /\ \A n \in Messages \ {m} : task'[n] = task[n] /\ MessageInv(n)'
           /\ topic[m] \in Alerts
           /\ QueueInv' /\ SlotsInv'
<1>1. /\ task' \in [Messages -> TaskStates] /\ task'[m] = s
      /\ \A n \in Messages \ {m} : task'[n] = task[n]
  BY GotoTask DEF TaskStates
<1>2. ASSUME NEW n \in Messages \ {m} PROVE MessageInv(n)'
  BY <1>1, SameMessage DEF broker
<1>3. topic[m] \in Alerts
  BY DEF IInv, MessageInv
<1>4. QueueInv'
  BY <1>1, SameQueue DEF semaphore, Holding
<1>5. SlotsInv'
  BY <1>1, SameSlots DEF semaphore
<1>6. QED
  BY <1>1, <1>2, <1>3, <1>4, <1>5

\* A task that is over gives its slot back.
LEMMA LeavesGraph ==
    ASSUME IInv, NEW m \in Messages, task[m] \in Holding, NEW s \in Ended, End(m, s),
           UNCHANGED broker, \A n \in Messages \ {m} : UNCHANGED trace[n]
    PROVE  /\ task' \in [Messages -> TaskStates] /\ task'[m] = s
           /\ \A n \in Messages \ {m} : task'[n] = task[n] /\ MessageInv(n)' /\ dup'[n] = dup[n]
           /\ topic[m] \in Alerts
           /\ dup' \in [Messages -> BOOLEAN]
           /\ playbook' \in [Messages -> Playbooks \cup {NoPlaybook}]
           /\ QueueInv' /\ SlotsInv'
<1>1. /\ task' \in [Messages -> TaskStates] /\ task'[m] = s
      /\ \A n \in Messages \ {m} : task'[n] = task[n]
  BY GotoTask DEF TaskStates, End
<1>2. /\ dup' \in [Messages -> BOOLEAN]
      /\ playbook' \in [Messages -> Playbooks \cup {NoPlaybook}]
      /\ \A n \in Messages \ {m} : dup'[n] = dup[n] /\ playbook'[n] = playbook[n]
  BY DEF End, IInv, Types
<1>3. ASSUME NEW n \in Messages \ {m} PROVE MessageInv(n)'
  BY <1>1, <1>2, SameMessage DEF broker
<1>4. topic[m] \in Alerts
  BY DEF IInv, MessageInv
<1>5. QueueInv'
  BY <1>1, SameQueue DEF End, Holding
<1>6. SlotsInv'
  <2>1. s \notin Holding
    BY DEF Ended, Holding
  <2>2. InGraph' = InGraph \ {m} /\ m \in InGraph
    BY <1>1, <2>1 DEF InGraph
  <2>3. /\ IsFiniteSet(InGraph') /\ Cardinality(InGraph') = Cardinality(InGraph) - 1
        /\ Cardinality(InGraph) \in Nat
    BY <2>2, FS_RemoveElement, FS_CardinalityType DEF IInv, SlotsInv
  <2>4. free' = free + 1 /\ limit' = limit /\ limit \in Nat
    BY PipelineAssumption DEF End, IInv, Types
  <2>5. QED
    BY <2>3, <2>4 DEF IInv, SlotsInv
<1>7. QED
  BY <1>1, <1>2, <1>3, <1>4, <1>5, <1>6

-----------------------------------------------------------------------------
(* The consumer workers and the semaphore's queue.                         *)

\* A message is a worker's, at a position of its partition.
LEMMA MessagePairs == \A m \in Messages : m[1] \in Workers /\ m[2] \in 1 .. Length
  BY DEF Messages

\* A fault is counted.
LEMMA FaultCount == ASSUME IInv, Fault PROVE faults' \in 0 .. MaxFaults
  BY PipelineAssumption DEF IInv, Types, Fault

\* A queued task behind the others: no other entry is its own.
LEMMA AppendQueue ==
    ASSUME IInv, NEW m \in Messages, task[m] # "queued", queue' = Append(queue, m),
           task'[m] = "queued", \A n \in Messages \ {m} : task'[n] = task[n]
    PROVE  QueueInv'
<1> DEFINE k == Len(queue)
<1>1. /\ queue' \in Seq(Messages) /\ k \in Nat
      /\ DOMAIN queue = 1 .. k /\ DOMAIN queue' = 1 .. k + 1
      /\ queue'[k + 1] = m /\ \A i \in 1 .. k : queue'[i] = queue[i]
  BY DEF IInv, QueueInv
<1> HIDE DEF k
<1>2. \A i \in 1 .. k : queue[i] \in Messages \ {m} /\ task[queue[i]] = "queued"
  BY <1>1 DEF IInv, QueueInv
<1>3. \A i \in DOMAIN queue' : task'[queue'[i]] = "queued"
  BY <1>1, <1>2
<1>4. ASSUME NEW i \in DOMAIN queue', NEW j \in DOMAIN queue', queue'[i] = queue'[j]
      PROVE  i = j
  <2>1. CASE i \in 1 .. k /\ j \in 1 .. k
    BY <1>1, <1>4, <2>1 DEF IInv, QueueInv
  <2>2. CASE i = k + 1 \/ j = k + 1
    BY <1>1, <1>2, <1>4, <2>2
  <2>3. QED
    BY <1>1, <2>1, <2>2
<1>5. QED
  BY <1>1, <1>3, <1>4 DEF QueueInv

\* The task at the head leaves the queue, and no other entry is its own.
LEMMA TailQueue ==
    ASSUME IInv, NEW m \in Messages, queue # <<>>, m = Head(queue), queue' = Tail(queue),
           \A n \in Messages \ {m} : task'[n] = task[n]
    PROVE  task[m] = "queued" /\ QueueInv'
<1> DEFINE k == Len(queue)
<1>1. /\ queue' \in Seq(Messages) /\ k \in Nat \ {0}
      /\ DOMAIN queue = 1 .. k /\ DOMAIN queue' = 1 .. k - 1
      /\ m = queue[1] /\ \A i \in 1 .. k - 1 : queue'[i] = queue[i + 1]
  BY DEF IInv, QueueInv
<1> HIDE DEF k
<1>2. task[m] = "queued"
  BY <1>1 DEF IInv, QueueInv
<1>3. \A i \in 1 .. k - 1 : queue[i + 1] \in Messages \ {m} /\ task[queue[i + 1]] = "queued"
  BY <1>1 DEF IInv, QueueInv
<1>4. \A i \in DOMAIN queue' : task'[queue'[i]] = "queued"
  BY <1>1, <1>3
<1>5. ASSUME NEW i \in DOMAIN queue', NEW j \in DOMAIN queue', queue'[i] = queue'[j]
      PROVE  i = j
  <2>1. i + 1 \in DOMAIN queue /\ j + 1 \in DOMAIN queue /\ queue[i + 1] = queue[j + 1]
    BY <1>1, <1>5
  <2>2. i + 1 = j + 1
    BY <2>1 DEF IInv, QueueInv
  <2>3. QED
    BY <1>1, <2>2
<1>6. QED
  BY <1>1, <1>2, <1>4, <1>5 DEF QueueInv

\* A message that is fetched has no task yet.
LEMMA FetchStep == ASSUME IInv, NEW w \in Workers, Fetch(w) PROVE IInv'
<1> DEFINE m == <<w, next[w] + 1>>
<1>1. /\ next[w] < Length /\ next' = [next EXCEPT ![w] = @ + 1]
      /\ IF topic[m] = "garbled"
         THEN UNCHANGED <<task, queue>>
         ELSE Goto(m, "queued") /\ queue' = Append(queue, m)
      /\ UNCHANGED <<topic, committed, worker, limit, free, dup, playbook, redis, results, faults>>
  BY DEF Fetch
<1>2. next[w] \in 0 .. Length /\ Length \in Nat /\ next[w] + 1 \in 1 .. Length
  BY <1>1, PipelineAssumption DEF IInv, Types
<1>3. m \in Messages /\ m[1] = w /\ m[2] = next[w] + 1
  BY <1>2 DEF Messages
<1>4. task[m] \notin Active
  BY <1>2, <1>3 DEF IInv, MessageInv
<1> HIDE DEF m
<1>5. /\ next' \in [Workers -> 0 .. Length] /\ next'[w] = next[w] + 1
      /\ \A v \in Workers \ {w} : next'[v] = next[v]
  BY <1>1, <1>2 DEF IInv, Types
<1>6. /\ task' \in [Messages -> TaskStates]
      /\ \A n \in Messages \ {m} : task'[n] = task[n]
      /\ \/ task'[m] = task[m] /\ topic[m] = "garbled"
         \/ task'[m] = "queued" /\ topic[m] # "garbled"
  BY <1>1, <1>3, GotoTask DEF TaskStates, IInv, Types
<1>7. Types'
  BY <1>1, <1>5, <1>6 DEF IInv, Types, redis, settings, results
<1>8. QueueInv'
  <2>1. CASE UNCHANGED <<task, queue>>
    BY <2>1, SameQueue
  <2>2. CASE Goto(m, "queued") /\ queue' = Append(queue, m)
    <3>1. task'[m] = "queued"
      BY <1>3, <2>2, GotoTask DEF TaskStates
    <3>2. QED
      BY <1>3, <1>4, <1>6, <2>2, <3>1, AppendQueue DEF Active
  <2>3. QED
    BY <1>1, <2>1, <2>2
<1>9. SlotsInv'
  BY <1>1, <1>4, <1>6, SameSlots DEF Active, Holding
<1>10. ASSUME NEW n \in Messages PROVE MessageInv(n)'
  <2>1. MessageInv(n)
    BY DEF IInv
  <2>2. n[1] \in Workers /\ n[2] \in Nat
    BY MessagePairs, <1>2
  <2>3. next[n[1]] \in Nat /\ (n[2] > next'[n[1]] => n[2] > next[n[1]] /\ n # m)
    BY <1>2, <1>3, <1>5, <2>2 DEF IInv, Types
  <2>4. CASE n # m
    <3>1. task'[n] = task[n] /\ UNCHANGED <<topic, trace, committed>>
      BY <1>1, <1>6, <2>4 DEF results
    <3>2. n[2] <= next'[n[1]] => n[2] <= next[n[1]]
      <4>1. n[1] = w => n[2] # next[w] + 1
        BY <1>3, <2>4 DEF Messages, m
      <4>2. QED
        BY <1>2, <1>5, <2>2, <2>3, <4>1
    <3>3. QED
      BY <2>1, <2>3, <3>1, <3>2 DEF MessageInv
  <2>5. CASE n = m /\ task'[m] = "queued" /\ topic[m] # "garbled"
    BY <1>1, <2>3, <2>5 DEF MessageInv, Holding
  <2>6. CASE n = m /\ task'[m] = task[m] /\ topic[m] = "garbled"
    BY <1>1, <2>1, <2>3, <2>6 DEF MessageInv, results
  <2>7. QED
    BY <1>6, <2>4, <2>5, <2>6
<1>11. \A a \in Alerts : OnceInv(a)'
  <2>1. \A n \in Messages : Carrying(n)' => Carrying(n)
    BY <1>1, <1>6 DEF Carrying
  <2>2. QED
    BY <1>1, <2>1, SameOnce DEF redis, results
<1>12. QED
  BY <1>7, <1>8, <1>9, <1>10, <1>11 DEF IInv

\* Offsets are committed, or a worker leaves its loop, and no task is concerned.
LEMMA WorkerStep ==
    ASSUME IInv, NEW w \in Workers, AutoCommit(w) \/ WorkerFails(w)
    PROVE  IInv'
<1>1. UNCHANGED <<topic, next, semaphore, state, redis, results>>
  BY DEF AutoCommit, WorkerFails
<1>2. /\ committed' \in [Workers -> 0 .. Length]
      /\ \A v \in Workers : committed[v] <= committed'[v] /\ committed'[v] <= next[v]
      /\ worker' \in [Workers -> {"running", "stopping"}]
      /\ faults' \in 0 .. MaxFaults
  BY FaultCount DEF AutoCommit, WorkerFails, IInv, Types
<1>3. Types'
  BY <1>1, <1>2 DEF IInv, Types, semaphore, state, redis, settings, results
<1>4. QueueInv' /\ SlotsInv'
  BY <1>1, SameQueue, SameSlots DEF semaphore, state
<1>5. ASSUME NEW n \in Messages PROVE MessageInv(n)'
  <2>1. n[1] \in Workers /\ n[2] \in Nat
    BY MessagePairs, PipelineAssumption
  <2>2. /\ committed[n[1]] \in Nat /\ committed'[n[1]] \in Nat
        /\ committed[n[1]] <= committed'[n[1]]
    BY <1>2, <2>1, PipelineAssumption DEF IInv, Types
  <2>3. n[2] <= committed[n[1]] => n[2] <= committed'[n[1]]
    BY <2>1, <2>2
  <2>4. QED
    BY <1>1, <2>3, SameMessage DEF state, results
<1>6. \A a \in Alerts : OnceInv(a)'
  BY <1>1, SameOnce DEF Carrying, state, redis, results
<1>7. QED
  BY <1>3, <1>4, <1>5, <1>6 DEF IInv

\* The semaphore is handed to the head of the queue.
LEMMA AcquireStep == ASSUME IInv, NEW m \in Messages, Acquire(m) PROVE IInv'
<1>1. /\ queue # <<>> /\ m = Head(queue) /\ free > 0 /\ queue' = Tail(queue)
      /\ UNCHANGED <<broker, limit, dup, playbook, redis, results, faults>>
  BY DEF Acquire
<1>2. PICK s \in {"failed", "deduping"} :
        /\ Goto(m, s)
        /\ s = "failed" => UNCHANGED free
        /\ s = "deduping" => topic[m] # "invalid" /\ free' = free - 1
  BY DEF Acquire
<1>3. /\ task' \in [Messages -> TaskStates] /\ task'[m] = s
      /\ \A n \in Messages \ {m} : task'[n] = task[n]
  BY <1>2, GotoTask DEF TaskStates, Ended, Holding
<1>4. task[m] = "queued" /\ QueueInv'
  BY <1>1, <1>3, TailQueue
<1>5. Types'
  BY <1>1, <1>3 DEF IInv, Types, broker, redis, settings, results
<1>6. SlotsInv'
  <2>1. CASE s = "failed"
    BY <1>1, <1>2, <1>3, <1>4, <2>1, SameSlots DEF Holding
  <2>2. CASE s = "deduping"
    <3>1. InGraph' = InGraph \cup {m} /\ m \notin InGraph
      BY <1>3, <1>4, <2>2 DEF InGraph, Holding
    <3>2. /\ IsFiniteSet(InGraph') /\ Cardinality(InGraph') = Cardinality(InGraph) + 1
          /\ Cardinality(InGraph) \in Nat
      BY <3>1, FS_AddElement, FS_CardinalityType DEF IInv, SlotsInv
    <3>3. limit \in Nat
      BY PipelineAssumption DEF IInv, Types
    <3>4. QED
      BY <1>1, <1>2, <2>2, <3>2, <3>3 DEF IInv, SlotsInv
  <2>3. QED
    BY <2>1, <2>2
<1>7. ASSUME NEW n \in Messages PROVE MessageInv(n)'
  <2>1. CASE n # m
    BY <1>1, <1>3, <2>1, SameMessage DEF broker, results
  <2>2. CASE n = m
    <3>1. MessageInv(m) /\ topic[m] \in Contents
      BY DEF IInv, Types
    <3>2. UNCHANGED <<topic, next, committed>>
      BY <1>1 DEF broker
    <3>3. s = "deduping" => topic[m] \in Alerts
      BY <1>2, <1>4, <3>1 DEF MessageInv, Contents
    <3>4. QED
      BY <1>3, <1>4, <2>2, <3>1, <3>2, <3>3 DEF MessageInv, Active, Holding
  <2>3. QED
    BY <2>1, <2>2
<1>8. \A a \in Alerts : OnceInv(a)'
  <2>1. \A n \in Messages : Carrying(n)' => Carrying(n)
    BY <1>1, <1>3 DEF Carrying
  <2>2. QED
    BY <1>1, <2>1, SameOnce DEF broker, redis, results
<1>9. QED
  BY <1>4, <1>5, <1>6, <1>7, <1>8 DEF IInv

\* A new process has no tasks, and all slots.
LEMMA RestartedStep ==
    ASSUME IInv, NEW offset \in [Workers -> 0 .. Length], Restarted(offset), faults' \in 0 .. MaxFaults,
           \A w \in Workers : committed[w] <= offset[w] /\ offset[w] <= next[w]
    PROVE  IInv'
<1>1. /\ committed' = offset /\ next' = offset /\ worker' = [w \in Workers |-> "running"]
      /\ queue' = <<>> /\ free' = limit
      /\ dup' = [m \in Messages |-> FALSE] /\ playbook' = [m \in Messages |-> NoPlaybook]
      /\ UNCHANGED <<topic, limit, redis, results>>
  BY DEF Restarted
<1>2. /\ task' \in [Messages -> TaskStates]
      /\ \A m \in Messages :
            /\ task[m] \in Active =>
                  task'[m] = IF m[2] <= offset[m[1]] THEN "lost" ELSE "none"
            /\ task[m] \notin Active => task'[m] = task[m]
  BY DEF Restarted, Active, TaskStates, IInv, Types
<1>3. \A m \in Messages : task'[m] \notin Active
  BY <1>2 DEF Active, Holding
<1>4. Types'
  BY <1>1, <1>2 DEF IInv, Types, redis, settings, results
<1>5. QueueInv'
  BY <1>1 DEF QueueInv
<1>6. SlotsInv'
  <2>1. InGraph' = {}
    BY <1>3 DEF InGraph, Active
  <2>2. limit \in Nat
    BY PipelineAssumption DEF IInv, Types
  <2>3. QED
    BY <1>1, <2>1, <2>2, FS_EmptySet DEF SlotsInv
<1>7. ASSUME NEW m \in Messages PROVE MessageInv(m)'
  <2>1. MessageInv(m)
    BY DEF IInv
  <2>2. task'[m] \notin Active /\ UNCHANGED <<topic, trace>>
    BY <1>1, <1>3 DEF results
  <2>3. /\ m[1] \in Workers /\ m[2] \in Nat
        /\ committed[m[1]] \in Nat /\ offset[m[1]] \in Nat /\ next[m[1]] \in Nat
    BY MessagePairs, PipelineAssumption DEF IInv, Types
  <2>4. /\ m[2] <= offset[m[1]] => m[2] <= next[m[1]]
        /\ m[2] <= committed[m[1]] => m[2] <= offset[m[1]]
    BY <2>3
  <2>5. CASE task[m] \in Active
    <3>1. task'[m] = IF m[2] <= offset[m[1]] THEN "lost" ELSE "none"
      BY <1>2, <2>5
    <3>2. QED
      BY <1>1, <2>2, <3>1 DEF MessageInv, Active, Holding
  <2>6. CASE task[m] \notin Active
    <3>1. task'[m] = task[m]
      BY <1>2, <2>6
    <3>2. QED
      BY <1>1, <2>1, <2>2, <2>4, <3>1 DEF MessageInv, Active, Holding
  <2>7. QED
    BY <2>5, <2>6
<1>8. \A a \in Alerts : OnceInv(a)'
  <2>1. \A m \in Messages : ~Carrying(m)'
    BY <1>3 DEF Carrying, Active, Holding
  <2>2. QED
    BY <1>1, <2>1, SameOnce DEF redis, results
<1>9. QED
  BY <1>4, <1>5, <1>6, <1>7, <1>8 DEF IInv

\* After a crash the committed offsets count, after a shutdown the fetched ones.
LEMMA RestartStep == ASSUME IInv, Crash \/ Shutdown PROVE IInv'
<1> USE PipelineAssumption
<1>1. CASE Crash
  BY <1>1, FaultCount, RestartedStep DEF Crash, IInv, Types
<1>2. CASE Shutdown
  BY <1>2, RestartedStep DEF Shutdown, IInv, Types
<1>3. QED
  BY <1>1, <1>2

-----------------------------------------------------------------------------
(* The nodes of the graph.                                                 *)

\* A task goes on to a state in which it carries its alert only if it did:
\* nothing is launched and no key is touched.
LEMMA GoesOn ==
    ASSUME IInv, NEW m \in Messages, task[m] \in Holding, NEW s \in Holding, Goto(m, s),
           UNCHANGED <<broker, semaphore, dup, dedup, uncertain, launched, fast, category>>,
           playbook' \in [Messages -> Playbooks \cup {NoPlaybook}],
           trace' \in [Messages -> SUBSET Traces],
           cache' \in Playbooks \cup {NoPlaybook},
           faults' \in 0 .. MaxFaults,
           \A n \in Messages \ {m} : UNCHANGED trace[n],
           s # "analysing" /\ (s # "dropping" => Carrying(m)),
           s = "triggering" => "EXECUTED" \in trace'[m]
    PROVE  IInv'
<1>1. /\ task' \in [Messages -> TaskStates] /\ task'[m] = s
      /\ \A n \in Messages \ {m} : task'[n] = task[n] /\ MessageInv(n)'
      /\ topic[m] \in Alerts
      /\ QueueInv' /\ SlotsInv'
  BY StaysInGraph
<1>2. Types'
  BY <1>1 DEF IInv, Types, broker, semaphore
<1>3. MessageInv(m)'
  <2>1. MessageInv(m)
    BY DEF IInv
  <2>2. topic' = topic /\ next' = next
    BY DEF broker
  <2>3. s \notin {"none", "lost", "queued", "parked", "dropped", "executed"}
    BY DEF Holding
  <2>4. QED
    BY <1>1, <2>1, <2>2, <2>3 DEF MessageInv, Active
<1>4. \A a \in Alerts : OnceInv(a)'
  <2>1. \A n \in Messages : Carrying(n)' => Carrying(n)
    BY <1>1 DEF Carrying
  <2>2. QED
    BY <2>1, SameOnce DEF broker
<1>5. QED
  BY <1>1, <1>2, <1>3, <1>4 DEF IInv

\* SET NX lets one handling of an alert through while Redis answers and
\* remembers; when it fails, nothing is promised of the alert any more.
LEMMA CheckDedupStep == ASSUME IInv, NEW m \in Messages, CheckDedup(m) PROVE IInv'
<1>1. /\ task[m] = "deduping" /\ Goto(m, "analysing")
      /\ UNCHANGED <<broker, semaphore, playbook, settings, cache, results>>
  BY DEF CheckDedup
<1>2. \/ /\ dup' = [dup EXCEPT ![m] = topic[m] \in dedup]
         /\ dedup' = dedup \cup {topic[m]}
         /\ UNCHANGED <<uncertain, faults>>
      \/ /\ Fault
         /\ dup' = [dup EXCEPT ![m] = FALSE]
         /\ dedup' \in {dedup, dedup \cup {topic[m]}}
         /\ uncertain' = uncertain \cup {topic[m]}
  BY DEF CheckDedup
<1>3. /\ task' \in [Messages -> TaskStates] /\ task'[m] = "analysing"
      /\ \A n \in Messages \ {m} : task'[n] = task[n] /\ MessageInv(n)'
      /\ topic[m] \in Alerts
      /\ QueueInv' /\ SlotsInv'
  BY <1>1, StaysInGraph DEF Holding, results
<1>4. Types'
  <2>1. faults' \in 0 .. MaxFaults
    BY <1>2, FaultCount DEF IInv, Types
  <2>2. dup' \in [Messages -> BOOLEAN]
    <3>1. \E b \in BOOLEAN : dup' = [dup EXCEPT ![m] = b]
      <4>1. (topic[m] \in dedup) \in BOOLEAN
        OBVIOUS
      <4>2. QED
        BY <1>2, <4>1, Zenon
    <3>2. dup \in [Messages -> BOOLEAN]
      BY DEF IInv, Types
    <3>3. QED
      BY <3>1, <3>2
  <2>3. dedup' \subseteq Alerts /\ uncertain' \subseteq Alerts
    BY <1>2, <1>3 DEF IInv, Types
  <2>4. QED
    BY <1>1, <1>3, <2>1, <2>2, <2>3 DEF IInv, Types, broker, semaphore, settings, results
<1>5. MessageInv(m)'
  <2>1. MessageInv(m)
    BY DEF IInv
  <2>2. QED
    BY <1>1, <1>3, <2>1 DEF MessageInv, Active, Holding, broker
<1>6. ASSUME NEW a \in Alerts PROVE OnceInv(a)'
  <2> SUFFICES ASSUME a \notin uncertain' PROVE OnceInv(a)'
    BY DEF OnceInv
  <2>1. OnceInv(a) /\ a \notin uncertain /\ launched' = launched /\ topic' = topic
    BY <1>1, <1>2 DEF IInv, broker, results
  <2>2. \A n \in Messages \ {m} : dup'[n] = dup[n]
    BY <1>2, Zenon DEF IInv, Types
  <2>3. \A n \in Messages \ {m} : Carrying(n)' <=> Carrying(n)
    BY <1>3, <2>2, Zenon DEF Carrying
  <2>4. ~Carrying(m)
    BY <1>1 DEF Carrying
  <2>5. CASE topic[m] # a
    <3>1. Carriers(a)' = Carriers(a)
      BY <2>1, <2>3, <2>5 DEF Carriers
    <3>2. dedup \subseteq dedup'
      BY <1>2
    <3>3. QED
      BY <2>1, <3>1, <3>2 DEF OnceInv
  <2>6. CASE topic[m] = a
    <3>1. dup' = [dup EXCEPT ![m] = a \in dedup] /\ dedup' = dedup \cup {a}
      BY <1>2, <2>6
    <3>2. dup'[m] <=> a \in dedup
      BY <3>1, Zenon DEF IInv, Types
    <3>3. CASE a \in dedup
      <4>1. ~Carrying(m)'
        BY <1>3, <3>2, <3>3, Zenon DEF Carrying
      <4>2. Carriers(a)' = Carriers(a)
        BY <2>1, <2>3, <2>4, <4>1 DEF Carriers
      <4>3. QED
        BY <2>1, <3>1, <4>2 DEF OnceInv
    <3>4. CASE a \notin dedup
      <4>1. launched[a] = 0 /\ Carriers(a) = {}
        BY <2>1, <3>4 DEF OnceInv, IInv, Types
      <4>2. Carriers(a)' \subseteq {m}
        BY <2>1, <2>3, <4>1 DEF Carriers
      <4>3. QED
        BY <2>1, <3>1, <4>1, <4>2 DEF OnceInv
    <3>5. QED
      BY <3>3, <3>4
  <2>7. QED
    BY <2>5, <2>6
<1>7. QED
  BY <1>3, <1>4, <1>5, <1>6 DEF IInv

\* A duplicate is only ever dropped; what is not has been let through.
LEMMA AnalyseStep == ASSUME IInv, NEW m \in Messages, Analyse(m) PROVE IInv'
<1>1. /\ task[m] = "analysing"
      /\ UNCHANGED <<broker, semaphore, dup, playbook, redis, results, faults>>
  BY DEF Analyse
<1>2. PICK s \in {"dropping", "enriching", "generating"} : Goto(m, s) /\ (s # "dropping" => ~dup[m])
  BY Zenon DEF Analyse
<1>3. s \in Holding /\ task[m] \in Holding /\ (s # "dropping" => Carrying(m))
  BY <1>1, <1>2 DEF Holding, Carrying
<1>4. QED
  BY <1>1, <1>2, <1>3, GoesOn DEF IInv, Types, redis, settings, results

LEMMA EnrichStep == ASSUME IInv, NEW m \in Messages, Enrich(m) PROVE IInv'
<1>1. "generating" \in Holding /\ task[m] \in Holding /\ Carrying(m)
  BY DEF Enrich, Holding, Carrying
<1>2. QED
  BY <1>1, GoesOn DEF Enrich, IInv, Types, redis, settings, results

\* What _contextual_playbook returns is a playbook of the alert.
LEMMA ContextualType == \A a \in Alerts : ContextualPlaybook(a) \in Playbooks
<1> SUFFICES ASSUME NEW a \in Alerts PROVE ContextualPlaybook(a) \in Playbooks
  OBVIOUS
<1> DEFINE steps == IF Templated THEN TemplateActions[category] ELSE GenericActions
<1>1. Templated \in BOOLEAN
  BY DEF Templated
<1>2. (steps \cap Irreversible = {}) \in BOOLEAN
  OBVIOUS
<1> HIDE DEF steps
<1>3. [of |-> a, confident |-> Templated, reversible |-> steps \cap Irreversible = {}] \in Playbooks
  BY <1>1, <1>2 DEF Playbooks
<1>4. QED
  BY <1>3 DEF ContextualPlaybook, steps


\* A task that has its playbook goes where the playbook may go.
LEMMA GeneratedStep ==
    ASSUME IInv, NEW m \in Messages, task[m] \in {"generating", "prompting"},
           NEW p \in Playbooks \cup {NoPlaybook}, Generated(m, p),
           cache' \in Playbooks \cup {NoPlaybook},
           UNCHANGED <<broker, semaphore, dup, settings, dedup, uncertain, results, faults>>
    PROVE  IInv'
<1> DEFINE s == RouteOf(topic[m], p)
<1>1. topic[m] \in Alerts /\ task[m] \in Holding /\ Carrying(m)
  BY DEF IInv, MessageInv, Holding, Carrying
<1>2. s \in {"parking", "publishing"}
  BY Zenon DEF RouteOf
<1>3. Goto(m, s) /\ playbook' = [playbook EXCEPT ![m] = p]
  BY DEF Generated
<1> HIDE DEF s
<1>4. playbook' \in [Messages -> Playbooks \cup {NoPlaybook}]
  BY <1>3 DEF IInv, Types
<1>5. s \in Holding /\ s # "analysing" /\ s # "triggering"
  BY <1>2 DEF Holding
<1>6. /\ trace' \in [Messages -> SUBSET Traces] /\ faults' \in 0 .. MaxFaults
      /\ UNCHANGED <<trace, launched, fast, category>>
  BY DEF IInv, Types, results, settings
<1>7. QED
  BY <1>1, <1>3, <1>4, <1>5, <1>6, GoesOn

\* The fast path, the cache, or the question to the model.
LEMMA GenerateStep == ASSUME IInv, NEW m \in Messages, Generate(m) PROVE IInv'
<1>1. /\ task[m] = "generating"
      /\ UNCHANGED <<broker, semaphore, dup, redis, results, faults>>
  BY DEF Generate
<1>2. topic[m] \in Alerts /\ cache \in Playbooks \cup {NoPlaybook}
  BY <1>1 DEF IInv, MessageInv, Types, Holding
<1>3. CASE Generated(m, ContextualPlaybook(topic[m]))
  BY <1>1, <1>2, <1>3, ContextualType, GeneratedStep DEF redis
<1>4. CASE Generated(m, cache)
  BY <1>1, <1>2, <1>4, GeneratedStep DEF redis
<1>5. CASE Goto(m, "prompting") /\ UNCHANGED playbook
  <2>1. "prompting" \in Holding /\ task[m] \in Holding /\ Carrying(m)
    BY <1>1 DEF Holding, Carrying
  <2>2. QED
    BY <1>1, <1>5, <2>1, GoesOn DEF IInv, Types, redis, settings, results
<1>6. QED
  BY <1>3, <1>4, <1>5 DEF Generate

\* What the model answers is confident or not, reversible or not.
LEMMA PromptStep == ASSUME IInv, NEW m \in Messages, Prompt(m) PROVE IInv'
<1>1. /\ task[m] = "prompting"
      /\ UNCHANGED <<broker, semaphore, dup, settings, dedup, uncertain, results, faults>>
  BY DEF Prompt
<1>2. topic[m] \in Alerts /\ cache \in Playbooks \cup {NoPlaybook}
  BY <1>1 DEF IInv, MessageInv, Types, Holding
<1>3. ASSUME NEW c \in BOOLEAN, NEW r \in BOOLEAN, NEW p,
             p = [of |-> topic[m], confident |-> c, reversible |-> r],
             Generated(m, p), cache' = p
      PROVE  IInv'
  <2>1. p \in Playbooks
    BY <1>2, <1>3 DEF Playbooks
  <2>2. QED
    BY <1>1, <1>3, <2>1, GeneratedStep
<1>4. CASE Generated(m, ContextualPlaybook(topic[m])) /\ UNCHANGED cache
  BY <1>1, <1>2, <1>4, ContextualType, GeneratedStep
<1>5. QED
  BY <1>3, <1>4 DEF Prompt

\* The audit row is there before the trigger.
LEMMA PublishStep == ASSUME IInv, NEW m \in Messages, Publish(m) PROVE IInv'
<1>1. /\ task[m] = "publishing" /\ Goto(m, "triggering")
      /\ trace' = [trace EXCEPT ![m] = @ \cup {"EXECUTED"}]
      /\ UNCHANGED <<broker, semaphore, dup, playbook, launched, redis, faults>>
  BY DEF Publish, Leave
<1>2. /\ trace' \in [Messages -> SUBSET Traces] /\ "EXECUTED" \in trace'[m]
      /\ \A n \in Messages \ {m} : trace'[n] = trace[n]
  BY <1>1 DEF IInv, Types, Traces
<1>3. "triggering" \in Holding /\ task[m] \in Holding /\ Carrying(m)
  BY <1>1 DEF Holding, Carrying
<1>4. QED
  BY <1>1, <1>2, <1>3, GoesOn DEF IInv, Types, redis, settings

-----------------------------------------------------------------------------
(* A task ends.                                                            *)

\* Types, slots, queue and rows, whatever is launched.
LEMMA EndedTask ==
    ASSUME IInv, NEW m \in Messages, task[m] \in Holding, NEW s \in Ended, End(m, s),
           UNCHANGED <<broker, redis>>, NEW ts \in SUBSET Traces,
           trace' = [trace EXCEPT ![m] = @ \cup ts],
           launched' \in [Alerts -> Nat], faults' \in 0 .. MaxFaults,
           s = "parked" => "PENDING" \in ts,
           s = "executed" => "EXECUTED" \in ts \cup trace[m],
           s = "dropped" => "DROPPED" \in ts
    PROVE  /\ Types' /\ QueueInv' /\ SlotsInv'
           /\ \A n \in Messages : MessageInv(n)'
           /\ ~Carrying(m)'
           /\ \A n \in Messages \ {m} : Carrying(n)' <=> Carrying(n)
           /\ topic[m] \in Alerts
<1>1. /\ trace' \in [Messages -> SUBSET Traces] /\ trace'[m] = trace[m] \cup ts
      /\ \A n \in Messages \ {m} : trace'[n] = trace[n]
  BY DEF IInv, Types
<1>2. /\ task' \in [Messages -> TaskStates] /\ task'[m] = s
      /\ \A n \in Messages \ {m} : task'[n] = task[n] /\ MessageInv(n)' /\ dup'[n] = dup[n]
      /\ topic[m] \in Alerts
      /\ dup' \in [Messages -> BOOLEAN]
      /\ playbook' \in [Messages -> Playbooks \cup {NoPlaybook}]
      /\ QueueInv' /\ SlotsInv'
  BY <1>1, LeavesGraph
<1>3. Types'
  BY <1>1, <1>2 DEF IInv, Types, End, broker, redis, settings
<1>4. s \notin Active /\ s \notin {"triggering", "analysing", "none", "lost"}
  BY DEF Active, Holding, Ended
<1>5. MessageInv(m)'
  BY <1>1, <1>2, <1>4 DEF MessageInv, Active, Holding
<1>6. ~Carrying(m)'
  BY <1>2, <1>4 DEF Carrying, Active, Holding
<1>7. \A n \in Messages \ {m} : Carrying(n)' <=> Carrying(n)
  BY <1>2, Zenon DEF Carrying
<1>8. QED
  BY <1>2, <1>3, <1>5, <1>6, <1>7

\* A task that ends without a launch leaves its alert to whoever carries it.
LEMMA EndsQuietly ==
    ASSUME IInv, NEW m \in Messages, task[m] \in Holding, NEW s \in {"dropped", "failed"},
           End(m, s), UNCHANGED <<broker, redis, launched>>, NEW ts \in SUBSET Traces,
           trace' = [trace EXCEPT ![m] = @ \cup ts], faults' \in 0 .. MaxFaults,
           s = "dropped" => "DROPPED" \in ts
    PROVE  IInv'
<1>1. launched' \in [Alerts -> Nat] /\ s \in Ended
  BY DEF IInv, Types, Ended
<1>2. /\ Types' /\ QueueInv' /\ SlotsInv'
      /\ \A n \in Messages : MessageInv(n)'
      /\ ~Carrying(m)' /\ \A n \in Messages \ {m} : Carrying(n)' <=> Carrying(n)
  BY <1>1, EndedTask
<1>3. \A a \in Alerts : OnceInv(a)'
  <2>1. \A n \in Messages : Carrying(n)' => Carrying(n)
    BY <1>2
  <2>2. QED
    BY <2>1, SameOnce DEF broker, redis
<1>4. QED
  BY <1>2, <1>3 DEF IInv

\* A task that launches its alert was the one to carry it: nobody carries it
\* afterwards.
LEMMA EndsLaunching ==
    ASSUME IInv, NEW m \in Messages, task[m] \in Holding, Carrying(m),
           NEW s \in {"parked", "executed"}, End(m, s), Launch(m),
           UNCHANGED <<broker, redis, faults>>, NEW ts \in SUBSET Traces,
           trace' = [trace EXCEPT ![m] = @ \cup ts],
           s = "parked" => "PENDING" \in ts,
           s = "executed" => "EXECUTED" \in trace[m]
    PROVE  IInv'
<1>1. topic[m] \in Alerts
  BY DEF IInv, MessageInv
<1>2. /\ launched' \in [Alerts -> Nat] /\ launched'[topic[m]] = launched[topic[m]] + 1
      /\ \A a \in Alerts \ {topic[m]} : launched'[a] = launched[a]
  BY <1>1 DEF IInv, Types, Launch
<1>3. /\ Types' /\ QueueInv' /\ SlotsInv'
      /\ \A n \in Messages : MessageInv(n)'
      /\ ~Carrying(m)' /\ \A n \in Messages \ {m} : Carrying(n)' <=> Carrying(n)
  <2>1. s \in Ended /\ faults' \in 0 .. MaxFaults
    BY DEF IInv, Types, Ended
  <2>2. QED
    BY <1>2, <2>1, EndedTask
<1>4. ASSUME NEW a \in Alerts PROVE OnceInv(a)'
  <2> SUFFICES ASSUME a \notin uncertain' PROVE OnceInv(a)'
    BY DEF OnceInv
  <2>1. /\ OnceInv(a) /\ a \notin uncertain /\ launched[a] \in Nat
        /\ UNCHANGED <<topic, dedup>>
    BY DEF IInv, Types, broker, redis
  <2>2. Carriers(a)' = Carriers(a) \ {m}
    BY <1>3, <2>1 DEF Carriers
  <2>3. CASE topic[m] # a
    <3>1. Carriers(a)' = Carriers(a) /\ launched'[a] = launched[a]
      BY <1>2, <2>2, <2>3 DEF Carriers
    <3>2. QED
      BY <2>1, <3>1 DEF OnceInv
  <2>4. CASE topic[m] = a
    <3>1. m \in Carriers(a)
      BY <2>4 DEF Carriers
    <3>2. launched[a] = 0 /\ Carriers(a) \ {m} = {} /\ a \in dedup
      BY <2>1, <3>1 DEF OnceInv
    <3>3. QED
      BY <1>2, <2>1, <2>2, <2>4, <3>2 DEF OnceInv
  <2>5. QED
    BY <2>3, <2>4
<1>5. QED
  BY <1>3, <1>4 DEF IInv

LEMMA ParkStep == ASSUME IInv, NEW m \in Messages, Park(m) PROVE IInv'
<1>1. task[m] \in Holding /\ Carrying(m) /\ {"PENDING"} \in SUBSET Traces
  BY DEF Park, Holding, Carrying, Traces
<1>2. QED
  BY <1>1, EndsLaunching DEF Park, Leave

LEMMA ExecuteStep == ASSUME IInv, NEW m \in Messages, Execute(m) PROVE IInv'
<1>1. task[m] \in Holding /\ Carrying(m) /\ {} \in SUBSET Traces
  BY DEF Execute, Holding, Carrying
<1>2. trace' = [trace EXCEPT ![m] = @ \cup {}]
  BY DEF Execute, IInv, Types
<1>3. "EXECUTED" \in trace[m]
  BY DEF Execute, IInv, MessageInv
<1>4. QED
  BY <1>1, <1>2, <1>3, EndsLaunching DEF Execute

LEMMA DropStep == ASSUME IInv, NEW m \in Messages, Drop(m) PROVE IInv'
<1>1. task[m] \in Holding /\ {"DROPPED"} \in SUBSET Traces /\ faults' \in 0 .. MaxFaults
  BY DEF Drop, Holding, Traces, IInv, Types
<1>2. QED
  BY <1>1, EndsQuietly DEF Drop, Leave

\* An exception gives the slot back and promises nothing of the row.
LEMMA FailStep == ASSUME IInv, NEW m \in Messages, Fail(m) PROVE IInv'
<1>1. /\ task[m] \in Holding /\ faults' \in 0 .. MaxFaults
      /\ End(m, "failed") /\ UNCHANGED <<broker, launched, redis>>
  BY FaultCount DEF Fail
<1>2. PICK ts \in {{}, Writes(m)} : trace' = [trace EXCEPT ![m] = @ \cup ts]
  BY DEF Fail
<1>3. ts \in SUBSET Traces
  BY DEF Writes, Traces
<1>4. QED
  BY <1>1, <1>2, <1>3, EndsQuietly

LEMMA NodeStep == ASSUME IInv, NEW m \in Messages, Node(m) PROVE IInv'
  BY CheckDedupStep, AnalyseStep, EnrichStep, GenerateStep, PromptStep, ParkStep, PublishStep,
     ExecuteStep, DropStep DEF Node

-----------------------------------------------------------------------------
(* Redis, and the theorems.                                                *)

\* An alert whose key is gone is uncertain; the cache bears on no task.
LEMMA ExpiryStep == ASSUME IInv, (\E a \in Alerts : KeyExpires(a)) \/ CacheExpires PROVE IInv'
<1>1. UNCHANGED <<broker, semaphore, state, settings, results>>
  BY DEF KeyExpires, CacheExpires
<1>2. /\ dedup' \subseteq Alerts /\ uncertain' \subseteq Alerts
      /\ cache' \in Playbooks \cup {NoPlaybook} /\ faults' \in 0 .. MaxFaults
      /\ uncertain \subseteq uncertain' /\ dedup \ dedup' \subseteq uncertain'
  BY FaultCount DEF KeyExpires, CacheExpires, IInv, Types
<1>3. Types'
  BY <1>1, <1>2 DEF IInv, Types, broker, semaphore, state, settings, results
<1>4. QueueInv' /\ SlotsInv'
  BY <1>1, SameQueue, SameSlots DEF semaphore, state
<1>5. \A n \in Messages : MessageInv(n)'
  BY <1>1, SameMessage DEF broker, state, results
<1>6. ASSUME NEW a \in Alerts, a \notin uncertain' PROVE OnceInv(a)'
  <2>1. OnceInv(a) /\ a \notin uncertain /\ (a \in dedup => a \in dedup')
    BY <1>2, <1>6 DEF IInv
  <2>2. Carriers(a)' = Carriers(a) /\ launched' = launched
    BY <1>1 DEF Carriers, Carrying, broker, state, results
  <2>3. QED
    BY <2>1, <2>2 DEF OnceInv
<1>7. \A a \in Alerts : OnceInv(a)'
  BY <1>6 DEF OnceInv
<1>8. QED
  BY <1>3, <1>4, <1>5, <1>7 DEF IInv

LEMMA StutterStep == ASSUME IInv, UNCHANGED vars PROVE IInv'
<1>1. UNCHANGED <<broker, semaphore, state, redis, results, faults>>
  BY DEF vars
<1>2. Types'
  BY <1>1 DEF IInv, Types, broker, semaphore, state, redis, settings, results
<1>3. QueueInv' /\ SlotsInv'
  BY <1>1, SameQueue, SameSlots DEF semaphore, state
<1>4. \A n \in Messages : MessageInv(n)'
  BY <1>1, SameMessage DEF broker, state, results
<1>5. \A a \in Alerts : OnceInv(a)'
  BY <1>1, SameOnce DEF Carrying, broker, state, redis, results
<1>6. QED
  BY <1>2, <1>3, <1>4, <1>5 DEF IInv

LEMMA NextIInv == IInv /\ [Next]_vars => IInv'
<1> SUFFICES ASSUME IInv, [Next]_vars PROVE IInv'
  OBVIOUS
<1>1. CASE \E w \in Workers : Fetch(w) \/ AutoCommit(w) \/ WorkerFails(w)
  BY <1>1, FetchStep, WorkerStep
<1>2. CASE \E m \in Messages : Acquire(m) \/ Node(m) \/ Fail(m)
  BY <1>2, AcquireStep, NodeStep, FailStep
<1>3. CASE (\E a \in Alerts : KeyExpires(a)) \/ CacheExpires
  BY <1>3, ExpiryStep
<1>4. CASE Crash \/ Shutdown
  BY <1>4, RestartStep
<1>5. CASE UNCHANGED vars
  BY <1>5, StutterStep
<1>6. QED
  BY <1>1, <1>2, <1>3, <1>4, <1>5 DEF Next

\* The inductive invariant holds in every state of the orchestrator.
THEOREM PipelineInvariant == Spec => []IInv
<1>1. Init => IInv
  BY InitIInv
<1>2. IInv /\ [Next]_vars => IInv'
  BY NextIInv
<1>3. QED
  BY <1>1, <1>2, PTL DEF Spec

\* Every variable keeps its type; the semaphore's value is never negative and
\* never above PIPELINE_MAX_CONCURRENT_ALERTS.
THEOREM PipelineTypes == Spec => []TypeOK
<1>1. IInv => TypeOK
  <2> SUFFICES ASSUME IInv PROVE TypeOK
    OBVIOUS
  <2>1. Cardinality(InGraph) \in Nat
    BY FS_CardinalityType DEF IInv, SlotsInv
  <2>2. limit \in Nat
    BY PipelineAssumption DEF IInv, Types
  <2>3. free \in 0 .. limit
    BY <2>1, <2>2 DEF IInv, SlotsInv
  <2>4. QED
    BY <2>3 DEF IInv, Types, QueueInv, TypeOK
<1>2. QED
  BY <1>1, PipelineInvariant, PTL

\* The slots the semaphore has given out are those of the tasks in the graph,
\* for any number of tasks, failures and restarts: _handle never keeps one.
THEOREM SlotsReturn == Spec => []SlotsAccounted
<1>1. IInv => SlotsAccounted
  BY DEF IInv, SlotsInv, InGraph, SlotsAccounted
<1>2. QED
  BY <1>1, PipelineInvariant, PTL

\* However often an alert is delivered, it is reviewed or executed once while
\* Redis answers and remembers.
THEOREM LaunchedAtMostOnce == Spec => []LaunchedOnce
<1>1. IInv => LaunchedOnce
  BY DEF IInv, OnceInv, LaunchedOnce
<1>2. QED
  BY <1>1, PipelineInvariant, PTL

\* No message is passed over by its worker, and none is lost that Kafka would
\* deliver again, for any partitions, crashes and shutdowns.
THEOREM NothingPassedOver == Spec => []MessagesAccounted
<1>1. IInv => MessagesAccounted
  BY DEF IInv, MessageInv, MessagesAccounted
<1>2. QED
  BY <1>1, PipelineInvariant, PTL

\* A handling that ended without an exception left its row in the database.
THEOREM EndsRecorded == Spec => []EndsOnRecord
<1>1. IInv => EndsOnRecord
  BY DEF IInv, MessageInv, EndsOnRecord
<1>2. QED
  BY <1>1, PipelineInvariant, PTL

=============================================================================
