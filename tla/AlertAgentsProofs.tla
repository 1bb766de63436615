-------------------------- MODULE AlertAgentsProofs --------------------------
(***************************************************************************)
(* Safety of AlertAgents for any tasks, alerts, sources, verdicts, slots   *)
(* and failures.  The inductive invariant has a part for each thing that   *)
(* the tasks share: Redis's client, the windows of recent alerts, what     *)
(* passes for evidence, and the slots of the model; each part holds the    *)
(* types of its own variables.                                             *)
(***************************************************************************)
EXTENDS AlertAgents, FiniteSetTheorems, TLAPS

TaskTypes ==
    /\ alert \in [Tasks -> Alerts]
    /\ live \subseteq Sources
    /\ stage \in [Tasks -> Stages]

\* Who creates the client holds the lock, and no client exists yet.
ClientInv ==
    /\ connected \in BOOLEAN
    /\ pools \in 0 .. 1 /\ (pools = 1 => connected)
    /\ locker \in Callers \cup {Nobody}
    /\ getting \in [Callers -> {"idle", "waiting", "creating", "ready", "failed"}]
    /\ \A c \in Callers : getting[c] = "creating" => locker = c /\ ~connected
    /\ faults \in 0 .. MaxFaults

\* An id that was not missed stays in the window of its rule.
WindowInv ==
    /\ duplicate \in [Tasks -> BOOLEAN]
    /\ related \in [Tasks -> SUBSET Ids]
    /\ dedup \subseteq Ids
    /\ burst \in [Rules -> SUBSET Ids]
    /\ missed \subseteq Ids
    /\ \A t \in Tasks : PastBurst(t) /\ alert[t].id \notin missed
                            => alert[t].id \in burst[alert[t].rule]
    /\ SecondSeesFirst

\* What a lookup has is nothing, or what the source says of its subject.
LookupInv(t, s) ==
    Asked(t, s) =>
        /\ points[t][s] \in {0, Verdict[s][Subject(t, s)]}
        /\ lookup[t][s] = "answered" => points[t][s] = Verdict[s][Subject(t, s)]

EvidenceInv ==
    /\ raised \in [Tasks -> BOOLEAN]
    /\ lookup \in [Tasks -> [Cached -> {"todo", "asking", "answered", "done"}]]
    /\ points \in [Tasks -> [Cached -> 0 .. 100]]
    /\ malicious \subseteq Indicators
    /\ answers \in [Cached -> [Indicators -> NotCached .. 100]]
    /\ \A t \in Tasks, s \in Cached : LookupInv(t, s)
    /\ \A t \in Tasks : stage[t] = "lookups" => alert[t].ioc # "none"
    /\ \A t \in Tasks : stage[t] = "mark" =>
           alert[t].source # "none" /\ Evidence(alert[t]) >= Threshold
    /\ MarkIsEarned

\* Every call under way holds one slot, and a task that may still call the
\* model has an attempt left.
Calling == {t \in Tasks : stage[t] = "calling"}

ModelInv ==
    /\ attempt \in [Tasks -> 0 .. MaxAttempts]
    /\ free \in Nat
    /\ IsFiniteSet(Calling) /\ free + Cardinality(Calling) = Slots
    /\ \A t \in Tasks : stage[t] \notin {"calling", "store", "done"} => attempt[t] < MaxAttempts

PlaybookTypes ==
    /\ playbook \in [Tasks -> {"none", "template", "cached", "model", "fallback"}]
    /\ contexts \subseteq Topics
    /\ playbooks \subseteq Topics

IInv == TaskTypes /\ ClientInv /\ WindowInv /\ EvidenceInv /\ ModelInv /\ PlaybookTypes

-----------------------------------------------------------------------------

\* Every task is at its first await, and Redis has not been reached yet.
LEMMA InitIInv == Init => IInv
<1> SUFFICES ASSUME Init PROVE IInv
  OBVIOUS
<1> USE AgentsAssumption
<1>1. TaskTypes
  BY DEF Init, TaskTypes, Stages, AtRedis
<1>2. ClientInv
  <2>1. pools \in 0 .. 1 /\ pools # 1 /\ faults \in 0 .. MaxFaults
    BY DEF Init
  <2>2. QED
    BY <2>1 DEF Init, ClientInv
<1>3. WindowInv
  BY DEF Init, WindowInv, PastBurst, SecondSeesFirst
<1>4. EvidenceInv
  <2>1. answers \in [Cached -> [Indicators -> NotCached .. 100]]
    BY DEF Init, NotCached
  <2>2. \A t \in Tasks, s \in Cached : LookupInv(t, s)
    BY DEF Init, LookupInv
  <2>3. MarkIsEarned
    BY DEF Init, MarkIsEarned
  <2>4. QED
    BY <2>1, <2>2, <2>3 DEF Init, EvidenceInv
<1>5. ModelInv
  <2>1. Calling = {}
    BY DEF Init, Calling
  <2>2. QED
    BY <2>1, FS_EmptySet DEF Init, ModelInv, MaxAttempts
<1>6. PlaybookTypes
  BY DEF Init, PlaybookTypes
<1>7. QED
  BY <1>1, <1>2, <1>3, <1>4, <1>5, <1>6 DEF IInv

-----------------------------------------------------------------------------
(* What a step leaves alone stays as it is.                                *)

\* A task goes to another await, the others stay at theirs.
LEMMA GotoStage ==
    ASSUME TaskTypes, NEW t \in Tasks, NEW s \in Stages, Goto(t, s), UNCHANGED input
    PROVE  /\ TaskTypes'
           /\ stage'[t] = s
           /\ \A u \in Tasks \ {t} : stage'[u] = stage[u]
  BY DEF TaskTypes, Goto, input

\* A step that neither calls Redis nor counts a failure.
LEMMA ClientFrame ==
    ASSUME ClientInv, UNCHANGED client, UNCHANGED faults
    PROVE  ClientInv'
  BY DEF ClientInv, client

\* No task passes its check of the window.
LEMMA WindowFrame ==
    ASSUME WindowInv, UNCHANGED <<alert, duplicate, related, windows>>,
           \A t \in Tasks : PastBurst(t)' => PastBurst(t)
    PROVE  WindowInv'
<1>1. SecondSeesFirst'
  BY DEF WindowInv, SecondSeesFirst, windows
<1>2. QED
  BY <1>1 DEF WindowInv, windows

\* No task begins its lookups, or is about to mark an address.
LEMMA EvidenceFrame ==
    ASSUME EvidenceInv, UNCHANGED <<input, raised, intel, malicious, answers>>,
           \A t \in Tasks : stage'[t] \in {"lookups", "mark"} => stage'[t] = stage[t]
    PROVE  EvidenceInv'
<1>1. MarkIsEarned'
  BY DEF EvidenceInv, MarkIsEarned, Earned, input
<1>2. \A t \in Tasks, s \in Cached : LookupInv(t, s)'
  BY DEF EvidenceInv, LookupInv, Asked, Subject, input, intel
<1>3. QED
  BY <1>1, <1>2 DEF EvidenceInv, input, intel

\* No task begins or ends a call, or comes back to the model.
LEMMA ModelFrame ==
    ASSUME ModelInv, UNCHANGED model,
           \A t \in Tasks : stage'[t] = "calling" <=> stage[t] = "calling",
           \A t \in Tasks : stage'[t] \notin {"calling", "store", "done"}
                                => stage[t] \notin {"calling", "store", "done"}
    PROVE  ModelInv'
<1>1. Calling' = Calling
  BY DEF Calling
<1>2. QED
  BY <1>1 DEF ModelInv, model

\* A task that is past its analysis goes on to an await that neither begins its
\* lookups nor a call, nor follows one.
Onward == {"memoise", "waiting", "cache", "context", "done"}

\* What an await of the agents is followed by, where nothing else is shared.
LEMMA OnwardFrames ==
    ASSUME TaskTypes, NEW t \in Tasks, NEW s \in Onward, Goto(t, s), UNCHANGED input,
           stage[t] \notin {"dedup", "burst", "calling", "store", "done"}
    PROVE  /\ TaskTypes'
           /\ \A u \in Tasks : PastBurst(u)' => PastBurst(u)
           /\ \A u \in Tasks : stage'[u] \in {"lookups", "mark"} => stage'[u] = stage[u]
           /\ \A u \in Tasks : stage'[u] = "calling" <=> stage[u] = "calling"
           /\ \A u \in Tasks : stage'[u] \notin {"calling", "store", "done"}
                                   => stage[u] \notin {"calling", "store", "done"}
<1>1. s \in Stages
  BY DEF Onward, Stages, AtRedis
<1>2. /\ TaskTypes' /\ stage'[t] = s
      /\ \A u \in Tasks \ {t} : stage'[u] = stage[u]
  BY <1>1, GotoStage
<1>3. QED
  BY <1>2 DEF Onward, PastBurst

-----------------------------------------------------------------------------
(* RedisClient.                                                            *)

\* A caller is a pair, so it is not the mark of a free lock.
LEMMA CallerIsSomebody == \A c \in Callers : c # Nobody
  BY DEF Callers, Nobody

\* The agent and the lookups of a task are callers.
LEMMA TaskCalls == \A t \in Tasks : Agent(t) \in Callers /\ \A s \in Cached : <<t, s>> \in Callers
  BY DEF Callers, Agent

\* A caller that fails counts a failure, and there are no more than the bound.
LEMMA FaultCount ==
    ASSUME ClientInv, Fault
    PROVE  faults' \in 0 .. MaxFaults
  BY AgentsAssumption DEF ClientInv, Fault

\* A command leaves the client and the lock alone.
LEMMA CommandClient ==
    ASSUME ClientInv, NEW c \in Callers, NEW ok \in BOOLEAN, Command(c, ok)
    PROVE  ClientInv'
<1>1. faults' \in 0 .. MaxFaults
  BY FaultCount DEF Command, ClientInv
<1>2. QED
  BY <1>1 DEF Command, ClientInv

\* What a command leaves is what it was to write, or what there was.
LEMMA WrittenCases ==
    ASSUME NEW c, NEW ok \in BOOLEAN, NEW old, NEW new, NEW x \in Written(c, ok, old, new)
    PROVE  (x = old \/ x = new) /\ (ok => x = new)
  BY DEF Written

\* RedisClient._get: only who holds the lock creates the client.
LEMMA GetClientStep ==
    ASSUME IInv, NEW c \in Callers, GetClient(c)
    PROVE  IInv'
<1>1. ClientInv'
  <2>1. CASE WaitForLock(c)
    BY <2>1 DEF WaitForLock, IInv, ClientInv
  <2>2. CASE TakeLock(c)
    BY <2>2, CallerIsSomebody DEF TakeLock, IInv, ClientInv
  <2>3. CASE CreateClient(c)
    <3>1. faults' \in 0 .. MaxFaults
      BY <2>3, FaultCount DEF CreateClient, IInv, ClientInv
    <3>2. locker = c /\ ~connected /\ pools # 1
      BY <2>3 DEF CreateClient, IInv, ClientInv
    <3>3. getting' \in [Callers -> {"idle", "waiting", "creating", "ready", "failed"}]
      BY <2>3 DEF CreateClient, IInv, ClientInv
    <3>4. \A d \in Callers : getting'[d] # "creating"
      BY <2>3, <3>2 DEF CreateClient, IInv, ClientInv
    <3>5. pools' \in 0 .. 1
      BY <2>3, <3>2 DEF CreateClient, IInv, ClientInv
    <3>6. connected' \in BOOLEAN /\ (pools' = 1 => connected')
      BY <2>3, <3>2 DEF CreateClient, IInv, ClientInv
    <3>7. QED
      BY <2>3, <3>1, <3>3, <3>4, <3>5, <3>6 DEF CreateClient, ClientInv
  <2>4. QED
    BY <2>1, <2>2, <2>3 DEF GetClient
<1>2. TaskTypes' /\ PlaybookTypes'
  BY DEF GetClient, IInv, TaskTypes, PlaybookTypes, input, caches
<1>3. WindowInv'
  BY WindowFrame DEF GetClient, IInv, PastBurst, input, analysis
<1>4. EvidenceInv'
  BY EvidenceFrame DEF GetClient, IInv, analysis, caches
<1>5. ModelInv'
  BY ModelFrame DEF GetClient, IInv
<1>6. QED
  BY <1>1, <1>2, <1>3, <1>4, <1>5 DEF IInv

-----------------------------------------------------------------------------
(* LogAnalysisAgent.                                                       *)

\* The alert of a task has an id, a rule, a topic and a source.
LEMMA AlertFields ==
    ASSUME TaskTypes, NEW t \in Tasks
    PROVE  /\ alert[t].id \in Ids /\ alert[t].rule \in Rules /\ alert[t].topic \in Topics
           /\ alert[t].source \in Indicators \cup {"none"}
           /\ alert[t].ioc \in Indicators \cup {"none"}
  BY AgentsAssumption DEF TaskTypes, Ids, Rules, Topics

LEMMA CheckDedupStep ==
    ASSUME IInv, NEW t \in Tasks, CheckDedup(t)
    PROVE  IInv'
<1>1. PICK ok \in BOOLEAN :
        /\ stage[t] = "dedup" /\ Command(Agent(t), ok)
        /\ dedup' \in Written(Agent(t), ok, dedup, dedup \cup {alert[t].id})
        /\ duplicate' = [duplicate EXCEPT ![t] = ok /\ alert[t].id \in dedup]
        /\ Goto(t, "burst")
        /\ UNCHANGED <<input, related, raised, intel, model, playbook, burst, missed, malicious, caches>>
  BY DEF CheckDedup
<1>2. TaskTypes' /\ stage'[t] = "burst" /\ \A u \in Tasks \ {t} : stage'[u] = stage[u]
  BY <1>1, GotoStage DEF IInv, Stages, AtRedis
<1>3. ClientInv'
  BY <1>1, CommandClient, TaskCalls DEF IInv
<1>4. WindowInv'
  <2>1. dedup' \subseteq Ids
    BY <1>1, WrittenCases, AlertFields DEF IInv, WindowInv
  <2>2. duplicate' \in [Tasks -> BOOLEAN]
    BY <1>1 DEF IInv, WindowInv
  <2>3. \A u \in Tasks : PastBurst(u)' <=> PastBurst(u)
    BY <1>1, <1>2 DEF PastBurst
  <2>4. SecondSeesFirst'
    BY <1>1, <2>3 DEF IInv, WindowInv, SecondSeesFirst, input
  <2>5. QED
    BY <1>1, <2>1, <2>2, <2>3, <2>4 DEF IInv, WindowInv, input
<1>5. EvidenceInv'
  BY <1>1, <1>2, EvidenceFrame DEF IInv, caches
<1>6. ModelInv'
  BY <1>1, <1>2, ModelFrame DEF IInv
<1>7. PlaybookTypes'
  BY <1>1 DEF IInv, PlaybookTypes, caches
<1>8. QED
  BY <1>2, <1>3, <1>4, <1>5, <1>6, <1>7 DEF IInv

\* Who adds its id second reads the id of the first.
LEMMA CheckBurstStep ==
    ASSUME IInv, NEW t \in Tasks, CheckBurst(t)
    PROVE  IInv'
<1> DEFINE added == [burst EXCEPT ![alert[t].rule] = @ \cup {alert[t].id}]
<1>1. PICK ok \in BOOLEAN :
        /\ stage[t] = "burst" /\ Command(Agent(t), ok)
        /\ burst' \in Written(Agent(t), ok, burst, added)
        /\ related' = [related EXCEPT ![t] = IF ok THEN burst[alert[t].rule] \ {alert[t].id} ELSE {}]
        /\ missed' = IF ok THEN missed ELSE missed \cup {alert[t].id}
        /\ Goto(t, "reputation")
        /\ UNCHANGED <<input, duplicate, raised, intel, model, playbook, dedup, malicious, caches>>
  BY DEF CheckBurst
<1>2. TaskTypes' /\ stage'[t] = "reputation" /\ \A u \in Tasks \ {t} : stage'[u] = stage[u]
  BY <1>1, GotoStage DEF IInv, Stages, AtRedis
<1>3. ClientInv'
  BY <1>1, CommandClient, TaskCalls DEF IInv
<1>4. WindowInv'
  <2>1. /\ alert' = alert /\ alert[t].id \in Ids /\ alert[t].rule \in Rules
        /\ \A u \in Tasks : alert[u].rule \in Rules
    BY <1>1, AlertFields DEF input, IInv
  <2>2. added \in [Rules -> SUBSET Ids] /\ alert[t].id \in added[alert[t].rule]
    <3>1. burst[alert[t].rule] \cup {alert[t].id} \in SUBSET Ids
      BY <2>1 DEF IInv, WindowInv
    <3>2. QED
      BY <2>1, <3>1 DEF IInv, WindowInv
  <2>3. \A r \in Rules : burst[r] \subseteq added[r]
    BY <2>1 DEF IInv, WindowInv
  <2>4. (burst' = burst \/ burst' = added) /\ (ok => burst' = added)
    BY <1>1, WrittenCases
  <2> HIDE DEF added
  <2>5. burst' \in [Rules -> SUBSET Ids] /\ \A r \in Rules : burst[r] \subseteq burst'[r]
    BY <2>2, <2>3, <2>4 DEF IInv, WindowInv
  <2>6. missed' \subseteq Ids /\ missed \subseteq missed'
    BY <1>1, <2>1 DEF IInv, WindowInv
  <2>7. related' \in [Tasks -> SUBSET Ids] /\ \A u \in Tasks \ {t} : related'[u] = related[u]
    <3>1. (IF ok THEN burst[alert[t].rule] \ {alert[t].id} ELSE {}) \in SUBSET Ids
      BY <2>1 DEF IInv, WindowInv
    <3>2. QED
      BY <1>1, <3>1 DEF IInv, WindowInv
  <2>8. ASSUME NEW u \in Tasks, PastBurst(u)', alert[u].id \notin missed'
        PROVE  alert[u].id \in burst'[alert[u].rule]
    <3>1. CASE u = t
      BY <1>1, <2>2, <2>4, <2>8, <3>1
    <3>2. CASE u # t
      BY <1>2, <2>1, <2>5, <2>6, <2>8, <3>2 DEF IInv, WindowInv, PastBurst
    <3>3. QED
      BY <3>1, <3>2
  <2>9. ASSUME NEW u \in Tasks, u # t, PastBurst(u), alert[u].rule = alert[t].rule,
               alert[u].id # alert[t].id, {alert[u].id, alert[t].id} \cap missed' = {}
        PROVE  alert[u].id \in related'[t]
    <3>1. alert[u].id \in burst[alert[t].rule]
      BY <2>6, <2>9 DEF IInv, WindowInv
    <3>2. ok
      BY <1>1, <2>9
    <3>3. related'[t] = burst[alert[t].rule] \ {alert[t].id}
      BY <1>1, <3>2 DEF IInv, WindowInv
    <3>4. QED
      BY <2>9, <3>1, <3>3
  <2>10. \A u \in Tasks \ {t} : PastBurst(u)' <=> PastBurst(u)
    BY <1>2 DEF PastBurst
  <2>11. SecondSeesFirst'
    <3> SUFFICES ASSUME NEW u \in Tasks, NEW v \in Tasks, PastBurst(u)', PastBurst(v)',
                        alert[u].rule = alert[v].rule, alert[u].id # alert[v].id,
                        {alert[u].id, alert[v].id} \cap missed' = {}
                 PROVE  alert[u].id \in related'[v] \/ alert[v].id \in related'[u]
      BY <2>1 DEF SecondSeesFirst
    <3>1. CASE u = t
      BY <2>9, <2>10, <3>1
    <3>2. CASE v = t
      BY <2>9, <2>10, <3>2
    <3>3. CASE u # t /\ v # t
      <4>1. {alert[u].id, alert[v].id} \cap missed = {}
        BY <2>6
      <4>2. QED
        BY <2>7, <2>10, <3>3, <4>1 DEF IInv, WindowInv, SecondSeesFirst
    <3>4. QED
      BY <3>1, <3>2, <3>3
  <2>12. QED
    BY <1>1, <2>1, <2>5, <2>6, <2>7, <2>8, <2>11 DEF IInv, WindowInv
<1>5. EvidenceInv'
  BY <1>1, <1>2, EvidenceFrame DEF IInv, caches
<1>6. ModelInv'
  BY <1>1, <1>2, ModelFrame DEF IInv
<1>7. PlaybookTypes'
  BY <1>1 DEF IInv, PlaybookTypes, caches
<1>8. QED
  BY <1>2, <1>3, <1>4, <1>5, <1>6, <1>7 DEF IInv

\* A template's playbook is a playbook.
LEMMA TemplateTypes ==
    ASSUME PlaybookTypes, NEW t \in Tasks, FromTemplate(t), UNCHANGED caches
    PROVE  PlaybookTypes'
  BY DEF PlaybookTypes, FromTemplate, caches

\* The score is raised for a source that is known, and known sources earned it.
LEMMA CheckReputationStep ==
    ASSUME IInv, NEW t \in Tasks, CheckReputation(t)
    PROVE  IInv'
<1>1. /\ stage[t] = "reputation"
      /\ Goto(t, AfterAnalysis(t)) /\ FromTemplate(t)
      /\ UNCHANGED <<input, duplicate, related, intel, model, windows, malicious, caches>>
  BY DEF CheckReputation
<1>2. \/ /\ alert[t].source = "none"
         /\ UNCHANGED <<raised, client, faults>>
      \/ \E ok \in BOOLEAN : Command(Agent(t), ok) /\ Rescored(t, ok /\ alert[t].source \in malicious)
  BY DEF CheckReputation
<1>3. /\ AfterAnalysis(t) \in {"dropped", "lookups", "done", "cache"}
      /\ AfterAnalysis(t) = "lookups" => alert[t].ioc # "none"
  BY DEF AfterAnalysis, PlaybookStage
<1>4. /\ TaskTypes' /\ stage'[t] = AfterAnalysis(t)
      /\ \A u \in Tasks \ {t} : stage'[u] = stage[u]
  BY <1>1, <1>3, GotoStage DEF IInv, Stages, AtRedis
<1>5. ClientInv'
  BY <1>2, ClientFrame, CommandClient, TaskCalls DEF IInv
<1>6. WindowInv'
  BY <1>1, <1>4, WindowFrame DEF IInv, input, PastBurst
<1>7. EvidenceInv'
  <2>1. /\ raised' \in [Tasks -> BOOLEAN]
        /\ \A u \in Tasks : raised'[u] => raised[u] \/ alert[u].source \in malicious
    <3>1. CASE UNCHANGED raised
      BY <3>1 DEF IInv, EvidenceInv
    <3>2. CASE \E ok \in BOOLEAN : Rescored(t, ok /\ alert[t].source \in malicious)
      BY <3>2 DEF IInv, EvidenceInv, Rescored
    <3>3. QED
      BY <1>2, <3>1, <3>2
  <2>2. MarkIsEarned'
    BY <1>1, <2>1 DEF IInv, EvidenceInv, MarkIsEarned, Earned, input, caches
  <2>3. \A u \in Tasks, s \in Cached : LookupInv(u, s)'
    BY <1>1 DEF IInv, EvidenceInv, LookupInv, Asked, Subject, input, intel
  <2>4. \A u \in Tasks : /\ stage'[u] = "lookups" => alert'[u].ioc # "none"
                         /\ stage'[u] = "mark" =>
                                alert'[u].source # "none" /\ Evidence(alert'[u]) >= Threshold
    BY <1>1, <1>3, <1>4 DEF IInv, EvidenceInv, input
  <2>5. QED
    BY <1>1, <2>1, <2>2, <2>3, <2>4 DEF IInv, EvidenceInv, input, intel, caches
<1>8. ModelInv'
  BY <1>1, <1>3, <1>4, ModelFrame DEF IInv
<1>9. PlaybookTypes'
  BY <1>1, TemplateTypes DEF IInv
<1>10. QED
  BY <1>4, <1>5, <1>6, <1>7, <1>8, <1>9 DEF IInv

-----------------------------------------------------------------------------
(* ThreatIntelAgent and its lookups.                                       *)

\* One value of a two-dimensional table is replaced.
LEMMA TableStep ==
    ASSUME NEW S, NEW T, NEW V, NEW f \in [S -> [T -> V]], NEW x \in S, NEW y \in T, NEW v \in V
    PROVE  /\ [f EXCEPT ![x][y] = v] \in [S -> [T -> V]]
           /\ [f EXCEPT ![x][y] = v][x][y] = v
           /\ \A w \in S, z \in T : w # x \/ z # y => [f EXCEPT ![x][y] = v][w][z] = f[w][z]
<1>1. f[x] \in [T -> V] /\ [f[x] EXCEPT ![y] = v] \in [T -> V]
  OBVIOUS
<1>2. [f EXCEPT ![x][y] = v] = [f EXCEPT ![x] = [f[x] EXCEPT ![y] = v]]
  OBVIOUS
<1>3. QED
  BY <1>1, <1>2

\* What a lookup asks of a source is a percentage.
LEMMA VerdictOfSubject ==
    ASSUME TaskTypes, NEW t \in Tasks, NEW s \in Cached, Asked(t, s)
    PROVE  /\ Subject(t, s) \in Indicators
           /\ Verdict[s] \in [Indicators -> 0 .. 100]
           /\ Verdict[s][Subject(t, s)] \in 0 .. 100
<1>1. Subject(t, s) \in Indicators
  BY AlertFields DEF Asked, Subject
<1>2. Verdict[s] \in [Indicators -> 0 .. 100]
  BY AgentsAssumption DEF Sources
<1>3. QED
  BY <1>1, <1>2

\* A step of one lookup leaves the rest of the task, and all other tasks, alone.
LEMMA LookupFrame ==
    ASSUME IInv, UNCHANGED nonIntel, ClientInv',
           lookup' \in [Tasks -> [Cached -> {"todo", "asking", "answered", "done"}]],
           points' \in [Tasks -> [Cached -> 0 .. 100]],
           answers' \in [Cached -> [Indicators -> NotCached .. 100]],
           \A t \in Tasks, s \in Cached : LookupInv(t, s)',
           \A s \in Cached, x \in Indicators : answers'[s][x] \in {NotCached, Verdict[s][x]}
    PROVE  IInv'
<1>1. TaskTypes' /\ PlaybookTypes'
  BY DEF IInv, TaskTypes, PlaybookTypes, nonIntel, input
<1>2. WindowInv'
  BY WindowFrame DEF IInv, nonIntel, input, analysis, PastBurst
<1>3. ModelInv'
  BY ModelFrame DEF IInv, nonIntel
<1>4. MarkIsEarned'
  BY DEF IInv, EvidenceInv, MarkIsEarned, Earned, nonIntel, input, analysis
<1>5. EvidenceInv'
  BY <1>4 DEF IInv, EvidenceInv, nonIntel, input, analysis
<1>6. QED
  BY <1>1, <1>2, <1>3, <1>5 DEF IInv

\* Lookups do not disturb each other.
LEMMA OtherLookups ==
    ASSUME IInv, UNCHANGED input, NEW t \in Tasks, NEW s \in Cached, LookupInv(t, s)',
           \A u \in Tasks, r \in Cached : u # t \/ r # s =>
               lookup'[u][r] = lookup[u][r] /\ points'[u][r] = points[u][r]
    PROVE  \A u \in Tasks, r \in Cached : LookupInv(u, r)'
<1> SUFFICES ASSUME NEW u \in Tasks, NEW r \in Cached PROVE LookupInv(u, r)'
  OBVIOUS
<1>1. CASE u # t \/ r # s
  <2>1. LookupInv(u, r)
    BY DEF IInv, EvidenceInv
  <2>2. QED
    BY <1>1, <2>1 DEF LookupInv, Asked, Subject, input
<1>2. QED
  BY <1>1

\* A cached answer is what the source said.
LEMMA ReadAnswerStep ==
    ASSUME IInv, NEW t \in Tasks, NEW s \in Cached, Asked(t, s), ReadAnswer(t, s)
    PROVE  IInv'
<1> DEFINE known == answers[s][Subject(t, s)]
<1>1. PICK ok \in BOOLEAN :
        /\ lookup[t][s] = "todo" /\ Command(<<t, s>>, ok)
        /\ IF ok /\ known # NotCached
           THEN /\ lookup' = [lookup EXCEPT ![t][s] = "done"]
                /\ points' = [points EXCEPT ![t][s] = known]
           ELSE lookup' = [lookup EXCEPT ![t][s] = "asking"] /\ UNCHANGED points
        /\ UNCHANGED <<nonIntel, answers>>
  BY DEF ReadAnswer
<1>2. ClientInv'
  BY <1>1, CommandClient, TaskCalls DEF IInv
<1>3. /\ Subject(t, s) \in Indicators /\ Verdict[s][Subject(t, s)] \in 0 .. 100
      /\ known # NotCached => known = Verdict[s][Subject(t, s)]
  BY VerdictOfSubject DEF IInv, EvidenceInv, MarkIsEarned
<1> HIDE DEF known
<1>4. PICK v \in {"done", "asking"} : lookup' = [lookup EXCEPT ![t][s] = v]
  BY <1>1
<1>5. /\ lookup' \in [Tasks -> [Cached -> {"todo", "asking", "answered", "done"}]]
      /\ lookup'[t][s] # "answered"
      /\ \A u \in Tasks, r \in Cached : u # t \/ r # s => lookup'[u][r] = lookup[u][r]
  BY <1>4, TableStep DEF IInv, EvidenceInv
<1>6. /\ points' \in [Tasks -> [Cached -> 0 .. 100]]
      /\ points'[t][s] \in {points[t][s], Verdict[s][Subject(t, s)]}
      /\ \A u \in Tasks, r \in Cached : u # t \/ r # s => points'[u][r] = points[u][r]
  <2>1. CASE UNCHANGED points
    BY <2>1 DEF IInv, EvidenceInv
  <2>2. CASE known # NotCached /\ points' = [points EXCEPT ![t][s] = known]
    BY <1>3, <2>2, TableStep DEF IInv, EvidenceInv
  <2>3. QED
    BY <1>1, <2>1, <2>2
<1>7. LookupInv(t, s) /\ UNCHANGED input
  BY <1>1 DEF IInv, EvidenceInv, nonIntel
<1>8. \A u \in Tasks, r \in Cached : LookupInv(u, r)'
  <2>1. points'[t][s] \in {0, Verdict[s][Subject(t, s)]}
    BY <1>6, <1>7 DEF LookupInv
  <2>2. LookupInv(t, s)'
    BY <1>5, <1>7, <2>1 DEF LookupInv, Subject, input
  <2>3. QED
    BY <1>5, <1>6, <1>7, <2>2, OtherLookups
<1>9. QED
  BY <1>1, <1>2, <1>5, <1>6, <1>8, LookupFrame DEF IInv, EvidenceInv, MarkIsEarned

\* A source answers with its verdict, or the lookup ends without one.
LEMMA AskSourceStep ==
    ASSUME IInv, NEW t \in Tasks, NEW s \in Cached, Asked(t, s), AskSource(t, s)
    PROVE  IInv'
<1>1. /\ UNCHANGED <<nonIntel, client, answers, faults>>
      /\ \/ /\ lookup' = [lookup EXCEPT ![t][s] = "answered"]
            /\ points' = [points EXCEPT ![t][s] = Verdict[s][Subject(t, s)]]
         \/ lookup' = [lookup EXCEPT ![t][s] = "done"] /\ UNCHANGED points
  BY DEF AskSource
<1>2. ClientInv'
  BY <1>1, ClientFrame DEF IInv
<1>3. Verdict[s][Subject(t, s)] \in 0 .. 100
  BY VerdictOfSubject DEF IInv
<1>4. LookupInv(t, s) /\ UNCHANGED input
  BY <1>1 DEF IInv, EvidenceInv, nonIntel
<1>5. /\ lookup' \in [Tasks -> [Cached -> {"todo", "asking", "answered", "done"}]]
      /\ \A u \in Tasks, r \in Cached : u # t \/ r # s => lookup'[u][r] = lookup[u][r]
  <2>1. PICK v \in {"answered", "done"} : lookup' = [lookup EXCEPT ![t][s] = v]
    BY <1>1
  <2>2. QED
    BY <2>1, TableStep DEF IInv, EvidenceInv
<1>6. /\ points' \in [Tasks -> [Cached -> 0 .. 100]]
      /\ \A u \in Tasks, r \in Cached : u # t \/ r # s => points'[u][r] = points[u][r]
  <2>1. CASE UNCHANGED points
    BY <2>1 DEF IInv, EvidenceInv
  <2>2. CASE points' = [points EXCEPT ![t][s] = Verdict[s][Subject(t, s)]]
    BY <1>3, <2>2, TableStep DEF IInv, EvidenceInv
  <2>3. QED
    BY <1>1, <2>1, <2>2
<1>7. LookupInv(t, s)'
  <2>1. CASE points' = [points EXCEPT ![t][s] = Verdict[s][Subject(t, s)]]
    <3>1. points'[t][s] = Verdict[s][Subject(t, s)]
      BY <1>3, <2>1, TableStep DEF IInv, EvidenceInv
    <3>2. QED
      BY <1>4, <3>1 DEF LookupInv, Subject, input
  <2>2. CASE lookup' = [lookup EXCEPT ![t][s] = "done"] /\ UNCHANGED points
    <3>1. lookup'[t][s] = "done" /\ points'[t][s] = points[t][s]
      BY <2>2, TableStep DEF IInv, EvidenceInv
    <3>2. QED
      BY <1>4, <3>1 DEF LookupInv, Asked, Subject, input
  <2>3. QED
    BY <1>1, <2>1, <2>2
<1>8. \A u \in Tasks, r \in Cached : LookupInv(u, r)'
  BY <1>4, <1>5, <1>6, <1>7, OtherLookups
<1>9. QED
  BY <1>1, <1>2, <1>5, <1>6, <1>8, LookupFrame DEF IInv, EvidenceInv, MarkIsEarned

\* Only what a source has answered is cached.
LEMMA CacheAnswerStep ==
    ASSUME IInv, NEW t \in Tasks, NEW s \in Cached, Asked(t, s), CacheAnswer(t, s)
    PROVE  IInv'
<1> DEFINE cached == [answers EXCEPT ![s][Subject(t, s)] = points[t][s]]
<1>1. PICK ok \in BOOLEAN :
        /\ lookup[t][s] = "answered" /\ Command(<<t, s>>, ok)
        /\ answers' \in Written(<<t, s>>, ok, answers, cached)
        /\ lookup' = [lookup EXCEPT ![t][s] = "done"]
        /\ UNCHANGED <<nonIntel, points>>
  BY DEF CacheAnswer
<1>2. ClientInv'
  BY <1>1, CommandClient, TaskCalls DEF IInv
<1>3. LookupInv(t, s) /\ UNCHANGED input
  BY <1>1 DEF IInv, EvidenceInv, nonIntel
<1>4. Subject(t, s) \in Indicators /\ points[t][s] = Verdict[s][Subject(t, s)]
  BY <1>1, <1>3, VerdictOfSubject DEF IInv, LookupInv
<1>5. points[t][s] \in NotCached .. 100
  BY DEF IInv, EvidenceInv, NotCached
<1>6. /\ cached \in [Cached -> [Indicators -> NotCached .. 100]]
      /\ \A r \in Cached, x \in Indicators : cached[r][x] \in {NotCached, Verdict[r][x]}
  BY <1>4, <1>5, TableStep DEF IInv, EvidenceInv, MarkIsEarned
<1>7. answers' = answers \/ answers' = cached
  BY <1>1, WrittenCases
<1> HIDE DEF cached
<1>8. /\ answers' \in [Cached -> [Indicators -> NotCached .. 100]]
      /\ \A r \in Cached, x \in Indicators : answers'[r][x] \in {NotCached, Verdict[r][x]}
  BY <1>6, <1>7 DEF IInv, EvidenceInv, MarkIsEarned
<1>9. /\ lookup' \in [Tasks -> [Cached -> {"todo", "asking", "answered", "done"}]]
      /\ lookup'[t][s] = "done"
      /\ \A u \in Tasks, r \in Cached : u # t \/ r # s => lookup'[u][r] = lookup[u][r]
  BY <1>1, TableStep DEF IInv, EvidenceInv
<1>10. LookupInv(t, s)'
  BY <1>1, <1>3, <1>9 DEF LookupInv, Asked, Subject, input
<1>11. \A u \in Tasks, r \in Cached : LookupInv(u, r)'
  BY <1>1, <1>3, <1>9, <1>10, OtherLookups
<1>12. QED
  BY <1>1, <1>2, <1>8, <1>9, <1>11, LookupFrame DEF IInv, EvidenceInv

\* What a task got of a source is at most what the source says of its alert.
LEMMA SaysAtMost ==
    ASSUME IInv, NEW t \in Tasks, NEW s \in Cached, NEW m \in Nat,
           m = IF Subject(t, s) = "none" THEN 0 ELSE Verdict[s][Subject(t, s)]
    PROVE  Says(t, s) \in Nat /\ Says(t, s) <= m
<1>1. CASE Subject(t, s) = "none"
  BY <1>1 DEF Says
<1>2. CASE Subject(t, s) # "none" /\ s \notin live
  BY <1>2 DEF Says
<1>3. CASE Subject(t, s) # "none" /\ s \in live
  <2>1. points[t][s] \in {0, Verdict[s][Subject(t, s)]}
    BY <1>3 DEF IInv, EvidenceInv, LookupInv, Asked
  <2>2. Says(t, s) = points[t][s] /\ m = Verdict[s][Subject(t, s)]
    BY <1>3 DEF Says
  <2>3. QED
    BY <2>1, <2>2
<1>4. QED
  BY <1>1, <1>2, <1>3

\* A score over the threshold is evidence: sources that fail only lower it.
LEMMA ScoreIsEvidence ==
    ASSUME IInv, NEW t \in Tasks, alert[t].ioc # "none", NEW misp \in MispSays(t),
           Score(Says(t, "vt"), misp, Says(t, "otx"), Says(t, "shodan")) >= Threshold
    PROVE  Evidence(alert[t]) >= Threshold
<1> DEFINE a == alert[t]
           says(s, x) == IF x = "none" THEN 0 ELSE Verdict[s][x]
<1>1. a.source \in Indicators \cup {"none"} /\ a.ioc \in Indicators
  BY AlertFields DEF IInv
<1>2. \A s \in Sources, x \in Indicators \cup {"none"} : says(s, x) \in Nat
  BY AgentsAssumption
<1>3. /\ says("vt", a.ioc) \in Nat /\ says("otx", a.ioc) \in Nat
      /\ says("shodan", a.source) \in Nat /\ says("misp", a.ioc) \in Nat
  BY <1>1, <1>2 DEF Sources, Cached
<1>4. Says(t, "vt") \in Nat /\ Says(t, "vt") <= says("vt", a.ioc)
  BY <1>3, SaysAtMost DEF Cached, Subject
<1>5. Says(t, "otx") \in Nat /\ Says(t, "otx") <= says("otx", a.ioc)
  BY <1>3, SaysAtMost DEF Cached, Subject
<1>6. Says(t, "shodan") \in Nat /\ Says(t, "shodan") <= says("shodan", a.source)
  BY <1>3, SaysAtMost DEF Cached, Subject
<1>7. misp \in Nat /\ misp <= says("misp", a.ioc)
  BY <1>1, <1>3 DEF MispSays
<1>8. Evidence(a) = Score(says("vt", a.ioc), says("misp", a.ioc), says("otx", a.ioc),
                          says("shodan", a.source))
  BY DEF Evidence
<1> HIDE DEF says, a
<1>9. Score(Says(t, "vt"), misp, Says(t, "otx"), Says(t, "shodan")) <= Evidence(a)
  BY <1>3, <1>4, <1>5, <1>6, <1>7, <1>8 DEF Score
<1>10. /\ Evidence(a) \in Nat
       /\ Score(Says(t, "vt"), misp, Says(t, "otx"), Says(t, "shodan")) \in Nat
  BY <1>3, <1>4, <1>5, <1>6, <1>7, <1>8 DEF Score
<1>11. QED
  BY <1>9, <1>10 DEF Threshold, a

LEMMA JoinLookupsStep ==
    ASSUME IInv, NEW t \in Tasks, JoinLookups(t)
    PROVE  IInv'
<1>1. /\ stage[t] = "lookups" /\ FromTemplate(t)
      /\ UNCHANGED <<input, analysis, intel, model, client, windows, malicious, caches, faults>>
  BY DEF JoinLookups
<1>2. PICK misp \in MispSays(t) :
        Goto(t, IF alert[t].source # "none"
                   /\ Score(Says(t, "vt"), misp, Says(t, "otx"), Says(t, "shodan")) >= Threshold
                THEN "mark" ELSE PlaybookStage(t))
  BY DEF JoinLookups
<1>3. PICK s \in {"mark", "cache", "done"} :
        /\ Goto(t, s)
        /\ s = "mark" =>
               /\ alert[t].source # "none"
               /\ Score(Says(t, "vt"), misp, Says(t, "otx"), Says(t, "shodan")) >= Threshold
  BY <1>2 DEF PlaybookStage
<1>4. TaskTypes' /\ stage'[t] = s /\ \A u \in Tasks \ {t} : stage'[u] = stage[u]
  BY <1>1, <1>3, GotoStage DEF IInv, Stages, AtRedis
<1>5. ClientInv'
  BY <1>1, ClientFrame DEF IInv
<1>6. WindowInv'
  BY <1>1, <1>4, WindowFrame DEF IInv, input, analysis, PastBurst
<1>7. EvidenceInv'
  <2>1. stage'[t] = "mark" => alert[t].source # "none" /\ Evidence(alert[t]) >= Threshold
    BY <1>1, <1>3, <1>4, ScoreIsEvidence DEF IInv, EvidenceInv
  <2>2. MarkIsEarned'
    BY <1>1 DEF IInv, EvidenceInv, MarkIsEarned, Earned, input, analysis, caches
  <2>3. \A u \in Tasks, r \in Cached : LookupInv(u, r)'
    BY <1>1 DEF IInv, EvidenceInv, LookupInv, Asked, Subject, input, intel
  <2>4. \A u \in Tasks : /\ stage'[u] = "lookups" => alert'[u].ioc # "none"
                         /\ stage'[u] = "mark" =>
                                alert'[u].source # "none" /\ Evidence(alert'[u]) >= Threshold
    BY <1>1, <1>3, <1>4, <2>1 DEF IInv, EvidenceInv, input
  <2>5. QED
    BY <1>1, <2>2, <2>3, <2>4 DEF IInv, EvidenceInv, input, analysis, intel, caches
<1>8. ModelInv'
  BY <1>1, <1>3, <1>4, ModelFrame DEF IInv
<1>9. PlaybookTypes'
  BY <1>1, TemplateTypes DEF IInv
<1>10. QED
  BY <1>4, <1>5, <1>6, <1>7, <1>8, <1>9 DEF IInv

\* The address that is marked is the source of the alert with the evidence.
LEMMA MarkMaliciousStep ==
    ASSUME IInv, NEW t \in Tasks, MarkMalicious(t)
    PROVE  IInv'
<1>1. PICK ok \in BOOLEAN :
        /\ stage[t] = "mark" /\ Command(Agent(t), ok)
        /\ malicious' \in Written(Agent(t), ok, malicious, malicious \cup {alert[t].source})
        /\ Goto(t, PlaybookStage(t)) /\ FromTemplate(t)
        /\ UNCHANGED <<input, analysis, intel, model, windows, caches>>
  BY DEF MarkMalicious
<1>2. PlaybookStage(t) \in Onward
  BY DEF PlaybookStage, Onward
<1>3. /\ TaskTypes'
      /\ \A u \in Tasks : PastBurst(u)' => PastBurst(u)
      /\ \A u \in Tasks : stage'[u] \in {"lookups", "mark"} => stage'[u] = stage[u]
      /\ \A u \in Tasks : stage'[u] = "calling" <=> stage[u] = "calling"
      /\ \A u \in Tasks : stage'[u] \notin {"calling", "store", "done"}
                              => stage[u] \notin {"calling", "store", "done"}
  BY <1>1, <1>2, OnwardFrames DEF IInv
<1>4. ClientInv'
  BY <1>1, CommandClient, TaskCalls DEF IInv
<1>5. WindowInv'
  BY <1>1, <1>3, WindowFrame DEF IInv, input, analysis
<1>6. EvidenceInv'
  <2>1. alert[t].source \in Indicators /\ Earned(alert[t].source)
    BY <1>1, AlertFields DEF IInv, EvidenceInv, Earned
  <2>2. malicious' \subseteq malicious \cup {alert[t].source}
    BY <1>1, WrittenCases
  <2>3. MarkIsEarned'
    BY <1>1, <2>1, <2>2 DEF IInv, EvidenceInv, MarkIsEarned, Earned, input, analysis, caches
  <2>4. \A u \in Tasks, r \in Cached : LookupInv(u, r)'
    BY <1>1 DEF IInv, EvidenceInv, LookupInv, Asked, Subject, input, intel
  <2>5. QED
    BY <1>1, <1>3, <2>1, <2>2, <2>3, <2>4 DEF IInv, EvidenceInv, input, analysis, intel, caches
<1>7. ModelInv'
  BY <1>1, <1>3, ModelFrame DEF IInv
<1>8. PlaybookTypes'
  BY <1>1, TemplateTypes DEF IInv
<1>9. QED
  BY <1>3, <1>4, <1>5, <1>6, <1>7, <1>8 DEF IInv

-----------------------------------------------------------------------------
(* PlaybookGenAgent and the model's semaphore.                             *)

\* A task that calls Redis for a playbook or a context goes on with that, and
\* leaves everything but playbooks and contexts alone.
LEMMA PlaybookFrame ==
    ASSUME IInv, NEW t \in Tasks, NEW s \in Onward, NEW ok \in BOOLEAN,
           stage[t] \in {"cache", "context", "memoise"}, Goto(t, s), Command(Agent(t), ok),
           UNCHANGED <<input, analysis, intel, model, windows, malicious, answers>>,
           PlaybookTypes'
    PROVE  IInv'
<1>1. /\ TaskTypes'
      /\ \A u \in Tasks : PastBurst(u)' => PastBurst(u)
      /\ \A u \in Tasks : stage'[u] \in {"lookups", "mark"} => stage'[u] = stage[u]
      /\ \A u \in Tasks : stage'[u] = "calling" <=> stage[u] = "calling"
      /\ \A u \in Tasks : stage'[u] \notin {"calling", "store", "done"}
                              => stage[u] \notin {"calling", "store", "done"}
  BY OnwardFrames DEF IInv
<1>2. ClientInv'
  BY CommandClient, TaskCalls DEF IInv
<1>3. WindowInv'
  BY <1>1, WindowFrame DEF IInv, input, analysis
<1>4. EvidenceInv'
  BY <1>1, EvidenceFrame DEF IInv, analysis
<1>5. ModelInv'
  BY <1>1, ModelFrame DEF IInv
<1>6. QED
  BY <1>1, <1>2, <1>3, <1>4, <1>5 DEF IInv

LEMMA ReadPlaybookStep ==
    ASSUME IInv, NEW t \in Tasks, ReadPlaybook(t)
    PROVE  IInv'
<1>1. PICK ok \in BOOLEAN, s \in {"done", "context"} :
        /\ stage[t] = "cache" /\ Command(Agent(t), ok) /\ Goto(t, s)
        /\ playbook' \in {playbook, [playbook EXCEPT ![t] = "cached"]}
        /\ UNCHANGED <<input, analysis, intel, model, windows, malicious, caches>>
  BY DEF ReadPlaybook
<1>2. PlaybookTypes'
  BY <1>1 DEF IInv, PlaybookTypes, caches
<1>3. QED
  BY <1>1, <1>2, PlaybookFrame DEF Onward, caches

LEMMA ReadContextStep ==
    ASSUME IInv, NEW t \in Tasks, ReadContext(t)
    PROVE  IInv'
<1>1. PICK ok \in BOOLEAN, s \in {"waiting", "memoise"} :
        /\ stage[t] = "context" /\ Command(Agent(t), ok) /\ Goto(t, s)
        /\ UNCHANGED <<input, analysis, intel, model, playbook, windows, malicious, caches>>
  BY DEF ReadContext
<1>2. PlaybookTypes'
  BY <1>1 DEF IInv, PlaybookTypes, caches
<1>3. QED
  BY <1>1, <1>2, PlaybookFrame DEF Onward, caches

LEMMA MemoiseStep ==
    ASSUME IInv, NEW t \in Tasks, Memoise(t)
    PROVE  IInv'
<1>1. PICK ok \in BOOLEAN :
        /\ stage[t] = "memoise" /\ Command(Agent(t), ok)
        /\ contexts' \in Written(Agent(t), ok, contexts, contexts \cup {Topic(t)})
        /\ Goto(t, "waiting")
        /\ UNCHANGED <<input, analysis, intel, model, playbook, windows, malicious, answers, playbooks>>
  BY DEF Memoise
<1>2. contexts' \subseteq Topics
  BY <1>1, WrittenCases, AlertFields DEF IInv, PlaybookTypes, Topic
<1>3. PlaybookTypes'
  BY <1>1, <1>2 DEF IInv, PlaybookTypes
<1>4. QED
  BY <1>1, <1>3, PlaybookFrame DEF Onward

LEMMA StorePlaybookStep ==
    ASSUME IInv, NEW t \in Tasks, StorePlaybook(t)
    PROVE  IInv'
<1>1. PICK ok \in BOOLEAN :
        /\ stage[t] = "store" /\ Command(Agent(t), ok)
        /\ playbooks' \in Written(Agent(t), ok, playbooks, playbooks \cup {Topic(t)})
        /\ playbook' = [playbook EXCEPT ![t] = "model"]
        /\ Goto(t, "done")
        /\ UNCHANGED <<input, analysis, intel, model, windows, malicious, answers, contexts>>
  BY DEF StorePlaybook
<1>2. TaskTypes' /\ stage'[t] = "done" /\ \A u \in Tasks \ {t} : stage'[u] = stage[u]
  BY <1>1, GotoStage DEF IInv, Stages
<1>3. ClientInv'
  BY <1>1, CommandClient, TaskCalls DEF IInv
<1>4. WindowInv'
  BY <1>1, <1>2, WindowFrame DEF IInv, input, analysis, PastBurst
<1>5. EvidenceInv'
  BY <1>1, <1>2, EvidenceFrame DEF IInv, analysis
<1>6. ModelInv'
  BY <1>1, <1>2, ModelFrame DEF IInv
<1>7. PlaybookTypes'
  <2>1. playbooks' \subseteq Topics
    BY <1>1, WrittenCases, AlertFields DEF IInv, PlaybookTypes, Topic
  <2>2. QED
    BY <1>1, <2>1 DEF IInv, PlaybookTypes
<1>8. QED
  BY <1>2, <1>3, <1>4, <1>5, <1>6, <1>7 DEF IInv

\* What waits for the semaphore, or holds it, is past its analysis and its
\* lookups; only the model's state changes.
LEMMA ModelStepFrame ==
    ASSUME IInv, NEW t \in Tasks, NEW s \in {"calling", "store", "waiting", "done"},
           stage[t] \in {"waiting", "calling"}, Goto(t, s),
           UNCHANGED <<input, analysis, intel, client, windows, malicious, caches, faults>>,
           ModelInv', playbook' \in {playbook, [playbook EXCEPT ![t] = "fallback"]}
    PROVE  IInv'
<1>1. TaskTypes' /\ stage'[t] = s /\ \A u \in Tasks \ {t} : stage'[u] = stage[u]
  BY GotoStage DEF IInv, Stages, AtRedis
<1>2. ClientInv'
  BY ClientFrame DEF IInv
<1>3. WindowInv'
  BY <1>1, WindowFrame DEF IInv, input, analysis, PastBurst
<1>4. EvidenceInv'
  BY <1>1, EvidenceFrame DEF IInv, analysis, caches
<1>5. PlaybookTypes'
  BY DEF IInv, PlaybookTypes, caches
<1>6. QED
  BY <1>1, <1>2, <1>3, <1>4, <1>5 DEF IInv

\* A call begins: one slot less, one call more.
LEMMA TakeSlotStep ==
    ASSUME IInv, NEW t \in Tasks, TakeSlot(t),
           UNCHANGED <<input, analysis, intel, client, windows, malicious, caches, faults>>
    PROVE  IInv'
<1>1. /\ stage[t] = "waiting" /\ free > 0 /\ free' = free - 1
      /\ attempt' = [attempt EXCEPT ![t] = @ + 1]
      /\ Goto(t, "calling") /\ UNCHANGED playbook
  BY DEF TakeSlot
<1>2. TaskTypes' /\ stage'[t] = "calling" /\ \A u \in Tasks \ {t} : stage'[u] = stage[u]
  BY <1>1, GotoStage DEF IInv, Stages
<1>3. Calling' = Calling \cup {t} /\ t \notin Calling
  BY <1>1, <1>2 DEF Calling
<1>4. /\ IsFiniteSet(Calling') /\ Cardinality(Calling') = Cardinality(Calling) + 1
      /\ Cardinality(Calling) \in Nat
  BY <1>3, FS_AddElement, FS_CardinalityType DEF IInv, ModelInv
<1>5. free' \in Nat /\ free' + Cardinality(Calling') = Slots
  BY <1>1, <1>4, AgentsAssumption DEF IInv, ModelInv
<1>6. attempt[t] \in 0 .. MaxAttempts /\ attempt[t] < MaxAttempts
  BY <1>1 DEF IInv, ModelInv
<1>7. attempt[t] + 1 \in 0 .. MaxAttempts
  BY <1>6 DEF MaxAttempts
<1>8. /\ attempt' \in [Tasks -> 0 .. MaxAttempts]
      /\ \A u \in Tasks \ {t} : attempt'[u] = attempt[u]
  BY <1>1, <1>7 DEF IInv, ModelInv
<1>9. ModelInv'
  BY <1>2, <1>4, <1>5, <1>8 DEF IInv, ModelInv
<1>10. QED
  BY <1>1, <1>9, ModelStepFrame

\* A call ends: its slot comes back, and it is tried again only if an attempt is left.
LEMMA CallEndsStep ==
    ASSUME IInv, NEW t \in Tasks, CallEnds(t),
           UNCHANGED <<input, analysis, intel, client, windows, malicious, caches, faults>>
    PROVE  IInv'
<1>1. PICK s \in {"store", "waiting", "done"} :
        /\ stage[t] = "calling" /\ free' = free + 1 /\ UNCHANGED attempt
        /\ Goto(t, s) /\ (s = "waiting" => attempt[t] < MaxAttempts)
        /\ playbook' \in {playbook, [playbook EXCEPT ![t] = "fallback"]}
  BY DEF CallEnds, GiveSlot
<1>2. TaskTypes' /\ stage'[t] = s /\ \A u \in Tasks \ {t} : stage'[u] = stage[u]
  BY <1>1, GotoStage DEF IInv, Stages, AtRedis
<1>3. Calling' = Calling \ {t} /\ t \in Calling
  BY <1>1, <1>2 DEF Calling
<1>4. /\ IsFiniteSet(Calling') /\ Cardinality(Calling') = Cardinality(Calling) - 1
      /\ Cardinality(Calling) \in Nat
  BY <1>3, FS_RemoveElement, FS_CardinalityType DEF IInv, ModelInv
<1>5. free' \in Nat /\ free' + Cardinality(Calling') = Slots
  BY <1>1, <1>4, AgentsAssumption DEF IInv, ModelInv
<1>6. ModelInv'
  BY <1>1, <1>2, <1>4, <1>5 DEF IInv, ModelInv
<1>7. QED
  BY <1>1, <1>6, ModelStepFrame

-----------------------------------------------------------------------------
(* Keys that expire, and the next-state relation.                          *)

\* An id that leaves its window counts as missed from then on.
LEMMA ExpiredWindow ==
    ASSUME IInv, NEW r \in Rules, NEW i \in burst[r],
           burst' = [burst EXCEPT ![r] = @ \ {i}], missed' = missed \cup {i},
           UNCHANGED <<alert, stage, duplicate, related, dedup>>
    PROVE  WindowInv'
<1>1. i \in Ids /\ burst[r] \ {i} \in SUBSET Ids
  BY DEF IInv, WindowInv
<1>2. /\ burst' \in [Rules -> SUBSET Ids]
      /\ \A q \in Rules : burst[q] \ {i} \subseteq burst'[q]
  BY <1>1 DEF IInv, WindowInv
<1>3. \A t \in Tasks : alert[t].rule \in Rules
  BY AlertFields DEF IInv
<1>4. ASSUME NEW t \in Tasks, PastBurst(t)', alert'[t].id \notin missed'
      PROVE  alert'[t].id \in burst'[alert'[t].rule]
  BY <1>2, <1>3, <1>4 DEF IInv, WindowInv, PastBurst
<1>5. SecondSeesFirst'
  <2> SUFFICES ASSUME NEW t \in Tasks, NEW u \in Tasks, PastBurst(t), PastBurst(u),
                      alert[t].rule = alert[u].rule, alert[t].id # alert[u].id,
                      {alert[t].id, alert[u].id} \cap missed' = {}
               PROVE  alert[t].id \in related[u] \/ alert[u].id \in related[t]
    BY DEF SecondSeesFirst, PastBurst
  <2>1. {alert[t].id, alert[u].id} \cap missed = {}
    OBVIOUS
  <2>2. QED
    BY <2>1 DEF IInv, WindowInv, SecondSeesFirst
<1>6. QED
  BY <1>1, <1>2, <1>4, <1>5 DEF IInv, WindowInv

\* An address that is no longer marked, or an answer that is no longer cached,
\* blames nobody.
LEMMA ExpiredEvidence ==
    ASSUME IInv, UNCHANGED <<input, stage, analysis, intel>>, malicious' \subseteq malicious,
           \/ answers' = answers
           \/ \E s \in Cached, x \in Indicators : answers' = [answers EXCEPT ![s][x] = NotCached]
    PROVE  EvidenceInv'
<1>1. /\ answers' \in [Cached -> [Indicators -> NotCached .. 100]]
      /\ \A s \in Cached, x \in Indicators : answers'[s][x] \in {NotCached, Verdict[s][x]}
  <2>1. CASE answers' = answers
    BY <2>1 DEF IInv, EvidenceInv, MarkIsEarned
  <2>2. ASSUME NEW s \in Cached, NEW x \in Indicators,
               answers' = [answers EXCEPT ![s][x] = NotCached]
        PROVE  <1>1!1 /\ <1>1!2
    <3>1. NotCached \in NotCached .. 100
      BY DEF NotCached
    <3>2. QED
      BY <2>2, <3>1, TableStep DEF IInv, EvidenceInv, MarkIsEarned
  <2>3. QED
    BY <2>1, <2>2
<1>2. MarkIsEarned'
  BY <1>1 DEF IInv, EvidenceInv, MarkIsEarned, Earned, input, analysis
<1>3. \A t \in Tasks, s \in Cached : LookupInv(t, s)'
  BY DEF IInv, EvidenceInv, LookupInv, Asked, Subject, input, intel
<1>4. QED
  BY <1>1, <1>2, <1>3 DEF IInv, EvidenceInv, input, analysis, intel

LEMMA ExpireStep == ASSUME IInv, Expire PROVE IInv'
<1>1. Fault /\ UNCHANGED <<input, stage, analysis, intel, model, playbook, client>>
  BY DEF Expire
<1>2. ClientInv'
  <2>1. faults' \in 0 .. MaxFaults
    BY <1>1, FaultCount DEF IInv
  <2>2. QED
    BY <1>1, <2>1 DEF IInv, ClientInv, client
<1>3. TaskTypes'
  BY <1>1 DEF IInv, TaskTypes, input
<1>4. ModelInv'
  BY <1>1, ModelFrame DEF IInv
<1>5. WindowInv'
  <2>1. CASE UNCHANGED windows
    BY <1>1, <2>1, WindowFrame DEF IInv, PastBurst, input, analysis
  <2>2. CASE dedup' \subseteq dedup /\ UNCHANGED <<burst, missed>>
    <3>1. SecondSeesFirst'
      BY <1>1, <2>2 DEF IInv, WindowInv, SecondSeesFirst, PastBurst, input, analysis
    <3>2. QED
      BY <1>1, <2>2, <3>1 DEF IInv, WindowInv, PastBurst, input, analysis
  <2>3. CASE \E r \in Rules : \E i \in burst[r] :
               burst' = [burst EXCEPT ![r] = @ \ {i}] /\ missed' = missed \cup {i} /\ UNCHANGED dedup
    BY <1>1, <2>3, ExpiredWindow DEF input, analysis
  <2>4. QED
    BY <2>1, <2>2, <2>3 DEF Expire
<1>6. EvidenceInv'
  <2>1. /\ malicious' \subseteq malicious
        /\ \/ answers' = answers
           \/ \E s \in Cached, x \in Indicators : answers' = [answers EXCEPT ![s][x] = NotCached]
    BY DEF Expire, caches
  <2>2. QED
    BY <1>1, <2>1, ExpiredEvidence
<1>7. PlaybookTypes'
  <2>1. contexts' \subseteq contexts /\ playbooks' \subseteq playbooks
    BY DEF Expire, caches
  <2>2. QED
    BY <1>1, <2>1 DEF IInv, PlaybookTypes
<1>8. QED
  BY <1>2, <1>3, <1>4, <1>5, <1>6, <1>7 DEF IInv

LEMMA TaskStepIInv == ASSUME IInv, NEW t \in Tasks, TaskStep(t) PROVE IInv'
<1>1. CASE \E s \in Cached \cup {"agent"} : GetClient(<<t, s>>)
  BY <1>1, GetClientStep DEF Callers
<1>2. CASE Analyse(t)
  BY <1>2, CheckDedupStep, CheckBurstStep, CheckReputationStep DEF Analyse
<1>3. CASE Enrich(t)
  BY <1>3, ReadAnswerStep, AskSourceStep, CacheAnswerStep, JoinLookupsStep, MarkMaliciousStep
  DEF Enrich, LookUp
<1>4. CASE Generate(t)
  BY <1>4, ReadPlaybookStep, ReadContextStep, MemoiseStep, TakeSlotStep, CallEndsStep,
     StorePlaybookStep
  DEF Generate, RetrieveContext, CallModel
<1>5. QED
  BY <1>1, <1>2, <1>3, <1>4 DEF TaskStep

\* A step in which nothing changes.
LEMMA StutterStep == ASSUME IInv, UNCHANGED vars PROVE IInv'
<1>1. TaskTypes' /\ PlaybookTypes'
  BY DEF IInv, TaskTypes, PlaybookTypes, vars, input, caches
<1>2. ClientInv' /\ WindowInv'
  BY ClientFrame, WindowFrame DEF IInv, vars, input, analysis, PastBurst
<1>3. EvidenceInv' /\ ModelInv'
  BY EvidenceFrame, ModelFrame DEF IInv, vars, analysis, caches
<1>4. QED
  BY <1>1, <1>2, <1>3 DEF IInv

LEMMA NextIInv == IInv /\ [Next]_vars => IInv'
  BY TaskStepIInv, ExpireStep, StutterStep DEF Next, AllOver

-----------------------------------------------------------------------------

\* The invariant holds whatever arrives, answers, fails or expires.
THEOREM AgentsInvariant == Spec => []IInv
<1>1. QED
  BY InitIInv, NextIInv, PTL DEF Spec

\* Type correctness.  In particular never more calls of the model are under way
\* than LLM_MAX_CONCURRENT_CALLS, and none is tried a fourth time.
THEOREM AgentsTypes == Spec => []TypeOK
<1>1. IInv => TypeOK
  <2> SUFFICES ASSUME IInv PROVE TypeOK
    OBVIOUS
  <2>1. free \in 0 .. Slots
    <3>1. Cardinality(Calling) \in Nat
      BY FS_CardinalityType DEF IInv, ModelInv
    <3>2. QED
      BY <3>1, AgentsAssumption DEF IInv, ModelInv
  <2>2. pools \in Nat
    BY DEF IInv, ClientInv
  <2>3. QED
    BY <2>1, <2>2 DEF IInv, TaskTypes, ClientInv, WindowInv, EvidenceInv, ModelInv, PlaybookTypes, TypeOK
<1>2. QED
  BY <1>1, AgentsInvariant, PTL

\* However many callers find no client, one is created (RedisClient._get).
THEOREM OneRedisClient == Spec => []OneClient
<1>1. IInv => OneClient
  BY DEF IInv, ClientInv, OneClient
<1>2. QED
  BY <1>1, AgentsInvariant, PTL

\* An address is marked, and a score raised for it, only on the evidence of an
\* alert from there, whichever sources fail and whatever Redis loses; and what
\* is cached is what the source said (ThreatIntelAgent.run).
THEOREM BlameIsEarned == Spec => []MarkIsEarned
<1>1. IInv => MarkIsEarned
  BY DEF IInv, EvidenceInv
<1>2. QED
  BY <1>1, AgentsInvariant, PTL

\* Of two alerts in one window one is told of the other, in whatever order
\* their tasks run (RedisClient.check_burst's transaction).
THEOREM BurstIsSeen == Spec => []SecondSeesFirst
<1>1. IInv => SecondSeesFirst
  BY DEF IInv, WindowInv
<1>2. QED
  BY <1>1, AgentsInvariant, PTL

=============================================================================
