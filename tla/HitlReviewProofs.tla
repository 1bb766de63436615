-------------------------- MODULE HitlReviewProofs --------------------------
(***************************************************************************)
(* Safety of HitlReview for any reviews, requests, playbooks and timings.  *)
(* None of the invariants is inductive alone: what a task may do depends   *)
(* on how far it is, so IInv ties each review's verdict, rows, outputs and *)
(* clock to the state of its task, and each request to its decision.       *)
(***************************************************************************)
EXTENDS HitlReview, TLAPS

Undecided == {"absent", "inserted"} \cup Waiting
Decided == {"deciding", "recorded", "published", "audited", "resolved"}

\* A task has a verdict exactly from the moment it stops waiting.
VerdictInv(r) ==
    /\ task[r] \in Undecided => verdict[r] = NoDecision
    /\ task[r] \in Decided => verdict[r] \in Decision

\* The timeout's verdict: the window is over and stays over.
TimeoutInv(r) ==
    verdict[r].by = "system:timeout" =>
        /\ age[r] = TimeoutSeconds
        /\ EscalateSeconds <= TimeoutSeconds => escalated[r]

\* The rows before a verdict, and behind one.
RowsInv(r) ==
    /\ task[r] \in Undecided => \A d \in rows[r] : d.by = "analyst"
    /\ verdict[r].by = "analyst" => verdict[r] \in rows[r]
    /\ task[r] \in {"recorded", "published", "audited", "resolved"} \/ published[r] # <<>>
        => verdict[r] \in rows[r] /\ status[r] \in Actions

\* How far publishing, auditing and executing have got.
ChainInv(r) ==
    /\ task[r] \in Undecided \cup {"deciding", "recorded"} =>
          published[r] = <<>> /\ audit[r]["EXECUTED"] = 0 /\ soar[r] = <<>>
    /\ task[r] = "published" =>
          Len(published[r]) = 1 /\ audit[r]["EXECUTED"] = 0 /\ soar[r] = <<>>
    /\ task[r] = "audited" =>
          Len(published[r]) = 1 /\ audit[r]["EXECUTED"] = 1 /\ soar[r] = <<>>
    /\ Len(soar[r]) <= audit[r]["EXECUTED"]
    /\ audit[r]["EXECUTED"] <= Len(published[r])
    /\ Len(published[r]) <= 1

\* What was published is what the verdict says.
PublishedInv(r) ==
    /\ task[r] \in {"published", "audited"} => verdict[r].action \in {"APPROVE", "EDIT"}
    /\ \A i \in DOMAIN published[r] :
          /\ published[r][i] = PlaybookOf(verdict[r])
          /\ verdict[r].action \in {"APPROVE", "EDIT"}

\* The listener of a Postgres task: silent before its LISTEN; afterwards a
\* new row is known, announced or cut off, and nothing is announced without.
ListenerInv(r) ==
    /\ task[r] \in {"absent", "inserted", "connecting"} => ~notified[r] /\ wire[r] = "quiet"
    /\ Listening(r) /\ rows[r] # early[r] => notified[r] \/ wire[r] \in {"notifying", "cut"}
    /\ Listening(r) /\ (notified[r] \/ wire[r] = "notifying") => rows[r] # {}

\* Each client's tasks stay in that client's states; a SQLite task that found
\* a row at its start is before its first poll or past its last.
ClientInv(r) ==
    /\ backend = "sqlite" => task[r] \notin {"connecting", "waiting", "reading"}
    /\ backend = "postgres" => task[r] \notin {"polling", "sleeping"}
    /\ task[r] \in {"absent", "inserted"} => age[r] = 0 /\ early[r] = {}
    /\ backend = "sqlite" /\ early[r] # {} =>
          /\ early[r] \subseteq rows[r]
          /\ task[r] # "sleeping"
          /\ task[r] = "checking" => age[r] = 0
          /\ verdict[r].by # "system:timeout"

\* The audit row of a resolved review.
ResolvedInv(r) ==
    task[r] = "resolved" =>
        audit[r][IF verdict[r].action \in {"APPROVE", "EDIT"}
                 THEN "EXECUTED" ELSE OutcomeOf(verdict[r].action)] > 0

\* A handler under way carries an analyst's decision.
RequestInv(q) ==
    request[q].state \in {"storing", "auditing"} =>
        request[q].decision \in Decision /\ request[q].decision.by = "analyst"

ReviewInv(r) ==
    /\ VerdictInv(r)
    /\ TimeoutInv(r)
    /\ RowsInv(r)
    /\ ChainInv(r)
    /\ PublishedInv(r)
    /\ ListenerInv(r)
    /\ ClientInv(r)
    /\ ResolvedInv(r)

IInv ==
    /\ TypeOK
    /\ \A r \in Reviews : ReviewInv(r)
    /\ \A q \in Requests : RequestInv(q)

-----------------------------------------------------------------------------

\* The initial states satisfy the invariant (the parked reviews' start).
LEMMA InitIInv == Init => IInv
<1> SUFFICES ASSUME Init PROVE IInv
  OBVIOUS
<1> USE HitlAssumption
<1>1. TypeOK
  BY DEF Init, TypeOK, TaskStates, RequestStates, Decision, NoDecision, Actions, Outcomes,
         Wires
<1>2. \A r \in Reviews : ReviewInv(r)
  BY DEF Init, ReviewInv, VerdictInv, TimeoutInv, RowsInv, ChainInv, PublishedInv,
         ListenerInv, ClientInv, ResolvedInv, Undecided, Decided, Waiting, Outcomes,
         NoDecision, Listening
<1>3. \A q \in Requests : RequestInv(q)
  BY DEF Init, RequestInv
<1>4. QED
  BY <1>1, <1>2, <1>3 DEF IInv

-----------------------------------------------------------------------------
(* A step that leaves a review's part of the state alone keeps what is     *)
(* known of it.                                                            *)

SameReview(r) ==
    /\ backend' = backend
    /\ task'[r] = task[r]
    /\ age'[r] = age[r]
    /\ escalated'[r] = escalated[r]
    /\ notified'[r] = notified[r]
    /\ wire'[r] = wire[r]
    /\ verdict'[r] = verdict[r]
    /\ rows'[r] = rows[r]
    /\ status'[r] = status[r]
    /\ early'[r] = early[r]
    /\ published'[r] = published[r]
    /\ soar'[r] = soar[r]
    /\ audit'[r] = audit[r]

\* A review none of whose variables change keeps its invariant: tasks of
\* different reviews share nothing but the clock and the process.
LEMMA SameReviewInv ==
    ASSUME NEW r \in Reviews, ReviewInv(r), SameReview(r)
    PROVE  ReviewInv(r)'
  BY DEF SameReview, ReviewInv, VerdictInv, TimeoutInv, RowsInv, ChainInv, PublishedInv,
         ListenerInv, ClientInv, ResolvedInv, Listening

\* PlaybookOf yields a set of steps whatever the decision.
LEMMA PlaybookType == \A d : PlaybookOf(d) \in SUBSET StepKinds
  BY HitlAssumption DEF PlaybookOf, StripIrreversible

\* The fields of a decision.
LEMMA DecisionFields ==
    \A d \in Decision : d.action \in Actions /\ d.by \in Deciders /\ d # NoDecision
  BY DEF Decision, NoDecision, Deciders

\* _auto_partial_approve makes up a decision of the timeout's own.
LEMMA TimeoutApprovalType ==
    ASSUME NEW n \in Nat
    PROVE  /\ TimeoutApproval(n) \in Decision
           /\ TimeoutApproval(n).by = "system:timeout"
  BY DEF TimeoutApproval, Decision, Actions, Deciders

\* One audit_log row: what the count of each outcome becomes.
LEMMA LogCounts ==
    ASSUME NEW r \in Reviews, NEW o \in Outcomes, Log(r, o),
           audit \in [Reviews -> [Outcomes -> Nat]]
    PROVE  /\ audit' \in [Reviews -> [Outcomes -> Nat]]
           /\ \A s \in Reviews \ {r} : audit'[s] = audit[s]
           /\ audit'[r][o] = audit[r][o] + 1
           /\ \A p \in Outcomes \ {o} : audit'[r][p] = audit[r][p]
<1>1. audit' = [audit EXCEPT ![r] = [audit[r] EXCEPT ![o] = audit[r][o] + 1]]
  BY DEF Log
<1>2. [audit[r] EXCEPT ![o] = audit[r][o] + 1] \in [Outcomes -> Nat]
  OBVIOUS
<1>3. QED
  BY <1>1, <1>2

\* store_decision adds a row, and the status becomes that of a decided review.
LEMMA CommitTypes ==
    ASSUME TypeOK, NEW r \in Reviews, NEW d \in Decision, CommitDecision(r, d)
    PROVE  /\ rows' \in [Reviews -> SUBSET Decision]
           /\ status' \in [Reviews -> Actions \cup {"none", "PENDING"}]
           /\ wire' \in [Reviews -> Wires]
<1>1. rows' \in [Reviews -> SUBSET Decision]
  BY DEF TypeOK, CommitDecision
<1>2. status' \in [Reviews -> Actions \cup {"none", "PENDING"}]
  BY DecisionFields DEF TypeOK, CommitDecision
<1>3. wire' \in [Reviews -> Wires]
  BY DEF TypeOK, CommitDecision, Notify, Wires
<1>4. QED
  BY <1>1, <1>2, <1>3

\* The type of `request`.
RequestType == [Requests -> [state : RequestStates, review : Reviews,
                             decision : Decision \cup {NoDecision}]]

\* A handler's step moves its request to another state, and nothing else.
LEMMA RequestMoves ==
    ASSUME TypeOK, NEW q \in Requests, NEW st \in RequestStates
    PROVE  [request EXCEPT ![q].state = st] \in RequestType
<1>1. request[q] \in [state : RequestStates, review : Reviews, decision : Decision \cup {NoDecision}]
  BY DEF TypeOK
<1>2. [request[q] EXCEPT !.state = st]
        \in [state : RequestStates, review : Reviews, decision : Decision \cup {NoDecision}]
  BY <1>1
<1>3. [request EXCEPT ![q] = [request[q] EXCEPT !.state = st]] \in RequestType
  BY <1>2 DEF TypeOK, RequestType
<1>4. QED
  BY <1>3

\* InsertReview: a row analysts can see, and no decision.
LEMMA InsertReviewStep ==
    ASSUME IInv, NEW r \in Reviews, InsertReview(r)
    PROVE  IInv'
<1> USE DEF InsertReview, Goto, env, timing, listener, choice, database, outputs
<1>1. TypeOK'
  BY DEF IInv, TypeOK, TaskStates, Running
<1>2. ASSUME NEW s \in Reviews PROVE ReviewInv(s)'
  <2>1. CASE s = r
    BY <2>1, <1>1 DEF IInv, TypeOK, ReviewInv, VerdictInv, TimeoutInv, RowsInv, ChainInv,
       PublishedInv, ListenerInv, ClientInv, ResolvedInv, Listening, Undecided, Decided, Waiting
  <2>2. CASE s # r
    <3>1. SameReview(s)
      BY <2>2 DEF IInv, TypeOK, SameReview
    <3>2. QED
      BY <3>1, SameReviewInv DEF IInv
  <2>3. QED
    BY <2>1, <2>2
<1>3. \A q \in Requests : RequestInv(q)'
  BY DEF IInv, RequestInv
<1>4. QED
  BY <1>1, <1>2, <1>3 DEF IInv

\* ParkAndDetach: the early rows are the rows of that moment.
LEMMA ParkAndDetachStep ==
    ASSUME IInv, NEW r \in Reviews, ParkAndDetach(r)
    PROVE  IInv'
<1> USE DEF ParkAndDetach, Goto, env, timing, listener, choice, database, outputs
<1>1. TypeOK'
  <2>1. task' \in [Reviews -> TaskStates]
    BY DEF IInv, TypeOK, TaskStates, Running, Waiting
  <2>2. early' \in [Reviews -> SUBSET Decision]
    <3>1. early' = early \/ early' = [early EXCEPT ![r] = rows[r]]
      OBVIOUS
    <3> HIDE DEF ParkAndDetach
    <3>2. QED
      BY <3>1 DEF IInv, TypeOK
  <2>3. UNCHANGED <<env, timing, choice, database, outputs, notified, wire>>
    OBVIOUS
  <2> HIDE DEF ParkAndDetach
  <2>4. QED
    BY <2>1, <2>2, <2>3 DEF IInv, TypeOK
<1>2. ASSUME NEW s \in Reviews PROVE ReviewInv(s)'
  <2>1. CASE s = r
    BY HitlAssumption, <2>1, <1>1 DEF IInv, TypeOK, ReviewInv, VerdictInv, TimeoutInv, RowsInv, ChainInv,
       PublishedInv, ListenerInv, ClientInv, ResolvedInv, Listening, Undecided, Decided, Waiting
  <2>2. CASE s # r
    <3>1. SameReview(s)
      BY <2>2 DEF IInv, TypeOK, SameReview
    <3>2. QED
      BY <3>1, SameReviewInv DEF IInv
  <2>3. QED
    BY <2>1, <2>2
<1>3. \A q \in Requests : RequestInv(q)'
  BY DEF IInv, RequestInv
<1>4. QED
  BY <1>1, <1>2, <1>3 DEF IInv

\* Listen: no row has come since, and the notifications start here.
LEMMA ListenStep ==
    ASSUME IInv, NEW r \in Reviews, Listen(r)
    PROVE  IInv'
<1> USE DEF Listen, Goto, env, timing, listener, choice, database, outputs
<1>1. TypeOK'
  BY DEF IInv, TypeOK, TaskStates, Running, Waiting
<1>2. ASSUME NEW s \in Reviews PROVE ReviewInv(s)'
  <2>1. CASE s = r
    BY <2>1, <1>1 DEF IInv, TypeOK, ReviewInv, VerdictInv, TimeoutInv, RowsInv, ChainInv,
       PublishedInv, ListenerInv, ClientInv, ResolvedInv, Listening, Undecided, Decided, Waiting
  <2>2. CASE s # r
    <3>1. SameReview(s)
      BY <2>2 DEF IInv, TypeOK, SameReview
    <3>2. QED
      BY <3>1, SameReviewInv DEF IInv
  <2>3. QED
    BY <2>1, <2>2
<1>3. \A q \in Requests : RequestInv(q)'
  BY DEF IInv, RequestInv
<1>4. QED
  BY <1>1, <1>2, <1>3 DEF IInv

\* GiveUp: the window is over, and a SQLite task polled before it was.
LEMMA GiveUpStep ==
    ASSUME IInv, NEW r \in Reviews, GiveUp(r)
    PROVE  IInv'
<1> USE DEF GiveUp, EscalateIfDue, Goto, env, timing, listener, choice, database, outputs
<1>1. TypeOK'
  <2>1. verdict' \in [Reviews -> Decision \cup {NoDecision}]
    BY TimeoutApprovalType DEF IInv, TypeOK
  <2>2. escalated' \in [Reviews -> BOOLEAN]
    BY DEF IInv, TypeOK
  <2>3. QED
    BY <2>1, <2>2 DEF IInv, TypeOK, TaskStates, Running
<1>2. ASSUME NEW s \in Reviews PROVE ReviewInv(s)'
  <2>1. CASE s = r
    <3>1. verdict'[r] = TimeoutApproval(stamp + 1) /\ task'[r] = "deciding"
      BY DEF IInv, TypeOK
    <3>2. age'[r] = TimeoutSeconds
      <4>1. age[r] \in Nat /\ age[r] <= TimeoutSeconds /\ age[r] >= TimeoutSeconds
        BY HitlAssumption DEF IInv, TypeOK
      <4>2. QED
        BY <4>1, HitlAssumption
    <3>3. EscalateSeconds <= TimeoutSeconds => escalated'[r]
      BY <3>2, HitlAssumption DEF IInv, TypeOK
    <3>4. verdict'[r] \in Decision /\ verdict'[r].by = "system:timeout"
      BY <3>1, TimeoutApprovalType DEF IInv, TypeOK
    <3>5. ~(backend = "sqlite" /\ early[r] # {})
      <4>1. age[r] # 0
        BY <3>2, HitlAssumption
      <4>2. QED
        BY <4>1 DEF IInv, ReviewInv, ClientInv
    <3>6. QED
      BY <2>1, <3>1, <3>2, <3>3, <3>4, <3>5 DEF IInv, TypeOK, ReviewInv, VerdictInv, TimeoutInv, RowsInv, ChainInv,
       PublishedInv, ListenerInv, ClientInv, ResolvedInv, Listening, Undecided, Decided, Waiting
  <2>2. CASE s # r
    <3>1. SameReview(s)
      BY <2>2 DEF IInv, TypeOK, SameReview
    <3>2. QED
      BY <3>1, SameReviewInv DEF IInv
  <2>3. QED
    BY <2>1, <2>2
<1>3. \A q \in Requests : RequestInv(q)'
  BY DEF IInv, RequestInv
<1>4. QED
  BY <1>1, <1>2, <1>3 DEF IInv

\* KeepWaiting: the wait is registered or the poll comes first.
LEMMA KeepWaitingStep ==
    ASSUME IInv, NEW r \in Reviews, KeepWaiting(r)
    PROVE  IInv'
<1> USE DEF KeepWaiting, EscalateIfDue, Goto, env, timing, listener, choice, database, outputs
<1>1. TypeOK'
  <2>1. timer' \in [Reviews -> Nat]
    BY HitlAssumption DEF IInv, TypeOK, WaitSeconds, Least, Most
  <2>2. escalated' \in [Reviews -> BOOLEAN]
    BY DEF IInv, TypeOK
  <2>3. task' \in [Reviews -> TaskStates]
    <3>1. \E st \in TaskStates : task' = [task EXCEPT ![r] = st]
      BY DEF TaskStates, Running, Waiting
    <3> HIDE DEF KeepWaiting
    <3>2. QED
      BY <3>1 DEF IInv, TypeOK
  <2>4. /\ age' = age
        /\ UNCHANGED <<env, listener, choice, database, outputs>>
    OBVIOUS
  <2> HIDE DEF KeepWaiting
  <2>5. QED
    BY <2>1, <2>2, <2>3, <2>4 DEF IInv, TypeOK
<1>2. ASSUME NEW s \in Reviews PROVE ReviewInv(s)'
  <2>1. CASE s = r
    <3>1. /\ task[r] = "checking"
          /\ task'[r] = IF backend = "postgres" THEN "waiting" ELSE "polling"
          /\ escalated[r] => escalated'[r]
      BY DEF IInv, TypeOK
    <3>2. ChainInv(r)' /\ PublishedInv(r)'
      BY HitlAssumption, <3>1 DEF IInv, TypeOK, ReviewInv, ChainInv, PublishedInv, VerdictInv, Undecided, Waiting
    <3>3. VerdictInv(r)' /\ RowsInv(r)' /\ TimeoutInv(r)'
      BY HitlAssumption, <3>1 DEF IInv, TypeOK, ReviewInv, VerdictInv, RowsInv, TimeoutInv, ChainInv, Undecided, Decided, Waiting
    <3>4. ListenerInv(r)' /\ ClientInv(r)' /\ ResolvedInv(r)'
      BY HitlAssumption, <3>1 DEF IInv, TypeOK, ReviewInv, ListenerInv, ClientInv, ResolvedInv, VerdictInv, RowsInv, Listening, Undecided, Waiting
    <3>5. QED
      BY <2>1, <3>2, <3>3, <3>4 DEF ReviewInv
  <2>2. CASE s # r
    <3>1. SameReview(s)
      BY <2>2 DEF IInv, TypeOK, SameReview
    <3>2. QED
      BY <3>1, SameReviewInv DEF IInv
  <2>3. QED
    BY <2>1, <2>2
<1>3. \A q \in Requests : RequestInv(q)'
  BY DEF IInv, RequestInv
<1>4. QED
  BY <1>1, <1>2, <1>3 DEF IInv

\* TakeNotification: the task leaves the wait and reads.
LEMMA TakeNotificationStep ==
    ASSUME IInv, NEW r \in Reviews, TakeNotification(r)
    PROVE  IInv'
<1> USE DEF TakeNotification, Goto, env, timing, listener, choice, database, outputs
<1>1. TypeOK'
  BY DEF IInv, TypeOK, TaskStates, Running, Waiting
<1>2. ASSUME NEW s \in Reviews PROVE ReviewInv(s)'
  <2>1. CASE s = r
    BY <2>1, <1>1 DEF IInv, TypeOK, ReviewInv, VerdictInv, TimeoutInv, RowsInv, ChainInv,
       PublishedInv, ListenerInv, ClientInv, ResolvedInv, Listening, Undecided, Decided, Waiting
  <2>2. CASE s # r
    <3>1. SameReview(s)
      BY <2>2 DEF IInv, TypeOK, SameReview
    <3>2. QED
      BY <3>1, SameReviewInv DEF IInv
  <2>3. QED
    BY <2>1, <2>2
<1>3. \A q \in Requests : RequestInv(q)'
  BY DEF IInv, RequestInv
<1>4. QED
  BY <1>1, <1>2, <1>3 DEF IInv

\* TimerFires: the loop starts again with what it knew.
LEMMA TimerFiresStep ==
    ASSUME IInv, NEW r \in Reviews, TimerFires(r)
    PROVE  IInv'
<1> USE DEF TimerFires, Goto, env, timing, listener, choice, database, outputs
<1>1. TypeOK'
  BY DEF IInv, TypeOK, TaskStates, Running, Waiting
<1>2. ASSUME NEW s \in Reviews PROVE ReviewInv(s)'
  <2>1. CASE s = r
    BY <2>1, <1>1 DEF IInv, TypeOK, ReviewInv, VerdictInv, TimeoutInv, RowsInv, ChainInv,
       PublishedInv, ListenerInv, ClientInv, ResolvedInv, Listening, Undecided, Decided, Waiting
  <2>2. CASE s # r
    <3>1. SameReview(s)
      BY <2>2 DEF IInv, TypeOK, SameReview
    <3>2. QED
      BY <3>1, SameReviewInv DEF IInv
  <2>3. QED
    BY <2>1, <2>2
<1>3. \A q \in Requests : RequestInv(q)'
  BY DEF IInv, RequestInv
<1>4. QED
  BY <1>1, <1>2, <1>3 DEF IInv

\* Deliver: the notification that was on its way has a row behind it.
LEMMA DeliverStep ==
    ASSUME IInv, NEW r \in Reviews, Deliver(r)
    PROVE  IInv'
<1> USE DEF Deliver, env, timing, listener, choice, database, outputs
<1>1. TypeOK'
  BY DEF IInv, TypeOK, Wires
<1>2. ASSUME NEW s \in Reviews PROVE ReviewInv(s)'
  <2>1. CASE s = r
    <3>1. notified'[r] /\ wire'[r] = "quiet" /\ wire[r] = "notifying" /\ Listening(r)
      BY DEF IInv, TypeOK
    <3>2. ListenerInv(r)'
      BY <3>1 DEF IInv, ReviewInv, ListenerInv, Listening
    <3>3. /\ VerdictInv(r)' /\ TimeoutInv(r)' /\ RowsInv(r)' /\ ChainInv(r)'
          /\ PublishedInv(r)' /\ ClientInv(r)' /\ ResolvedInv(r)'
      BY DEF IInv, ReviewInv, VerdictInv, TimeoutInv, RowsInv, ChainInv, PublishedInv,
             ClientInv, ResolvedInv
    <3>4. QED
      BY <2>1, <3>2, <3>3 DEF ReviewInv
  <2>2. CASE s # r
    <3>1. SameReview(s)
      BY <2>2 DEF IInv, TypeOK, SameReview
    <3>2. QED
      BY <3>1, SameReviewInv DEF IInv
  <2>3. QED
    BY <2>1, <2>2
<1>3. \A q \in Requests : RequestInv(q)'
  BY DEF IInv, RequestInv
<1>4. QED
  BY <1>1, <1>2, <1>3 DEF IInv

\* LoseListener: what the task knew stays known.
LEMMA LoseListenerStep ==
    ASSUME IInv, NEW r \in Reviews, LoseListener(r)
    PROVE  IInv'
<1> USE DEF LoseListener, env, timing, listener, choice, database, outputs
<1>1. TypeOK'
  BY HitlAssumption DEF IInv, TypeOK, Wires
<1>2. ASSUME NEW s \in Reviews PROVE ReviewInv(s)'
  <2>1. CASE s = r
    <3>1. wire'[r] = "cut" /\ Listening(r)
      BY DEF IInv, TypeOK
    <3>2. ListenerInv(r)'
      BY <3>1 DEF IInv, ReviewInv, ListenerInv, Listening
    <3>3. /\ VerdictInv(r)' /\ TimeoutInv(r)' /\ RowsInv(r)' /\ ChainInv(r)'
          /\ PublishedInv(r)' /\ ClientInv(r)' /\ ResolvedInv(r)'
      BY DEF IInv, ReviewInv, VerdictInv, TimeoutInv, RowsInv, ChainInv, PublishedInv,
             ClientInv, ResolvedInv
    <3>4. QED
      BY <2>1, <3>2, <3>3 DEF ReviewInv
  <2>2. CASE s # r
    <3>1. SameReview(s)
      BY <2>2 DEF IInv, TypeOK, SameReview
    <3>2. QED
      BY <3>1, SameReviewInv DEF IInv
  <2>3. QED
    BY <2>1, <2>2
<1>3. \A q \in Requests : RequestInv(q)'
  BY DEF IInv, RequestInv
<1>4. QED
  BY <1>1, <1>2, <1>3 DEF IInv

\* ReadDecision: the decision is one of the rows.
LEMMA ReadDecisionStep ==
    ASSUME IInv, NEW r \in Reviews, ReadDecision(r)
    PROVE  IInv'
<1> USE DEF ReadDecision, IsLatest, Goto, env, timing, listener, choice, database, outputs
<1>1. TypeOK'
  BY DEF IInv, TypeOK, TaskStates, Running
<1>2. ASSUME NEW s \in Reviews PROVE ReviewInv(s)'
  <2>1. CASE s = r
    <3>1. PICK d \in rows[r] : verdict' = [verdict EXCEPT ![r] = d]
      OBVIOUS
    <3>2. task[r] \in {"reading", "polling"} /\ task'[r] = "deciding" /\ verdict[r] = NoDecision
      BY <3>1 DEF IInv, TypeOK, ReviewInv, VerdictInv, Undecided, Waiting
    <3>3. verdict'[r] = d /\ d \in Decision /\ d.by = "analyst"
      BY <3>1, <3>2 DEF IInv, TypeOK, ReviewInv, RowsInv, Undecided, Waiting
    <3>4. ChainInv(r)' /\ PublishedInv(r)'
      BY <3>2, <3>3 DEF IInv, TypeOK, ReviewInv, ChainInv, PublishedInv, VerdictInv, Undecided, Waiting
    <3>5. VerdictInv(r)' /\ RowsInv(r)' /\ TimeoutInv(r)'
      BY <3>2, <3>3 DEF IInv, TypeOK, ReviewInv, VerdictInv, RowsInv, TimeoutInv, ChainInv, Undecided, Decided, Waiting
    <3>6. ListenerInv(r)' /\ ClientInv(r)' /\ ResolvedInv(r)'
      BY <3>2, <3>3 DEF IInv, TypeOK, ReviewInv, ListenerInv, ClientInv, ResolvedInv, VerdictInv, RowsInv, Listening, Undecided, Waiting
    <3>7. QED
      BY <2>1, <3>4, <3>5, <3>6 DEF ReviewInv
  <2>2. CASE s # r
    <3>1. SameReview(s)
      BY <2>2 DEF IInv, TypeOK, SameReview
    <3>2. QED
      BY <3>1, SameReviewInv DEF IInv
  <2>3. QED
    BY <2>1, <2>2
<1>3. \A q \in Requests : RequestInv(q)'
  BY DEF IInv, RequestInv
<1>4. QED
  BY <1>1, <1>2, <1>3 DEF IInv

\* PollAgainLater: nothing was there when the task started.
LEMMA PollAgainLaterStep ==
    ASSUME IInv, NEW r \in Reviews, PollAgainLater(r)
    PROVE  IInv'
<1> USE DEF PollAgainLater, Goto, env, timing, listener, choice, database, outputs
<1>1. TypeOK'
  BY HitlAssumption DEF IInv, TypeOK, TaskStates, Running, Waiting
<1>2. ASSUME NEW s \in Reviews PROVE ReviewInv(s)'
  <2>1. CASE s = r
    <3>1. /\ task'[r] = "sleeping"
          /\ rows'[r] = {} /\ rows[r] = {}
          /\ task[r] = "polling"
      BY DEF IInv, TypeOK
    <3>2. backend = "sqlite"
      BY <3>1, HitlAssumption DEF IInv, TypeOK, ReviewInv, ClientInv
    <3>3. early[r] = {}
      BY <3>1, <3>2 DEF IInv, ReviewInv, ClientInv
    <3>4. QED
      BY <2>1, <3>1, <3>2, <3>3 DEF IInv, TypeOK, ReviewInv, VerdictInv, TimeoutInv, RowsInv, ChainInv,
       PublishedInv, ListenerInv, ClientInv, ResolvedInv, Listening, Undecided, Decided, Waiting
  <2>2. CASE s # r
    <3>1. SameReview(s)
      BY <2>2 DEF IInv, TypeOK, SameReview
    <3>2. QED
      BY <3>1, SameReviewInv DEF IInv
  <2>3. QED
    BY <2>1, <2>2
<1>3. \A q \in Requests : RequestInv(q)'
  BY DEF IInv, RequestInv
<1>4. QED
  BY <1>1, <1>2, <1>3 DEF IInv

\* RecordVerdict: the decision is a row from here on.
LEMMA RecordVerdictStep ==
    ASSUME IInv, NEW r \in Reviews, RecordVerdict(r)
    PROVE  IInv'
<1> USE DEF RecordVerdict, CommitDecision, Notify, Goto, env, timing, listener, choice, database,
            outputs
<1>1. TypeOK'
  <2>1. verdict[r] \in Decision
    BY DEF IInv, ReviewInv, VerdictInv, Decided
  <2>2. QED
    BY <2>1, CommitTypes DEF IInv, TypeOK, TaskStates, Running
<1>2. ASSUME NEW s \in Reviews PROVE ReviewInv(s)'
  <2>1. CASE s = r
    BY <2>1, <1>1 DEF IInv, TypeOK, ReviewInv, VerdictInv, TimeoutInv, RowsInv, ChainInv,
       PublishedInv, ListenerInv, ClientInv, ResolvedInv, Listening, Undecided, Decided, Waiting, Decision
  <2>2. CASE s # r
    <3>1. SameReview(s)
      BY <2>2 DEF IInv, TypeOK, SameReview
    <3>2. QED
      BY <3>1, SameReviewInv DEF IInv
  <2>3. QED
    BY <2>1, <2>2
<1>3. \A q \in Requests : RequestInv(q)'
  BY DEF IInv, RequestInv
<1>4. QED
  BY <1>1, <1>2, <1>3 DEF IInv

\* PublishPlaybook: one playbook, the one the decision asks for.
LEMMA PublishPlaybookStep ==
    ASSUME IInv, NEW r \in Reviews, PublishPlaybook(r)
    PROVE  IInv'
<1> USE DEF PublishPlaybook, Goto, env, timing, listener, choice, database, outputs
<1>1. TypeOK'
  BY PlaybookType DEF IInv, TypeOK, TaskStates, Running
<1>2. ASSUME NEW s \in Reviews PROVE ReviewInv(s)'
  <2>1. CASE s = r
    BY PlaybookType, <2>1, <1>1 DEF IInv, TypeOK, ReviewInv, VerdictInv, TimeoutInv, RowsInv, ChainInv,
       PublishedInv, ListenerInv, ClientInv, ResolvedInv, Listening, Undecided, Decided, Waiting
  <2>2. CASE s # r
    <3>1. SameReview(s)
      BY <2>2 DEF IInv, TypeOK, SameReview
    <3>2. QED
      BY <3>1, SameReviewInv DEF IInv
  <2>3. QED
    BY <2>1, <2>2
<1>3. \A q \in Requests : RequestInv(q)'
  BY DEF IInv, RequestInv
<1>4. QED
  BY <1>1, <1>2, <1>3 DEF IInv

\* AuditExecuted: the one EXECUTED row of the task.
LEMMA AuditExecutedStep ==
    ASSUME IInv, NEW r \in Reviews, AuditExecuted(r)
    PROVE  IInv'
<1> USE DEF AuditExecuted, Goto, env, timing, listener, choice, database, outputs
<1>1. TypeOK'
  BY LogCounts DEF IInv, TypeOK, TaskStates, Running, Outcomes
<1>2. ASSUME NEW s \in Reviews PROVE ReviewInv(s)'
  <2>1. CASE s = r
    <3>1. audit'[r]["EXECUTED"] = audit[r]["EXECUTED"] + 1
      BY LogCounts DEF IInv, TypeOK, Outcomes
    <3>2. task'[r] = "audited"
      BY DEF IInv, TypeOK
    <3>3. ChainInv(r)'
      <4>1. Len(published[r]) = 1 /\ audit[r]["EXECUTED"] = 0 /\ soar[r] = <<>>
        BY DEF IInv, ReviewInv, ChainInv
      <4>2. QED
        BY <3>1, <3>2, <4>1 DEF ChainInv, Undecided, Waiting
    <3>4. VerdictInv(r)' /\ RowsInv(r)' /\ PublishedInv(r)'
      BY <3>2 DEF IInv, ReviewInv, VerdictInv, RowsInv, PublishedInv, Undecided, Decided, Waiting
    <3>5. TimeoutInv(r)' /\ ListenerInv(r)' /\ ClientInv(r)' /\ ResolvedInv(r)'
      BY <3>2 DEF IInv, ReviewInv, TimeoutInv, ListenerInv, ClientInv, ResolvedInv, Listening
    <3>6. QED
      BY <2>1, <3>3, <3>4, <3>5 DEF ReviewInv
  <2>2. CASE s # r
    <3>1. SameReview(s)
      BY <2>2, LogCounts DEF IInv, TypeOK, SameReview, Outcomes, OutcomeOf
    <3>2. QED
      BY <3>1, SameReviewInv DEF IInv
  <2>3. QED
    BY <2>1, <2>2
<1>3. \A q \in Requests : RequestInv(q)'
  BY DEF IInv, RequestInv
<1>4. QED
  BY <1>1, <1>2, <1>3 DEF IInv

\* RunSoar: at most one execution, after its audit row.
LEMMA RunSoarStep ==
    ASSUME IInv, NEW r \in Reviews, RunSoar(r)
    PROVE  IInv'
<1> USE DEF RunSoar, Goto, env, timing, listener, choice, database, outputs
<1>1. TypeOK'
  BY HitlAssumption DEF IInv, TypeOK, TaskStates, Running
<1>2. ASSUME NEW s \in Reviews PROVE ReviewInv(s)'
  <2>1. CASE s = r
    BY HitlAssumption, <2>1, <1>1 DEF IInv, TypeOK, ReviewInv, VerdictInv, TimeoutInv, RowsInv, ChainInv,
       PublishedInv, ListenerInv, ClientInv, ResolvedInv, Listening, Undecided, Decided, Waiting
  <2>2. CASE s # r
    <3>1. SameReview(s)
      BY <2>2 DEF IInv, TypeOK, SameReview
    <3>2. QED
      BY <3>1, SameReviewInv DEF IInv
  <2>3. QED
    BY <2>1, <2>2
<1>3. \A q \in Requests : RequestInv(q)'
  BY DEF IInv, RequestInv
<1>4. QED
  BY <1>1, <1>2, <1>3 DEF IInv

\* CloseReview: the audit row of a refusal or an escalation.
LEMMA CloseReviewStep ==
    ASSUME IInv, NEW r \in Reviews, CloseReview(r)
    PROVE  IInv'
<1> USE DEF CloseReview, Goto, env, timing, listener, choice, database, outputs
<1>1. TypeOK'
  BY LogCounts DEF IInv, TypeOK, TaskStates, Running, Outcomes, OutcomeOf
<1>2. ASSUME NEW s \in Reviews PROVE ReviewInv(s)'
  <2>1. CASE s = r
    <3> DEFINE o == OutcomeOf(verdict[r].action)
    <3>1. o \in Outcomes \ {"EXECUTED"}
      BY DEF OutcomeOf, Outcomes
    <3>2. /\ audit'[r]["EXECUTED"] = audit[r]["EXECUTED"]
          /\ audit'[r][o] = audit[r][o] + 1
      <4>1. Log(r, o) /\ audit \in [Reviews -> [Outcomes -> Nat]]
        BY DEF IInv, TypeOK
      <4> HIDE DEF CloseReview, o
      <4>2. QED
        BY <3>1, <4>1, LogCounts DEF Outcomes
    <3>3. audit[r][o] + 1 > 0
      BY <3>1 DEF IInv, TypeOK
    <3>4. task'[r] = "resolved"
      BY DEF IInv, TypeOK
    <3>5. ResolvedInv(r)'
      BY <3>2, <3>3 DEF ResolvedInv
    <3> HIDE DEF o
    <3>6. QED
      BY <2>1, <3>2, <3>4, <3>5 DEF IInv, TypeOK, ReviewInv, VerdictInv, TimeoutInv, RowsInv, ChainInv,
       PublishedInv, ListenerInv, ClientInv, Listening, Undecided, Decided, Waiting
  <2>2. CASE s # r
    <3>1. SameReview(s)
      BY <2>2, LogCounts DEF IInv, TypeOK, SameReview, Outcomes, OutcomeOf
    <3>2. QED
      BY <3>1, SameReviewInv DEF IInv
  <2>3. QED
    BY <2>1, <2>2
<1>3. \A q \in Requests : RequestInv(q)'
  BY DEF IInv, RequestInv
<1>4. QED
  BY <1>1, <1>2, <1>3 DEF IInv

\* TaskFails: a lost task leaves everything where it is.
LEMMA TaskFailsStep ==
    ASSUME IInv, NEW r \in Reviews, TaskFails(r)
    PROVE  IInv'
<1> USE DEF TaskFails, Goto, env, timing, listener, choice, database, outputs
<1>1. TypeOK'
  BY HitlAssumption DEF IInv, TypeOK, TaskStates
<1>2. ASSUME NEW s \in Reviews PROVE ReviewInv(s)'
  <2>1. CASE s = r
    BY <2>1, <1>1 DEF IInv, TypeOK, ReviewInv, VerdictInv, TimeoutInv, RowsInv, ChainInv,
       PublishedInv, ListenerInv, ClientInv, ResolvedInv, Listening, Undecided, Decided, Waiting
  <2>2. CASE s # r
    <3>1. SameReview(s)
      BY <2>2 DEF IInv, TypeOK, SameReview
    <3>2. QED
      BY <3>1, SameReviewInv DEF IInv
  <2>3. QED
    BY <2>1, <2>2
<1>3. \A q \in Requests : RequestInv(q)'
  BY DEF IInv, RequestInv
<1>4. QED
  BY <1>1, <1>2, <1>3 DEF IInv

\* Submit: an analyst's decision, on its way.
LEMMA SubmitStep ==
    ASSUME IInv, NEW q \in Requests, Submit(q)
    PROVE  IInv'
<1> USE DEF Submit, env, timing, listener, choice, database, outputs
<1>1. PICK a \in Actions, e \in BOOLEAN :
        request' = [request EXCEPT ![q].state = "storing", ![q].decision =
            [action |-> a, by |-> "analyst", edited |-> e, at |-> stamp + 1]]
  OBVIOUS
<1>2. [action |-> a, by |-> "analyst", edited |-> e, at |-> stamp + 1] \in Decision
  BY DEF IInv, TypeOK, Decision, Deciders
<1>3. TypeOK'
  <2> DEFINE d == [action |-> a, by |-> "analyst", edited |-> e, at |-> stamp + 1]
             new == [request[q] EXCEPT !.state = "storing", !.decision = d]
  <2>1. request[q] \in [state : RequestStates, review : Reviews,
                        decision : Decision \cup {NoDecision}]
    BY DEF IInv, TypeOK
  <2>2. d \in Decision \cup {NoDecision} /\ "storing" \in RequestStates
    BY <1>2 DEF RequestStates
  <2> HIDE DEF d
  <2>3. new \in [state : RequestStates, review : Reviews, decision : Decision \cup {NoDecision}]
    BY <2>1, <2>2
  <2> HIDE DEF new
  <2>4. [request EXCEPT ![q] = new] \in RequestType
    BY <2>3 DEF IInv, TypeOK, RequestType
  <2>5. request' = [request EXCEPT ![q] = new]
    BY <1>1 DEF d, new
  <2>6. /\ stamp' \in Nat
        /\ UNCHANGED <<timing, listener, database, outputs, backend, task, verdict, faults>>
    BY DEF IInv, TypeOK
  <2> HIDE DEF Submit
  <2>7. QED
    BY <2>4, <2>5, <2>6 DEF IInv, TypeOK, RequestType
<1>4. ASSUME NEW s \in Reviews PROVE ReviewInv(s)'
  BY SameReviewInv DEF IInv, SameReview
<1>5. ASSUME NEW p \in Requests PROVE RequestInv(p)'
  BY <1>1, <1>2 DEF IInv, TypeOK, RequestInv
<1>6. QED
  BY <1>3, <1>4, <1>5 DEF IInv

\* StoreDecision: an analyst's row, which wakes a listening task.
LEMMA StoreDecisionStep ==
    ASSUME IInv, NEW q \in Requests, StoreDecision(q)
    PROVE  IInv'
<1> DEFINE r == request[q].review
           d == request[q].decision
<1> USE DEF StoreDecision, env, timing, listener, choice, database, outputs
<1>1. r \in Reviews /\ d \in Decision /\ d.by = "analyst" /\ CommitDecision(r, d)
  BY DEF IInv, TypeOK, RequestInv
<1>2. TypeOK'
  <2>1. request' \in RequestType
    BY RequestMoves DEF IInv, RequestStates
  <2>2. QED
    BY <1>1, <2>1, CommitTypes DEF IInv, TypeOK, RequestType
<1>3. ASSUME NEW s \in Reviews PROVE ReviewInv(s)'
  <2>1. CASE s = r
    <3>1. /\ rows'[r] = rows[r] \cup {d}
          /\ status'[r] \in Actions
          /\ notified'[r] = notified[r]
          /\ wire'[r] = IF Listening(r) /\ wire[r] = "quiet" THEN "notifying" ELSE wire[r]
      BY <1>1, DecisionFields DEF IInv, TypeOK, CommitDecision, Notify
    <3>2. /\ ChainInv(r)'
          /\ PublishedInv(r)' /\ VerdictInv(r)'
          /\ TimeoutInv(r)'
          /\ ResolvedInv(r)'
      <4>1. ChainInv(r)'
        BY <1>1 DEF IInv, ReviewInv, ChainInv
      <4>2. PublishedInv(r)' /\ VerdictInv(r)'
        BY <1>1 DEF IInv, ReviewInv, PublishedInv, VerdictInv
      <4>3. TimeoutInv(r)' /\ ResolvedInv(r)'
        BY <1>1 DEF IInv, ReviewInv, TimeoutInv, ResolvedInv
      <4>4. QED
        BY <4>1, <4>2, <4>3
    <3>3. RowsInv(r)'
      BY <1>1, <3>1 DEF IInv, ReviewInv, RowsInv
    <3>4. ListenerInv(r)'
      <4>1. Listening(r)' <=> Listening(r)
        BY DEF Listening
      <4>2. wire[r] \in Wires /\ (Listening(r) => wire'[r] \in {"notifying", "cut"})
        BY <3>1 DEF IInv, TypeOK, Wires
      <4>3. rows'[r] # {}
        BY <3>1
      <4>4. task[r] \in {"absent", "inserted", "connecting"} => ~Listening(r)
        BY DEF Listening
      <4>5. ListenerInv(r) /\ UNCHANGED <<task, early, request[q].review>>
        BY <1>1 DEF IInv, TypeOK, ReviewInv
      <4> HIDE DEF StoreDecision, r
      <4>6. ~Listening(r) => wire'[r] = wire[r]
        BY <3>1
      <4>7. QED
        BY <3>1, <4>1, <4>2, <4>3, <4>4, <4>5, <4>6 DEF ListenerInv, r
    <3>5. ClientInv(r)'
      BY <1>1, <3>1 DEF IInv, ReviewInv, ClientInv
    <3>6. QED
      BY <2>1, <3>2, <3>3, <3>4, <3>5 DEF ReviewInv
  <2>2. CASE s # r
    <3>1. SameReview(s)
      BY <1>1, <2>2 DEF IInv, TypeOK, SameReview, CommitDecision, Notify
    <3>2. QED
      BY <3>1, SameReviewInv DEF IInv
  <2>3. QED
    BY <2>1, <2>2
<1>4. ASSUME NEW p \in Requests PROVE RequestInv(p)'
  BY DEF IInv, TypeOK, RequestInv
<1>5. QED
  BY <1>2, <1>3, <1>4 DEF IInv

\* StoreAudit: a second row of the analyst's outcome, never an EXECUTED one.
LEMMA StoreAuditStep ==
    ASSUME IInv, NEW q \in Requests, StoreAudit(q)
    PROVE  IInv'
<1> DEFINE r == request[q].review
           o == OutcomeOf(request[q].decision.action)
<1> USE DEF StoreAudit, env, timing, listener, choice, database, outputs
<1>1. r \in Reviews /\ o \in Outcomes \ {"EXECUTED"} /\ Log(r, o)
  BY DEF IInv, TypeOK, OutcomeOf, Outcomes
<1> HIDE DEF o
<1>2. /\ audit' \in [Reviews -> [Outcomes -> Nat]]
      /\ \A s \in Reviews \ {r} : audit'[s] = audit[s]
      /\ audit'[r][o] = audit[r][o] + 1
      /\ \A p \in Outcomes \ {o} : audit'[r][p] = audit[r][p]
  BY <1>1, LogCounts DEF IInv, TypeOK
<1>3. TypeOK'
  <2>1. request' \in RequestType
    BY RequestMoves DEF IInv, RequestStates
  <2>2. UNCHANGED <<timing, listener, choice, outputs, backend, task, rows, status, faults>>
    OBVIOUS
  <2> HIDE DEF StoreAudit, r
  <2>3. QED
    BY <1>2, <2>1, <2>2 DEF IInv, TypeOK, RequestType
<1>4. ASSUME NEW s \in Reviews PROVE ReviewInv(s)'
  <2>1. CASE s = r
    <3>1. audit'[r]["EXECUTED"] = audit[r]["EXECUTED"]
      BY <1>1, <1>2 DEF Outcomes
    <3>2. ASSUME NEW p \in Outcomes
          PROVE  audit[r][p] \in Nat /\ audit'[r][p] \in {audit[r][p], audit[r][p] + 1}
      <4>1. audit[r][p] \in Nat
        BY <1>1 DEF IInv, TypeOK
      <4>2. audit'[r][p] \in {audit[r][p], audit[r][p] + 1}
        BY <1>2
      <4>3. QED
        BY <4>1, <4>2
    <3>3. ChainInv(r)'
      BY <1>1, <3>1 DEF IInv, ReviewInv, ChainInv
    <3>4. PublishedInv(r)' /\ VerdictInv(r)' /\ TimeoutInv(r)' /\ RowsInv(r)'
      BY <1>1 DEF IInv, ReviewInv, PublishedInv, VerdictInv, TimeoutInv, RowsInv
    <3>5. ListenerInv(r)' /\ ClientInv(r)'
      BY <1>1 DEF IInv, ReviewInv, ListenerInv, ClientInv, Listening
    <3>6. ResolvedInv(r)'
      <4> DEFINE v == IF verdict[r].action \in {"APPROVE", "EDIT"}
                      THEN "EXECUTED" ELSE OutcomeOf(verdict[r].action)
      <4>1. v \in Outcomes
        BY DEF OutcomeOf, Outcomes
      <4>2. task[r] = "resolved" => audit[r][v] > 0
        BY <1>1 DEF IInv, ReviewInv, ResolvedInv
      <4> HIDE DEF v
      <4>3. audit[r][v] \in Nat /\ audit'[r][v] \in {audit[r][v], audit[r][v] + 1}
        BY <3>2, <4>1
      <4>4. audit[r][v] > 0 => audit'[r][v] > 0
        <5> HIDE DEF StoreAudit, r
        <5>1. QED
          BY <4>3
      <4>5. task'[r] = task[r] /\ verdict'[r] = verdict[r]
        OBVIOUS
      <4>6. request'[q].review = r
        BY DEF IInv, TypeOK
      <4>7. QED
        BY <4>2, <4>4, <4>5, <4>6 DEF ResolvedInv, v
    <3>7. QED
      BY <2>1, <3>3, <3>4, <3>5, <3>6 DEF ReviewInv
  <2>2. CASE s # r
    <3>1. SameReview(s)
      BY <1>2, <2>2 DEF IInv, TypeOK, SameReview
    <3>2. QED
      BY <3>1, SameReviewInv DEF IInv
  <2>3. QED
    BY <2>1, <2>2
<1>5. ASSUME NEW p \in Requests PROVE RequestInv(p)'
  BY DEF IInv, TypeOK, RequestInv
<1>6. QED
  BY <1>3, <1>4, <1>5 DEF IInv

\* RequestFails: a handler that stops leaves what it committed.
LEMMA RequestFailsStep ==
    ASSUME IInv, NEW q \in Requests, RequestFails(q)
    PROVE  IInv'
<1> USE DEF RequestFails, env, timing, listener, choice, database, outputs
<1>1. TypeOK'
  <2>1. request' \in RequestType
    BY RequestMoves DEF IInv, RequestStates
  <2>2. faults' \in 0 .. MaxFaults
    BY HitlAssumption DEF IInv, TypeOK
  <2>3. UNCHANGED <<timing, listener, choice, database, outputs, backend, task>>
    OBVIOUS
  <2> HIDE DEF RequestFails
  <2>4. QED
    BY <2>1, <2>2, <2>3 DEF IInv, TypeOK, RequestType
<1>2. ASSUME NEW s \in Reviews PROVE ReviewInv(s)'
  BY SameReviewInv DEF IInv, SameReview
<1>3. ASSUME NEW p \in Requests PROVE RequestInv(p)'
  BY DEF IInv, TypeOK, RequestInv
<1>4. QED
  BY <1>1, <1>2, <1>3 DEF IInv

\* Crash: tasks are lost, and nothing else of what the database holds.
LEMMA CrashStep ==
    ASSUME IInv, Crash
    PROVE  IInv'
<1> USE DEF Crash, env, timing, listener, choice, database, outputs
<1>1. TypeOK'
  BY HitlAssumption DEF IInv, TypeOK, TaskStates
<1>2. ASSUME NEW s \in Reviews PROVE ReviewInv(s)'
  <2>1. CASE task[s] \in Running
    <3>1. task'[s] = "lost"
      BY <2>1
    <3>2. QED
      BY <3>1 DEF IInv, ReviewInv, VerdictInv, TimeoutInv, RowsInv, ChainInv, PublishedInv,
         ListenerInv, ClientInv, ResolvedInv, Listening, Undecided, Decided, Waiting
  <2>2. CASE task[s] \notin Running
    <3>1. SameReview(s)
      BY <2>2 DEF SameReview
    <3>2. QED
      BY <3>1, SameReviewInv DEF IInv
  <2>3. QED
    BY <2>1, <2>2
<1>3. \A q \in Requests : RequestInv(q)'
  BY DEF IInv, RequestInv
<1>4. QED
  BY <1>1, <1>2, <1>3 DEF IInv

\* Tick: a clock that has reached the timeout stays there, and none is
\* running for a task that has not started to wait.
LEMMA TickStep ==
    ASSUME IInv, Tick
    PROVE  IInv'
<1> USE DEF Tick, env, timing, listener, choice, database, outputs
<1>1. ASSUME NEW s \in Reviews
      PROVE  /\ age'[s] \in 0 .. TimeoutSeconds
             /\ age[s] = TimeoutSeconds => age'[s] = TimeoutSeconds
             /\ task[s] \notin Waiting => age'[s] = age[s]
             /\ timer'[s] \in Nat
  BY HitlAssumption DEF IInv, TypeOK, Least
<1>2. TypeOK'
  BY <1>1 DEF IInv, TypeOK
<1>3. ASSUME NEW s \in Reviews PROVE ReviewInv(s)'
  <2>1. VerdictInv(s)' /\ RowsInv(s)' /\ ChainInv(s)' /\ PublishedInv(s)'
    BY DEF IInv, ReviewInv, VerdictInv, RowsInv, ChainInv, PublishedInv
  <2>2. TimeoutInv(s)' /\ ListenerInv(s)' /\ ResolvedInv(s)'
    BY <1>1 DEF IInv, ReviewInv, TimeoutInv, ListenerInv, ResolvedInv, Listening
  <2>3. ClientInv(s)'
    BY <1>1 DEF IInv, ReviewInv, ClientInv, Waiting
  <2>4. QED
    BY <2>1, <2>2, <2>3 DEF ReviewInv
<1>4. \A q \in Requests : RequestInv(q)'
  BY DEF IInv, RequestInv
<1>5. QED
  BY <1>2, <1>3, <1>4 DEF IInv

-----------------------------------------------------------------------------

\* No step of a task, a handler, the clock or a failure breaks the invariant.
LEMMA NextIInv == IInv /\ [Next]_vars => IInv'
<1> SUFFICES ASSUME IInv, [Next]_vars PROVE IInv'
  OBVIOUS
<1>1. ASSUME NEW r \in Reviews, InsertReview(r) \/ TaskFails(r) PROVE IInv'
  BY <1>1, InsertReviewStep, TaskFailsStep
<1>2. ASSUME NEW r \in Reviews, TaskStep(r) PROVE IInv'
  BY <1>2, ParkAndDetachStep, ListenStep, GiveUpStep, KeepWaitingStep, TakeNotificationStep,
     TimerFiresStep, ReadDecisionStep, PollAgainLaterStep, RecordVerdictStep,
     PublishPlaybookStep, AuditExecutedStep, RunSoarStep, CloseReviewStep
     DEF TaskStep
<1>3. ASSUME NEW q \in Requests, Submit(q) \/ HandlerStep(q) \/ RequestFails(q) PROVE IInv'
  BY <1>3, SubmitStep, StoreDecisionStep, StoreAuditStep, RequestFailsStep DEF HandlerStep
<1>4. CASE Crash
  BY <1>4, CrashStep
<1>5. CASE Tick
  BY <1>5, TickStep
<1>6. CASE UNCHANGED vars
  <2>1. TypeOK'
    BY <1>6 DEF IInv, TypeOK, vars, env, timing, listener, choice, database, outputs
  <2>2. ASSUME NEW s \in Reviews PROVE ReviewInv(s)'
    BY <1>6, SameReviewInv
       DEF IInv, SameReview, vars, env, timing, listener, choice, database, outputs
  <2>3. \A q \in Requests : RequestInv(q)'
    BY <1>6 DEF IInv, RequestInv, vars, env
  <2>4. QED
    BY <2>1, <2>2, <2>3 DEF IInv
<1>7. ASSUME NEW r \in Reviews, Deliver(r) \/ LoseListener(r) PROVE IInv'
  BY <1>7, DeliverStep, LoseListenerStep
<1>8. QED
  BY <1>1, <1>2, <1>3, <1>4, <1>5, <1>6, <1>7 DEF Next, Step

\* The invariant of every behaviour of the review.
THEOREM Invariant == Spec => []IInv
  BY InitIInv, NextIInv, PTL DEF Spec

\* Type correctness of the review's state.
THEOREM TypeCorrect == Spec => []TypeOK
<1>1. IInv => TypeOK
  BY DEF IInv
<1>2. QED
  BY <1>1, Invariant, PTL

\* The pipeline decides alone only after the whole window, senior notified.
THEOREM TimeoutIsLate == Spec => []SilenceBeforeTimeout
<1>1. IInv => SilenceBeforeTimeout
  BY DEF IInv, ReviewInv, TimeoutInv, SilenceBeforeTimeout
<1>2. QED
  BY <1>1, Invariant, PTL

\* The resume task has stored its decision before it acts on it.
THEOREM DecisionIsRecorded == Spec => []ActsOnRecordedDecision
<1>1. IInv => ActsOnRecordedDecision
  <2> SUFFICES ASSUME IInv, NEW r \in Reviews,
                      published[r] # <<>> \/ soar[r] # <<>> \/ task[r] \in {"recorded", "resolved"}
               PROVE  verdict[r] \in rows[r] /\ status[r] # "PENDING"
    BY DEF ActsOnRecordedDecision
  <2>1. soar[r] # <<>> => published[r] # <<>>
    <3>1. /\ Len(soar[r]) <= audit[r]["EXECUTED"]
          /\ audit[r]["EXECUTED"] <= Len(published[r])
          /\ audit[r]["EXECUTED"] \in Nat
      BY DEF IInv, ReviewInv, ChainInv, TypeOK, Outcomes
    <3>2. soar[r] \in Seq(SUBSET StepKinds) /\ published[r] \in Seq(SUBSET StepKinds)
      BY DEF IInv, TypeOK
    <3>3. QED
      BY <3>1, <3>2
  <2>2. verdict[r] \in rows[r] /\ status[r] \in Actions
    BY <2>1 DEF IInv, ReviewInv, RowsInv
  <2>3. QED
    BY <2>2 DEF Actions
<1>2. QED
  BY <1>1, Invariant, PTL

\* A published irreversible step has an approving analyst's row behind it:
\* the timeout's own playbook has been stripped of them.
THEOREM HumanBehindPublished == Spec => []HumanBehindIrreversible
<1>1. IInv => HumanBehindIrreversible
  <2> SUFFICES ASSUME IInv, NEW r \in Reviews, NEW i \in DOMAIN published[r],
                      published[r][i] \cap Irreversible # {}
               PROVE  \E d \in rows[r] : d.by = "analyst" /\ d.action \in {"APPROVE", "EDIT"}
    BY DEF HumanBehindIrreversible
  <2>1. published[r] # <<>>
    OBVIOUS
  <2>2. verdict[r] \in rows[r] /\ verdict[r] \in Decision
    BY <2>1 DEF IInv, TypeOK, ReviewInv, RowsInv
  <2>3. /\ published[r][i] = PlaybookOf(verdict[r])
        /\ verdict[r].action \in {"APPROVE", "EDIT"}
    BY DEF IInv, ReviewInv, PublishedInv
  <2>4. verdict[r].by # "system:timeout"
    BY <2>3 DEF PlaybookOf, StripIrreversible
  <2>5. verdict[r].by = "analyst"
    BY <2>2, <2>4, DecisionFields DEF Deciders
  <2>6. QED
    BY <2>2, <2>3, <2>5
<1>2. QED
  BY <1>1, Invariant, PTL

\* Published, audited, executed: in this order and at most once each.
THEOREM ExecutionIsChained == Spec => []ExecutionChain
<1>1. IInv => ExecutionChain
  BY DEF IInv, ReviewInv, ChainInv, ExecutionChain
<1>2. QED
  BY <1>1, Invariant, PTL

\* No wait forgets a wakeup: a row committed since the LISTEN is known to the
\* task or on its way to it unless the connection dropped, and no wakeup comes
\* without a row.
THEOREM WakeupsAreSound == Spec => []WakeupsMatchRows
<1>1. IInv => WakeupsMatchRows
  BY DEF IInv, ReviewInv, ListenerInv, WakeupsMatchRows
<1>2. QED
  BY <1>1, Invariant, PTL

\* The timeout never overrides a decision that the SQLite loop starts with.
THEOREM EarlyDecisionWins == Spec => []EarlyDecisionTaken
<1>1. IInv => EarlyDecisionTaken
  BY DEF IInv, ReviewInv, ClientInv, EarlyDecisionTaken
<1>2. QED
  BY <1>1, Invariant, PTL

\* A resolved review has the audit row of its outcome.
THEOREM ResolutionIsAudited == Spec => []ResolvedIsAudited
<1>1. IInv => ResolvedIsAudited
  BY DEF IInv, ReviewInv, ResolvedInv, ResolvedIsAudited
<1>2. QED
  BY <1>1, Invariant, PTL

=============================================================================
