------------------------- MODULE HitlContractProofs -------------------------
(***************************************************************************)
(* HitlReview implements ReviewContract, for any reviews, requests,        *)
(* playbooks and timings: every step of a task, a handler, the clock or a  *)
(* fault is a step of the contract or leaves stage, offers, ruling and     *)
(* effect alone.  The mapping is the one of HitlReview's Contract.         *)
(***************************************************************************)
EXTENDS HitlReviewProofs

\* Only approvals are made up, and nobody decides on a review that is not
\* opened: what the steps of the contract need beyond IInv.
ApprovesItself(r) == verdict[r].by = "system:timeout" => verdict[r].action = "APPROVE"
OpenedFirst(r) == task[r] = "absent" => status[r] = "none"
AsksAboutOpened(q) == request[q].state = "storing" => task[request[q].review] # "absent"

CInv ==
    /\ IInv
    /\ \A r \in Reviews : ApprovesItself(r) /\ OpenedFirst(r)
    /\ \A q \in Requests : AsksAboutOpened(q)

\* What analysts offered for a review.
Offered(r) == {d.action : d \in {e \in rows[r] : e.by = "analyst"}}

Stages == [r \in Reviews |-> ContractStage(r)]
AllOffers == [r \in Reviews |-> Offered(r)]
AllRulings == [r \in Reviews |-> ContractRuling(r)]
Effects == [r \in Reviews |-> ContractEffect(r)]

Implements == Contract!Next \/ UNCHANGED <<Stages, AllOffers, AllRulings, Effects>>

-----------------------------------------------------------------------------

LEMMA InitContract == Init => CInv /\ Contract!Init
<1> SUFFICES ASSUME Init PROVE CInv /\ Contract!Init
  OBVIOUS
<1>1. IInv
  BY InitIInv
<1>2. CInv
  BY <1>1 DEF Init, CInv, ApprovesItself, OpenedFirst, AsksAboutOpened, NoDecision
<1>3. \A r \in Reviews :
         /\ ContractStage(r) = "unopened" /\ Offered(r) = {}
         /\ ContractRuling(r) = "none" /\ ContractEffect(r) = "none"
  BY DEF Init, ContractStage, Offered, ContractRuling, ContractEffect
<1>4. Contract!Init
  BY <1>3 DEF Contract!Init, Offered
<1>5. QED
  BY <1>2, <1>4

\* A review looks the same as long as its verdict, what was published and
\* offered, and the ends of its task are the same; after its playbook is out,
\* however its task ends.
LEMMA SameView ==
    ASSUME NEW r \in Reviews, UNCHANGED <<verdict[r], published[r], Offered(r)>>,
           \/ published[r] # <<>>
           \/ \A s \in {"absent", "resolved", "lost"} : task'[r] = s <=> task[r] = s
    PROVE  UNCHANGED <<ContractStage(r), Offered(r), ContractRuling(r), ContractEffect(r)>>
  BY DEF ContractStage, ContractRuling, ContractEffect

\* A step that no review shows is none of the contract's.
LEMMA QuietStep ==
    ASSUME \A r \in Reviews :
              /\ UNCHANGED <<verdict[r], published[r], Offered(r)>>
              /\ \/ published[r] # <<>>
                 \/ \A s \in {"absent", "resolved", "lost"} : task'[r] = s <=> task[r] = s
    PROVE  Implements
<1>1. \A r \in Reviews :
         UNCHANGED <<ContractStage(r), Offered(r), ContractRuling(r), ContractEffect(r)>>
  BY SameView
<1>2. QED
  BY <1>1 DEF Implements, Stages, AllOffers, AllRulings, Effects

\* No decision is made up, no review opened or asked about.
LEMMA KeepsCInv ==
    ASSUME CInv, IInv', UNCHANGED verdict,
           \A r \in Reviews : task'[r] = "absent" => task[r] = "absent" /\ status'[r] = status[r],
           \A q \in Requests : request'[q].state = "storing" =>
               request[q].state = "storing" /\ request'[q].review = request[q].review
    PROVE  CInv'
<1>1. \A r \in Reviews : ApprovesItself(r)' /\ OpenedFirst(r)'
  BY DEF CInv, ApprovesItself, OpenedFirst
<1>2. ASSUME NEW q \in Requests PROVE AsksAboutOpened(q)'
  <2>1. request[q].review \in Reviews
    BY DEF CInv, IInv, TypeOK
  <2>2. AsksAboutOpened(q)
    BY DEF CInv
  <2>3. QED
    BY <2>1, <2>2 DEF AsksAboutOpened
<1>3. QED
  BY <1>1, <1>2 DEF CInv

\* A task that moves between the states a review does not show.
LEMMA MovesOn ==
    ASSUME CInv, NEW r \in Reviews, NEW s \in TaskStates, Goto(r, s),
           UNCHANGED <<verdict, published>>, \A t \in Reviews : Offered(t)' = Offered(t),
           \/ published[r] # <<>>
           \/ {task[r], s} \cap {"absent", "resolved", "lost"} = {}
    PROVE  Implements
<1>1. task'[r] = s /\ \A t \in Reviews \ {r} : task'[t] = task[t]
  BY DEF Goto, CInv, IInv, TypeOK
<1>2. QED
  BY <1>1, QuietStep

LEMMA StartStep ==
    ASSUME CInv, IInv', NEW r \in Reviews,
           ParkAndDetach(r) \/ Listen(r) \/ KeepWaiting(r) \/ TakeNotification(r)
           \/ TimerFires(r) \/ PollAgainLater(r)
    PROVE  CInv' /\ Implements
<1>1. PICK s \in Waiting : Goto(r, s)
  BY DEF ParkAndDetach, Listen, KeepWaiting, TakeNotification, TimerFires, PollAgainLater, Waiting
<1>2. /\ task[r] \notin {"absent", "resolved", "lost"}
      /\ UNCHANGED <<verdict, published, rows, status, request>>
  BY DEF ParkAndDetach, Listen, KeepWaiting, TakeNotification, TimerFires, PollAgainLater,
         env, choice, database, outputs
<1>3. s \in TaskStates /\ s \notin {"absent", "resolved", "lost"}
  BY DEF TaskStates, Running, Waiting
<1>4. Implements
  BY <1>1, <1>2, <1>3, MovesOn DEF Offered
<1>5. \A t \in Reviews : task'[t] = "absent" => task[t] = "absent"
  BY <1>1, <1>3 DEF Goto, CInv, IInv, TypeOK
<1>6. QED
  BY <1>2, <1>4, <1>5, KeepsCInv

-----------------------------------------------------------------------------
(* The steps a review shows.                                               *)

\* The reviews whose part of the state is the same look the same.
LEMMA OthersView ==
    ASSUME NEW r \in Reviews,
           \A t \in Reviews \ {r} : UNCHANGED <<task[t], verdict[t], published[t], rows[t]>>
    PROVE  \A t \in Reviews \ {r} :
               UNCHANGED <<ContractStage(t), Offered(t), ContractRuling(t), ContractEffect(t)>>
<1>1. \A t \in Reviews \ {r} : UNCHANGED Offered(t)
  BY DEF Offered
<1>2. QED
  BY <1>1, SameView

\* The insert opens the review.
LEMMA OpenStep ==
    ASSUME CInv, IInv', NEW r \in Reviews, InsertReview(r)
    PROVE  CInv' /\ Implements
<1>1. /\ task[r] = "absent" /\ Goto(r, "inserted")
      /\ status' = [status EXCEPT ![r] = "PENDING"]
      /\ UNCHANGED <<verdict, published, rows, request>>
  BY DEF InsertReview, choice, outputs, env
<1>2. task'[r] = "inserted" /\ \A t \in Reviews \ {r} : task'[t] = task[t] /\ status'[t] = status[t]
  BY <1>1 DEF Goto, CInv, IInv, TypeOK
<1>3. CInv'
  BY <1>1, <1>2, KeepsCInv
<1>4. published[r] = <<>> /\ verdict[r] = NoDecision
  BY <1>1 DEF CInv, IInv, ReviewInv, ChainInv, VerdictInv, Undecided
<1>5. /\ ContractStage(r) = "unopened" /\ ContractStage(r)' = "open"
      /\ UNCHANGED <<Offered(r), ContractRuling(r), ContractEffect(r)>>
  BY <1>1, <1>2, <1>4 DEF ContractStage, Offered, ContractRuling, ContractEffect
<1>6. Contract!Open(r)
  BY <1>1, <1>2, <1>5, OthersView DEF Contract!Open, Offered
<1>7. QED
  BY <1>3, <1>6 DEF Implements, Contract!Next

\* A task that has no verdict yet takes one: an offer, or the timeout's own.
LEMMA RuleStep ==
    ASSUME CInv, IInv', NEW r \in Reviews, NEW d \in Decision,
           task[r] \in Waiting, Goto(r, "deciding"), verdict' = [verdict EXCEPT ![r] = d],
           UNCHANGED <<published, rows, status, request>>,
           \/ d.by = "analyst" /\ d \in rows[r]
           \/ d.by = "system:timeout" /\ d.action = "APPROVE"
    PROVE  CInv' /\ Implements
<1>1. /\ task'[r] = "deciding" /\ verdict'[r] = d
      /\ \A t \in Reviews \ {r} : task'[t] = task[t] /\ verdict'[t] = verdict[t]
  BY DEF Goto, CInv, IInv, TypeOK
<1>2. task[r] \notin {"absent", "resolved", "lost"}
  BY DEF Waiting
<1>3. CInv'
  <2>1. \A t \in Reviews : ApprovesItself(t)' /\ OpenedFirst(t)'
    BY <1>1 DEF CInv, ApprovesItself, OpenedFirst
  <2>2. \A q \in Requests : AsksAboutOpened(q)'
    BY <1>1 DEF CInv, IInv, TypeOK, AsksAboutOpened
  <2>3. QED
    BY <2>1, <2>2 DEF CInv
<1>4. published[r] = <<>> /\ verdict[r] = NoDecision /\ d # NoDecision
  BY DecisionFields DEF CInv, IInv, ReviewInv, ChainInv, VerdictInv, Undecided
<1>5. PICK v \in Contract!Rulings : /\ v \in Offered(r) \cup {"TIMEOUT"}
                                    /\ ContractRuling(r)' = v
  <2>1. CASE d.by = "analyst" /\ d \in rows[r]
    <3>1. d.action \in Offered(r) /\ ContractRuling(r)' = d.action
      BY <1>1, <1>4, <2>1 DEF Offered, ContractRuling
    <3>2. d.action \in Contract!Rulings
      BY DecisionFields DEF Actions, Contract!Rulings, Contract!Offers
    <3>3. QED
      BY <3>1, <3>2
  <2>2. CASE d.by = "system:timeout"
    BY <1>1, <1>4, <2>2 DEF ContractRuling, Contract!Rulings
  <2>3. QED
    BY <2>1, <2>2
<1>6. /\ ContractStage(r) = "open" /\ ContractStage(r)' = "ruled"
      /\ UNCHANGED <<Offered(r), ContractEffect(r)>>
  BY <1>1, <1>2, <1>4 DEF ContractStage, Offered, ContractEffect
<1>7. Contract!Rule(r, v)
  BY <1>1, <1>5, <1>6, OthersView DEF Contract!Rule, Offered
<1>8. QED
  BY <1>3, <1>7 DEF Implements, Contract!Next

\* The timeout rules for itself, a decision that is read for an analyst.
LEMMA DecideStep ==
    ASSUME CInv, IInv', NEW r \in Reviews, GiveUp(r) \/ ReadDecision(r)
    PROVE  CInv' /\ Implements
<1>1. /\ task[r] \in Waiting /\ Goto(r, "deciding")
      /\ UNCHANGED <<published, rows, status, request>>
  BY DEF GiveUp, ReadDecision, Waiting, env, database, outputs
<1>2. CASE GiveUp(r)
  <2>1. /\ stamp + 1 \in Nat
        /\ verdict' = [verdict EXCEPT ![r] = TimeoutApproval(stamp + 1)]
    BY <1>2 DEF GiveUp, CInv, IInv, TypeOK
  <2>2. /\ TimeoutApproval(stamp + 1) \in Decision
        /\ TimeoutApproval(stamp + 1).by = "system:timeout"
        /\ TimeoutApproval(stamp + 1).action = "APPROVE"
    BY <2>1, TimeoutApprovalType DEF TimeoutApproval
  <2>3. QED
    BY <1>1, <2>1, <2>2, RuleStep
<1>3. CASE ReadDecision(r)
  <2>1. PICK d \in rows[r] : verdict' = [verdict EXCEPT ![r] = d]
    BY <1>3 DEF ReadDecision
  <2>2. d \in Decision /\ d.by = "analyst"
    BY <1>1 DEF CInv, IInv, TypeOK, ReviewInv, RowsInv, Undecided
  <2>3. QED
    BY <1>1, <2>1, <2>2, RuleStep
<1>4. QED
  BY <1>2, <1>3

\* The verdict that is recorded was an offer already, or is the timeout's and
\* no offer.
LEMMA RecordStep ==
    ASSUME CInv, IInv', NEW r \in Reviews, RecordVerdict(r)
    PROVE  CInv' /\ Implements
<1>1. /\ task[r] = "deciding" /\ Goto(r, "recorded")
      /\ rows' = [rows EXCEPT ![r] = @ \cup {verdict[r]}]
      /\ status' = [status EXCEPT ![r] = verdict[r].action]
      /\ UNCHANGED <<verdict, published, request>>
  BY DEF RecordVerdict, CommitDecision, choice, outputs, env
<1>2. /\ task'[r] = "recorded"
      /\ \A t \in Reviews \ {r} : task'[t] = task[t] /\ status'[t] = status[t] /\ rows'[t] = rows[t]
      /\ rows'[r] = rows[r] \cup {verdict[r]}
  BY <1>1 DEF Goto, CInv, IInv, TypeOK
<1>3. CInv'
  BY <1>1, <1>2, KeepsCInv
<1>4. verdict[r].by = "analyst" => verdict[r] \in rows[r]
  BY DEF CInv, IInv, ReviewInv, RowsInv
<1>5. Offered(r)' = Offered(r)
  BY <1>2, <1>4 DEF Offered
<1>6. \A t \in Reviews : Offered(t)' = Offered(t)
  BY <1>2, <1>5 DEF Offered
<1>7. Implements
  BY <1>1, <1>6, MovesOn DEF TaskStates, Running
<1>8. QED
  BY <1>3, <1>7

\* The effect that follows from the ruling is taken.
LEMMA EffectStep ==
    ASSUME CInv, IInv', NEW r \in Reviews, task[r] = "recorded", NEW s \in {"published", "resolved"},
           Goto(r, s), UNCHANGED <<verdict, rows, status, request>>,
           \A t \in Reviews \ {r} : published'[t] = published[t],
           s = "published" => published'[r] # <<>> /\ verdict[r].action \in {"APPROVE", "EDIT"},
           s = "resolved" => published'[r] = <<>> /\ verdict[r].action \in {"REJECT", "ESCALATE"}
    PROVE  CInv' /\ Implements
<1>1. task'[r] = s /\ \A t \in Reviews \ {r} : task'[t] = task[t]
  BY DEF Goto, CInv, IInv, TypeOK
<1>2. CInv'
  BY <1>1, KeepsCInv
<1>3. /\ published[r] = <<>> /\ verdict[r] \in Decision /\ verdict[r] # NoDecision
      /\ verdict[r].by \in {"analyst", "system:timeout"}
  BY DecisionFields DEF CInv, IInv, ReviewInv, ChainInv, VerdictInv, Decided, Deciders
<1>4. ContractStage(r) = "ruled" /\ ContractStage(r)' = "closed"
  BY <1>1, <1>3 DEF ContractStage
<1>5. UNCHANGED <<Offered(r), ContractRuling(r)>>
  BY DEF Offered, ContractRuling
<1>6. ContractEffect(r)' = Contract!EffectOf(ContractRuling(r))
  <2>1. CASE s = "published"
    <3>1. ContractEffect(r)' = "executed"
      BY <2>1 DEF ContractEffect
    <3>2. ContractRuling(r) \in {"APPROVE", "EDIT", "TIMEOUT"}
      BY <1>3, <2>1 DEF ContractRuling
    <3>3. QED
      BY <3>1, <3>2 DEF Contract!EffectOf
  <2>2. CASE s = "resolved"
    <3>1. verdict[r].by = "analyst"
      BY <1>3, <2>2 DEF CInv, ApprovesItself
    <3>2. ContractRuling(r) = verdict[r].action
      BY <1>3, <3>1 DEF ContractRuling
    <3>3. ContractEffect(r)' = IF verdict[r].action = "REJECT" THEN "dropped" ELSE "escalated"
      BY <1>1, <2>2 DEF ContractEffect
    <3>4. QED
      BY <2>2, <3>2, <3>3 DEF Contract!EffectOf
  <2>3. QED
    BY <2>1, <2>2
<1>7. Contract!Close(r)
  BY <1>1, <1>4, <1>5, <1>6, OthersView DEF Contract!Close, Offered
<1>8. QED
  BY <1>2, <1>7 DEF Implements, Contract!Next

\* Publishing the playbook, or the audit row of the two refusals.
LEMMA TakeEffectStep ==
    ASSUME CInv, IInv', NEW r \in Reviews, PublishPlaybook(r) \/ CloseReview(r)
    PROVE  CInv' /\ Implements
<1>1. /\ task[r] = "recorded" /\ UNCHANGED <<verdict, rows, status, request>>
  BY DEF PublishPlaybook, CloseReview, choice, database, env
<1>2. CASE PublishPlaybook(r)
  <2>1. /\ Goto(r, "published") /\ verdict[r].action \in {"APPROVE", "EDIT"}
        /\ published' = [published EXCEPT ![r] = Append(@, PlaybookOf(verdict[r]))]
        /\ published \in [Reviews -> Seq(SUBSET StepKinds)]
    BY <1>2 DEF PublishPlaybook, CInv, IInv, TypeOK
  <2>2. published'[r] = Append(published[r], PlaybookOf(verdict[r]))
    BY <2>1
  <2>3. published'[r] # <<>>
    BY <2>1, <2>2, PlaybookType
  <2>4. \A t \in Reviews \ {r} : published'[t] = published[t]
    BY <2>1
  <2>5. QED
    BY <1>1, <2>1, <2>3, <2>4, EffectStep
<1>3. CASE CloseReview(r)
  <2>1. /\ Goto(r, "resolved") /\ verdict[r].action \in {"REJECT", "ESCALATE"}
        /\ published' = published
    BY <1>3 DEF CloseReview, outputs
  <2>2. published[r] = <<>>
    BY <1>1 DEF CInv, IInv, ReviewInv, ChainInv
  <2>3. QED
    BY <1>1, <2>1, <2>2, EffectStep
<1>4. QED
  BY <1>2, <1>3

\* What follows the playbook's publication changes nothing of the effect.
LEMMA AfterEffectStep ==
    ASSUME CInv, IInv', NEW r \in Reviews, AuditExecuted(r) \/ RunSoar(r)
    PROVE  CInv' /\ Implements
<1>1. PICK s \in {"audited", "resolved"} : Goto(r, s)
  BY DEF AuditExecuted, RunSoar
<1>2. /\ task[r] \in {"published", "audited"}
      /\ UNCHANGED <<verdict, published, rows, status, request>>
  BY DEF AuditExecuted, RunSoar, env, choice, database, outputs
<1>3. published[r] # <<>>
  BY <1>2 DEF CInv, IInv, ReviewInv, ChainInv
<1>4. s \in TaskStates
  BY DEF TaskStates, Running
<1>5. Implements
  BY <1>1, <1>2, <1>3, <1>4, MovesOn DEF Offered
<1>6. \A t \in Reviews : task'[t] = "absent" => task[t] = "absent"
  BY <1>1 DEF Goto, CInv, IInv, TypeOK
<1>7. QED
  BY <1>2, <1>5, <1>6, KeepsCInv

-----------------------------------------------------------------------------
(* Analysts, the clock and what goes wrong.                                *)

\* A step that concerns no task, verdict, row or playbook.
LEMMA Unseen ==
    ASSUME CInv, UNCHANGED <<task, verdict, published, rows>>
    PROVE  Implements
<1>1. \A r \in Reviews : Offered(r)' = Offered(r)
  BY DEF Offered
<1>2. QED
  BY <1>1, QuietStep

\* A decision is asked about a review that shows in the dashboard.
LEMMA AskStep ==
    ASSUME CInv, IInv', NEW q \in Requests, Submit(q)
    PROVE  CInv' /\ Implements
<1>1. /\ status[request[q].review] # "none"
      /\ UNCHANGED <<task, verdict, published, rows, status>>
  BY DEF Submit, database, outputs
<1>2. PICK d : request' = [request EXCEPT ![q].state = "storing", ![q].decision = d]
  BY DEF Submit
<1>3. /\ request'[q].review = request[q].review /\ request[q].review \in Reviews
      /\ \A p \in Requests \ {q} : request'[p] = request[p]
  BY <1>2 DEF CInv, IInv, TypeOK
<1>4. task[request[q].review] # "absent"
  BY <1>1, <1>3 DEF CInv, OpenedFirst
<1>5. \A p \in Requests : AsksAboutOpened(p)'
  BY <1>1, <1>3, <1>4 DEF CInv, AsksAboutOpened
<1>6. \A r \in Reviews : ApprovesItself(r)' /\ OpenedFirst(r)'
  BY <1>1 DEF CInv, ApprovesItself, OpenedFirst
<1>7. CInv'
  BY <1>5, <1>6 DEF CInv
<1>8. Implements
  BY <1>1, Unseen
<1>9. QED
  BY <1>7, <1>8

\* An analyst's row is an offer, however far the review's task is.
LEMMA OfferStep ==
    ASSUME CInv, IInv', NEW q \in Requests, StoreDecision(q)
    PROVE  CInv' /\ Implements
<1>1. PICK r \in Reviews, d \in Decision :
        /\ r = request[q].review /\ d = request[q].decision /\ d.by = "analyst"
        /\ task[r] # "absent"
  <2>1. request[q].state = "storing" /\ RequestInv(q) /\ AsksAboutOpened(q)
    BY DEF StoreDecision, CInv, IInv
  <2>2. request[q].review \in Reviews
    BY DEF CInv, IInv, TypeOK
  <2>3. QED
    BY <2>1, <2>2 DEF RequestInv, AsksAboutOpened
<1>2. /\ rows' = [rows EXCEPT ![r] = @ \cup {d}]
      /\ status' = [status EXCEPT ![r] = d.action]
      /\ UNCHANGED <<task, verdict, published>>
  BY <1>1 DEF StoreDecision, CommitDecision, choice, outputs
<1>3. PICK s \in {"auditing", "answered"} : request' = [request EXCEPT ![q].state = s]
  BY DEF StoreDecision
<1>4. /\ rows'[r] = rows[r] \cup {d}
      /\ \A t \in Reviews \ {r} : rows'[t] = rows[t] /\ status'[t] = status[t]
  BY <1>2 DEF CInv, IInv, TypeOK
<1>5. \A p \in Requests : request'[p].state = "storing" =>
          request[p].state = "storing" /\ request'[p].review = request[p].review
  BY <1>3 DEF CInv, IInv, TypeOK
<1>6. CInv'
  BY <1>1, <1>2, <1>4, <1>5, KeepsCInv
<1>7. Offered(r)' = Offered(r) \cup {d.action}
  BY <1>1, <1>4 DEF Offered
<1>8. ContractStage(r) # "unopened" /\ d.action \in Contract!Offers
  BY <1>1, DecisionFields DEF ContractStage, Actions, Contract!Offers
<1>9. UNCHANGED <<ContractStage(r), ContractRuling(r), ContractEffect(r)>>
  BY <1>2 DEF ContractStage, ContractRuling, ContractEffect
<1>10. Contract!Offer(r, d.action)
  BY <1>2, <1>4, <1>7, <1>8, <1>9, OthersView DEF Contract!Offer, Offered
<1>11. QED
  BY <1>6, <1>8, <1>10 DEF Implements, Contract!Next

\* The handler's audit row, and a handler that fails.
LEMMA AnswerStep ==
    ASSUME CInv, IInv', NEW q \in Requests, StoreAudit(q) \/ RequestFails(q)
    PROVE  CInv' /\ Implements
<1>1. UNCHANGED <<task, verdict, published, rows, status>>
  BY DEF StoreAudit, RequestFails, choice, database, outputs
<1>2. PICK s \in {"answered", "dead"} : request' = [request EXCEPT ![q].state = s]
  BY DEF StoreAudit, RequestFails
<1>3. \A p \in Requests : request'[p].state = "storing" =>
          request[p].state = "storing" /\ request'[p].review = request[p].review
  BY <1>2 DEF CInv, IInv, TypeOK
<1>4. QED
  BY <1>1, <1>3, KeepsCInv, Unseen

\* Reviews on their way whose tasks are lost are abandoned; those whose
\* playbook is out are not.
LEMMA AbandonStep ==
    ASSUME CInv, IInv', NEW T \in SUBSET Reviews, \A r \in T : task[r] \in Running,
           task' = [r \in Reviews |-> IF r \in T THEN "lost" ELSE task[r]],
           UNCHANGED <<verdict, published, rows, status, request>>
    PROVE  CInv' /\ Implements
<1>1. CInv'
  BY KeepsCInv
<1> DEFINE R == {r \in T : published[r] = <<>>}
<1>2. ASSUME NEW r \in R
      PROVE  ContractStage(r) \in {"open", "ruled"} /\ ContractStage(r)' = "abandoned"
             /\ UNCHANGED <<ContractRuling(r), ContractEffect(r)>>
  <2>1. task[r] \notin {"absent", "resolved", "lost"} /\ task'[r] = "lost" /\ published[r] = <<>>
    BY DEF Running, Waiting
  <2>2. QED
    BY <2>1 DEF ContractStage, ContractRuling, ContractEffect
<1>3. \A r \in Reviews : Offered(r)' = Offered(r)
  BY DEF Offered
<1>4. \A r \in Reviews \ R : UNCHANGED <<ContractStage(r), ContractRuling(r), ContractEffect(r)>>
  BY <1>3, SameView
<1> HIDE DEF R
<1>5. CASE R = {}
  <2>1. \A r \in Reviews :
           UNCHANGED <<ContractStage(r), Offered(r), ContractRuling(r), ContractEffect(r)>>
    BY <1>3, <1>4, <1>5
  <2>2. Implements
    BY <2>1 DEF Implements, Stages, AllOffers, AllRulings, Effects
  <2>3. QED
    BY <1>1, <2>2
<1>6. CASE R # {}
  <2>1. R \in SUBSET Reviews
    BY DEF R
  <2>2. Contract!Abandon(R)
    BY <1>2, <1>3, <1>4, <1>6, <2>1 DEF Contract!Abandon, Offered
  <2>3. QED
    BY <1>1, <2>1, <2>2 DEF Implements, Contract!Next
<1>7. QED
  BY <1>1, <1>5, <1>6

\* One task fails, or all of them are lost to a crash.
LEMMA LoseStep ==
    ASSUME CInv, IInv', Crash \/ \E r \in Reviews : TaskFails(r)
    PROVE  CInv' /\ Implements
<1>1. UNCHANGED <<verdict, published, rows, status, request>>
  BY DEF Crash, TaskFails, choice, outputs, database
<1>2. CASE Crash
  <2>1. PICK T \in SUBSET Reviews : T = {r \in Reviews : task[r] \in Running}
    OBVIOUS
  <2>2. task' = [r \in Reviews |-> IF r \in T THEN "lost" ELSE task[r]]
    BY <1>2, <2>1 DEF Crash
  <2>3. QED
    BY <1>1, <2>1, <2>2, AbandonStep
<1>3. ASSUME NEW r \in Reviews, TaskFails(r) PROVE CInv' /\ Implements
  <2>1. task[r] \in Running /\ {r} \in SUBSET Reviews
    BY <1>3 DEF TaskFails
  <2>2. task' = [t \in Reviews |-> IF t \in {r} THEN "lost" ELSE task[t]]
    BY <1>3 DEF TaskFails, Goto, CInv, IInv, TypeOK
  <2>3. QED
    BY <1>1, <2>1, <2>2, AbandonStep
<1>4. QED
  BY <1>2, <1>3

\* A notification arrives or is cut off, time passes, or nothing happens.
LEMMA IdleStep ==
    ASSUME CInv, IInv',
           \/ \E r \in Reviews : Deliver(r) \/ LoseListener(r)
           \/ Tick
           \/ UNCHANGED vars
    PROVE  CInv' /\ Implements
<1>1. UNCHANGED <<task, verdict, published, rows, status, request>>
  BY DEF Deliver, LoseListener, Tick, vars, env, choice, database, outputs
<1>2. QED
  BY <1>1, KeepsCInv, Unseen

-----------------------------------------------------------------------------

\* Every step of the review is a step of the contract, or none.
LEMMA NextContract ==
    CInv /\ [Next]_vars => CInv' /\ [Contract!Next]_(Contract!vars)
<1> SUFFICES ASSUME CInv, [Next]_vars PROVE CInv' /\ [Contract!Next]_(Contract!vars)
  OBVIOUS
<1>1. IInv'
  BY NextIInv DEF CInv
<1>2. CInv' /\ Implements
  <2>1. ASSUME NEW r \in Reviews, InsertReview(r) \/ TaskStep(r) PROVE CInv' /\ Implements
    BY <1>1, <2>1, OpenStep, StartStep, DecideStep, RecordStep, TakeEffectStep, AfterEffectStep
       DEF TaskStep
  <2>2. ASSUME NEW q \in Requests, Submit(q) \/ HandlerStep(q) \/ RequestFails(q)
        PROVE  CInv' /\ Implements
    BY <1>1, <2>2, AskStep, OfferStep, AnswerStep DEF HandlerStep
  <2>3. CASE Crash \/ \E r \in Reviews : TaskFails(r)
    BY <1>1, <2>3, LoseStep
  <2>4. CASE (\E r \in Reviews : Deliver(r) \/ LoseListener(r)) \/ Tick \/ UNCHANGED vars
    BY <1>1, <2>4, IdleStep
  <2>5. QED
    BY <2>1, <2>2, <2>3, <2>4 DEF Next, Step
<1>3. QED
  BY <1>2 DEF Implements, Contract!vars, Stages, AllOffers, AllRulings, Effects, Offered

\* Tasks, rows, listeners and handlers together keep the contract of a
\* review: a ruling that was offered or is the timeout's own, taken once, and
\* one effect that follows from it.
THEOREM ReviewKeepsContract == Spec => ImplementsContract
<1>1. Init => CInv /\ Contract!Init
  BY InitContract
<1>2. CInv /\ [Next]_vars => CInv' /\ [Contract!Next]_(Contract!vars)
  BY NextContract
<1>3. QED
  BY <1>1, <1>2, PTL DEF Spec, ImplementsContract, Contract!Spec

-----------------------------------------------------------------------------
(* What follows from the contract for the review.                          *)

\* A review follows one decision: nothing that analysts, the clock or a fault
\* do afterwards replaces the ruling its task has taken (_await_decision,
\* wait_for_decision).
RulingIsFinal ==
    [][\A r \in Reviews : ContractRuling(r) # "none" => ContractRuling(r)' = ContractRuling(r)]_vars

\* A review has one effect: it is executed, dropped or escalated, and none of
\* the three follows another (_resume_after_decision).
EffectIsFinal ==
    [][\A r \in Reviews : ContractEffect(r) # "none" => ContractEffect(r)' = ContractEffect(r)]_vars

\* The effect is the one the ruling asks for, also after the task is lost.
EffectFollowsRuling ==
    \A r \in Reviews :
        ContractEffect(r) # "none" => ContractEffect(r) = Contract!EffectOf(ContractRuling(r))

\* The contract rules on open reviews only, and closes only those it ruled on.
LEMMA FinalStep ==
    ASSUME CInv, [Contract!Next]_(Contract!vars), NEW r \in Reviews
    PROVE  /\ ContractRuling(r) # "none" => ContractRuling(r)' = ContractRuling(r)
           /\ ContractEffect(r) # "none" => ContractEffect(r)' = ContractEffect(r)
<1> DEFINE Same == UNCHANGED <<ContractRuling(r), ContractEffect(r)>>
<1>1. ASSUME UNCHANGED <<AllRulings, Effects>> PROVE Same
  <2>1. AllRulings[r] = ContractRuling(r) /\ Effects[r] = ContractEffect(r)
    BY DEF AllRulings, Effects
  <2>2. AllRulings'[r] = ContractRuling(r)' /\ Effects'[r] = ContractEffect(r)'
    BY DEF AllRulings, Effects
  <2>3. QED
    BY <1>1, <2>1, <2>2
<1>2. CASE UNCHANGED Contract!vars
  BY <1>1, <1>2 DEF Contract!vars, AllRulings, Effects
<1>3. ASSUME NEW t \in Reviews, Contract!Open(t) PROVE Same
  BY <1>1, <1>3 DEF Contract!Open, AllRulings, Effects
<1>4. ASSUME NEW t \in Reviews, NEW o \in Contract!Offers, Contract!Offer(t, o) PROVE Same
  BY <1>1, <1>4 DEF Contract!Offer, AllRulings, Effects
<1>5. ASSUME NEW R \in SUBSET Reviews, Contract!Abandon(R) PROVE Same
  BY <1>1, <1>5 DEF Contract!Abandon, AllRulings, Effects
<1>6. ASSUME NEW t \in Reviews, NEW v \in Contract!Rulings, Contract!Rule(t, v)
      PROVE  (ContractRuling(r) = "none" \/ ContractRuling(r)' = ContractRuling(r))
             /\ ContractEffect(r)' = ContractEffect(r)
  <2>1. /\ Stages[t] = "open" /\ AllRulings' = [AllRulings EXCEPT ![t] = v]
        /\ Effects' = Effects
    BY <1>6 DEF Contract!Rule, Stages, AllRulings, Effects
  <2>2. ContractStage(t) = "open"
    BY <2>1 DEF Stages
  <2>3. ContractRuling(t) = "none"
    BY <2>2 DEF ContractStage, ContractRuling
  <2>4. /\ AllRulings = [x \in Reviews |-> ContractRuling(x)]
        /\ AllRulings' = [x \in Reviews |-> ContractRuling(x)']
    BY DEF AllRulings
  <2>5. Effects[r] = ContractEffect(r) /\ Effects'[r] = ContractEffect(r)'
    BY DEF Effects
  <2>6. QED
    BY <2>1, <2>3, <2>4, <2>5
<1>7. ASSUME NEW t \in Reviews, Contract!Close(t)
      PROVE  (ContractEffect(r) = "none" \/ ContractEffect(r)' = ContractEffect(r))
             /\ ContractRuling(r)' = ContractRuling(r)
  <2>1. PICK e : /\ Stages[t] = "ruled" /\ Effects' = [Effects EXCEPT ![t] = e]
                 /\ AllRulings' = AllRulings
    BY <1>7 DEF Contract!Close, Stages, AllRulings, Effects
  <2>2. ContractStage(t) = "ruled"
    BY <2>1 DEF Stages
  <2>3. ContractEffect(t) = "none"
    BY <2>2 DEF ContractStage, ContractEffect
  <2>4. /\ Effects = [x \in Reviews |-> ContractEffect(x)]
        /\ Effects' = [x \in Reviews |-> ContractEffect(x)']
    BY DEF Effects
  <2>5. AllRulings[r] = ContractRuling(r) /\ AllRulings'[r] = ContractRuling(r)'
    BY DEF AllRulings
  <2>6. QED
    BY <2>1, <2>3, <2>4, <2>5
<1>8. QED
  BY <1>2, <1>3, <1>4, <1>5, <1>6, <1>7 DEF Contract!Next

\* One ruling.
THEOREM OneRuling == Spec => RulingIsFinal
<1>1. CInv /\ [Next]_vars =>
         [\A r \in Reviews : ContractRuling(r) # "none" => ContractRuling(r)' = ContractRuling(r)]_vars
  BY NextContract, FinalStep
<1>2. QED
  BY <1>1, InitContract, NextContract, PTL DEF Spec, RulingIsFinal

\* One effect.
THEOREM OneEffect == Spec => EffectIsFinal
<1>1. CInv /\ [Next]_vars =>
         [\A r \in Reviews : ContractEffect(r) # "none" => ContractEffect(r)' = ContractEffect(r)]_vars
  BY NextContract, FinalStep
<1>2. QED
  BY <1>1, InitContract, NextContract, PTL DEF Spec, EffectIsFinal

\* An execution has an approval, an edit or the timeout behind it, a drop or an
\* escalation the analyst's refusal.
THEOREM EffectIsRuled == Spec => []EffectFollowsRuling
<1>1. CInv => EffectFollowsRuling
  <2> SUFFICES ASSUME CInv, NEW r \in Reviews, ContractEffect(r) # "none"
               PROVE  ContractEffect(r) = Contract!EffectOf(ContractRuling(r))
    BY DEF EffectFollowsRuling
  <2>1. ReviewInv(r) /\ ApprovesItself(r) /\ TypeOK
    BY DEF CInv, IInv
  <2>2. CASE published[r] # <<>>
    <3>1. 1 \in DOMAIN published[r]
      <4>1. published[r] \in Seq(SUBSET StepKinds)
        BY <2>1 DEF TypeOK
      <4>2. QED
        BY <2>2, <4>1
    <3>2. verdict[r].action \in {"APPROVE", "EDIT"}
      BY <2>1, <3>1 DEF ReviewInv, PublishedInv
    <3>3. verdict[r] # NoDecision
      BY <3>2 DEF NoDecision
    <3>4. ContractRuling(r) \in {"APPROVE", "EDIT", "TIMEOUT"}
      BY <3>2, <3>3 DEF ContractRuling
    <3>5. QED
      BY <2>2, <3>4 DEF ContractEffect, Contract!EffectOf
  <2>3. CASE published[r] = <<>>
    <3>1. task[r] = "resolved"
      BY <2>3 DEF ContractEffect
    <3>2. verdict[r] \in Decision
      BY <2>1, <3>1 DEF ReviewInv, VerdictInv, Decided
    <3>3. verdict[r].action \notin {"APPROVE", "EDIT"}
      <4>1. ~(audit[r]["EXECUTED"] > 0)
        BY <2>1, <2>3 DEF ReviewInv, ChainInv, TypeOK, Outcomes
      <4>2. QED
        BY <2>1, <3>1, <4>1 DEF ReviewInv, ResolvedInv
    <3>4. /\ verdict[r].action \in {"REJECT", "ESCALATE"} /\ verdict[r] # NoDecision
          /\ verdict[r].by = "analyst"
      BY <2>1, <3>2, <3>3, DecisionFields DEF Actions, Deciders, ApprovesItself
    <3>5. ContractRuling(r) = verdict[r].action
      BY <3>4 DEF ContractRuling
    <3>6. ContractEffect(r) = IF verdict[r].action = "REJECT" THEN "dropped" ELSE "escalated"
      BY <2>3, <3>1 DEF ContractEffect
    <3>7. QED
      BY <3>4, <3>5, <3>6 DEF Contract!EffectOf
  <2>4. QED
    BY <2>2, <2>3
<1>2. QED
  BY <1>1, InitContract, NextContract, PTL DEF Spec

=============================================================================
