---------------------------- MODULE WazuhBridge ----------------------------
(***************************************************************************)
(* The bridge: bridge/wazuh_kafka_bridge.py asks Wazuh for its newest      *)
(* alerts, hands those it does not remember to the Kafka producer, and     *)
(* sleeps.                                                                 *)
(*                                                                         *)
(* What it remembers is a set in memory that is cut to an arbitrary part   *)
(* of itself when it grows too large and is lost with the process; what it *)
(* sends waits in the producer, whose report of a failed delivery is only  *)
(* logged.  An alert is a number, its timestamp: Wazuh may index an older  *)
(* one after a newer one.                                                  *)
(***************************************************************************)
EXTENDS Naturals, Sequences, FiniteSets

CONSTANTS
    Alerts,         \* alerts, ordered by their timestamps
    Parseable,      \* the alerts _parse_alert can convert
    Ids,            \* values of the field id
    IdOf,           \* an alert's id; alerts without one share the empty id
    BatchSize,      \* WAZUH_BATCH_SIZE
    SeenLimit,      \* size of _seen_ids from which it is trimmed (10_000)
    SeenKept,       \* what trimming leaves (5_000)
    QueueLimit,     \* queue.buffering.max.messages of the producer
    MaxLate,        \* bound: newer alerts an alert may be indexed after
    MaxFaults       \* bound: outages, revoked tokens and stops

\* WAZUH_BATCH_SIZE is 1200: what trimming leaves and one more batch fit.
ASSUME BridgeAssumption ==
    /\ Alerts \subseteq Nat
    /\ Parseable \subseteq Alerts
    /\ IdOf \in [Alerts -> Ids]
    /\ BatchSize \in Nat \ {0}
    /\ SeenLimit \in Nat
    /\ SeenKept \in Nat
    /\ SeenKept + BatchSize <= SeenLimit
    /\ QueueLimit \in Nat \ {0}
    /\ MaxLate \in Nat
    /\ MaxFaults \in Nat

VARIABLES
    indexed,    \* alerts Wazuh has
    down,       \* "wazuh" and "kafka", while they do not answer
    phase,      \* where run() is
    fetches,    \* the attempt of _fetch_alerts under way
    logins,     \* the attempt of _refresh_token under way
    token,      \* _token and _token_expiry: "none", "fresh" or "expired"
    accepted,   \* Wazuh still accepts the token
    batch,      \* raw_alerts not yet looked at
    seen,       \* _seen_ids
    cut,        \* history: a poll was cut short since one came to its end
    buffer,     \* messages in the producer, not yet delivered
    topic,      \* ids in wazuh.raw
    failed,     \* ids of messages whose delivery report was an error
    sent,       \* history: per id, calls of send
    forgotten,  \* history: per id, how often _seen_ids has lost it
    faults      \* faults so far

world == <<indexed, down>>
attempts == <<fetches, logins>>
access == <<token, accepted>>
memory == <<seen, cut, forgotten>>
kafka == <<buffer, topic, failed, sent>>
vars == <<world, phase, attempts, access, batch, memory, kafka, faults>>

-----------------------------------------------------------------------------

Phases == {"asleep", "fetching", "authenticating", "requesting", "publishing", "stopped"}

\* stop_after_attempt of both retries.
MaxAttempts == 3

\* What a query sorted by descending timestamp with size BATCH_SIZE returns.
Newest(S) == {a \in S : Cardinality({b \in S : b > a}) < BatchSize}

\* The alert the loop over raw_alerts comes to next.
Current(a) == a \in batch /\ \A b \in batch : b <= a

TypeOK ==
    /\ indexed \subseteq Alerts
    /\ down \subseteq {"wazuh", "kafka"}
    /\ phase \in Phases
    /\ fetches \in 1 .. MaxAttempts
    /\ logins \in 1 .. MaxAttempts
    /\ token \in {"none", "fresh", "expired"}
    /\ accepted \in BOOLEAN
    /\ batch \subseteq Alerts
    /\ seen \subseteq Ids
    /\ cut \in BOOLEAN
    /\ buffer \in Seq(Ids)
    /\ Len(buffer) <= QueueLimit
    /\ topic \subseteq Ids
    /\ failed \subseteq Ids
    /\ sent \in [Ids -> Nat]
    /\ forgotten \in [Ids -> Nat]
    /\ faults \in 0 .. MaxFaults

Init ==
    /\ indexed = {}
    /\ down = {}
    /\ phase = "fetching"
    /\ fetches = 1
    /\ logins = 1
    /\ token = "none"
    /\ accepted = FALSE
    /\ batch = {}
    /\ seen = {}
    /\ cut = FALSE
    /\ buffer = <<>>
    /\ topic = {}
    /\ failed = {}
    /\ sent = [i \in Ids |-> 0]
    /\ forgotten = [i \in Ids |-> 0]
    /\ faults = 0

Fault == faults < MaxFaults /\ faults' = faults + 1

\* _seen_ids becomes a part of itself.
Keep(kept) ==
    /\ seen' = kept
    /\ forgotten' = [i \in Ids |-> IF i \in seen \ kept THEN forgotten[i] + 1
                                                        ELSE forgotten[i]]

-----------------------------------------------------------------------------
(* A poll: _fetch_alerts with _get_token and _refresh_token.               *)

Wake ==
    /\ phase = "asleep"
    /\ phase' = "fetching"
    /\ UNCHANGED <<world, attempts, access, batch, memory, kafka, faults>>

\* A mutation of GetToken: the expiry is not looked at.
GetAnyToken ==
    /\ phase = "fetching"
    /\ phase' = IF token # "none" THEN "requesting" ELSE "authenticating"
    /\ UNCHANGED <<world, attempts, access, batch, memory, kafka, faults>>

GetToken ==
    /\ phase = "fetching"
    /\ phase' = IF token = "fresh" THEN "requesting" ELSE "authenticating"
    /\ UNCHANGED <<world, attempts, access, batch, memory, kafka, faults>>

RefreshToken ==
    /\ phase = "authenticating"
    /\ "wazuh" \notin down
    /\ token' = "fresh"
    /\ accepted' = TRUE
    /\ phase' = "requesting"
    /\ logins' = 1
    /\ UNCHANGED <<world, fetches, batch, memory, kafka, faults>>

\* A mutation of AttemptFails: the retry has no stop.
AttemptForever ==
    /\ phase' = "fetching"
    /\ fetches' = fetches + 1

\* An attempt of _fetch_alerts raises; after the third the poll is given up
\* and the exception logged.
AttemptFails ==
    /\ phase' = IF fetches < MaxAttempts THEN "fetching" ELSE "asleep"
    /\ fetches' = IF fetches < MaxAttempts THEN fetches + 1 ELSE 1

RefreshFails ==
    /\ phase = "authenticating"
    /\ "wazuh" \in down
    /\ IF logins < MaxAttempts
       THEN /\ logins' = logins + 1
            /\ UNCHANGED <<phase, fetches>>
       ELSE /\ AttemptFails
            /\ logins' = 1
    /\ UNCHANGED <<world, access, batch, memory, kafka, faults>>

\* The events feed or, where it is missing, the indexer answers.
FetchAlerts ==
    /\ phase = "requesting"
    /\ "wazuh" \notin down
    /\ accepted
    /\ batch' = Newest(indexed)
    /\ phase' = "publishing"
    /\ fetches' = 1
    /\ UNCHANGED <<world, logins, access, memory, kafka, faults>>

FetchFails ==
    /\ phase = "requesting"
    /\ "wazuh" \in down \/ ~accepted
    /\ AttemptFails
    /\ UNCHANGED <<world, logins, access, batch, memory, kafka, faults>>

-----------------------------------------------------------------------------
(* The loop over the alerts, newest first.                                 *)

\* Remembered already, or not to be converted: the latter is not remembered.
Skip(a) ==
    /\ phase = "publishing"
    /\ Current(a)
    /\ IdOf[a] \in seen \/ a \notin Parseable
    /\ batch' = batch \ {a}
    /\ UNCHANGED <<world, phase, attempts, access, memory, kafka, faults>>

\* A mutation of Publish: the alert is not remembered.
PublishAgain(a) ==
    /\ phase = "publishing"
    /\ Current(a)
    /\ IdOf[a] \notin seen /\ a \in Parseable
    /\ Len(buffer) < QueueLimit
    /\ buffer' = Append(buffer, IdOf[a])
    /\ sent' = [sent EXCEPT ![IdOf[a]] = @ + 1]
    /\ batch' = batch \ {a}
    /\ UNCHANGED <<world, phase, attempts, access, memory, topic, failed, faults>>

\* send: produce puts the message in the producer's queue.  Nothing in it is
\* awaited, and the id is remembered before the task can be interrupted.
Publish(a) ==
    /\ phase = "publishing"
    /\ Current(a)
    /\ IdOf[a] \notin seen /\ a \in Parseable
    /\ Len(buffer) < QueueLimit
    /\ buffer' = Append(buffer, IdOf[a])
    /\ sent' = [sent EXCEPT ![IdOf[a]] = @ + 1]
    /\ seen' = seen \cup {IdOf[a]}
    /\ batch' = batch \ {a}
    /\ UNCHANGED <<world, phase, attempts, access, cut, forgotten, topic, failed, faults>>

\* A mutation of QueueFull: the id is remembered before send is called.
RememberFirst(a) ==
    /\ phase = "publishing"
    /\ Current(a)
    /\ IdOf[a] \notin seen /\ a \in Parseable
    /\ Len(buffer) >= QueueLimit
    /\ seen' = seen \cup {IdOf[a]}
    /\ batch' = {}
    /\ cut' = TRUE
    /\ phase' = "asleep"
    /\ UNCHANGED <<world, attempts, access, forgotten, kafka, faults>>

\* produce raises BufferError: the rest of the batch, its older part, is left
\* and the set is not trimmed.
QueueFull(a) ==
    /\ phase = "publishing"
    /\ Current(a)
    /\ IdOf[a] \notin seen /\ a \in Parseable
    /\ Len(buffer) >= QueueLimit
    /\ batch' = {}
    /\ cut' = TRUE
    /\ phase' = "asleep"
    /\ UNCHANGED <<world, attempts, access, seen, forgotten, kafka, faults>>

\* A mutation of EndPoll: the set is never trimmed.
KeepAll ==
    /\ phase = "publishing"
    /\ batch = {}
    /\ Keep(seen)
    /\ cut' = FALSE
    /\ phase' = "asleep"
    /\ UNCHANGED <<world, attempts, access, batch, kafka, faults>>

\* The end of a poll.  A set has no order: set(list(...)[-5_000:]) keeps any
\* half of it, not the latest.
EndPoll ==
    /\ phase = "publishing"
    /\ batch = {}
    /\ IF Cardinality(seen) > SeenLimit
       THEN \E kept \in SUBSET seen : Cardinality(kept) = SeenKept /\ Keep(kept)
       ELSE UNCHANGED <<seen, forgotten>>
    /\ cut' = FALSE
    /\ phase' = "asleep"
    /\ UNCHANGED <<world, attempts, access, batch, kafka, faults>>

-----------------------------------------------------------------------------
(* The producer's thread.                                                  *)

Deliver ==
    /\ buffer # <<>>
    /\ "kafka" \notin down
    /\ topic' = topic \cup {Head(buffer)}
    /\ buffer' = Tail(buffer)
    /\ UNCHANGED <<world, phase, attempts, access, batch, memory, failed, sent, faults>>

\* The retries are used up: the report is an error, and is logged.
DeliveryFails ==
    /\ buffer # <<>>
    /\ "kafka" \in down
    /\ failed' = failed \cup {Head(buffer)}
    /\ buffer' = Tail(buffer)
    /\ UNCHANGED <<world, phase, attempts, access, batch, memory, topic, sent, faults>>

-----------------------------------------------------------------------------
(* Wazuh, time, and what can go wrong.                                     *)

Index(a) ==
    /\ a \notin indexed
    /\ Cardinality({b \in indexed : b > a}) <= MaxLate
    /\ indexed' = indexed \cup {a}
    /\ UNCHANGED <<down, phase, attempts, access, batch, memory, kafka, faults>>

\* Fourteen minutes have passed since the token was fetched.
TokenExpires ==
    /\ token = "fresh"
    /\ token' = "expired"
    /\ UNCHANGED <<world, phase, attempts, accepted, batch, memory, kafka, faults>>

\* Wazuh no longer accepts the token: it was restarted, say.
TokenRevoked ==
    /\ Fault
    /\ accepted
    /\ accepted' = FALSE
    /\ UNCHANGED <<world, phase, attempts, token, batch, memory, kafka>>

GoesDown(s) ==
    /\ Fault
    /\ s \notin down
    /\ down' = down \cup {s}
    /\ UNCHANGED <<indexed, phase, attempts, access, batch, memory, kafka>>

ComesBack(s) ==
    /\ s \in down
    /\ down' = down \ {s}
    /\ UNCHANGED <<indexed, phase, attempts, access, batch, memory, kafka, faults>>

\* The process ends.  close() flushes for five seconds, and a process that is
\* killed does not flush; what is left in the producer is lost, and so is
\* everything remembered.
Stop ==
    /\ Fault
    /\ phase # "stopped"
    /\ \E n \in 0 .. Len(buffer) :
        /\ n > 0 => "kafka" \notin down
        /\ topic' = topic \cup {buffer[k] : k \in 1 .. n}
    /\ buffer' = <<>>
    /\ Keep({})
    /\ cut' = FALSE
    /\ batch' = {}
    /\ token' = "none"
    /\ accepted' = FALSE
    /\ phase' = "stopped"
    /\ fetches' = 1
    /\ logins' = 1
    /\ UNCHANGED <<world, failed, sent>>

\* The pod is restarted.
Restart ==
    /\ phase = "stopped"
    /\ phase' = "fetching"
    /\ UNCHANGED <<world, attempts, access, batch, memory, kafka, faults>>

-----------------------------------------------------------------------------

Poll ==
    \/ Wake \/ GetToken \/ RefreshToken \/ RefreshFails \/ FetchAlerts \/ FetchFails
    \/ \E a \in Alerts : Skip(a) \/ Publish(a) \/ QueueFull(a)
    \/ EndPoll

Next ==
    \/ Poll
    \/ Deliver
    \/ DeliveryFails
    \/ \E a \in Alerts : Index(a)
    \/ TokenExpires
    \/ TokenRevoked
    \/ \E s \in {"wazuh", "kafka"} : GoesDown(s) \/ ComesBack(s)
    \/ Stop
    \/ Restart

Spec == Init /\ [][Next]_vars

\* The event loop runs run() on, the producer's thread delivers, time passes,
\* the services come back and the Deployment restarts the pod.
FairSpec ==
    /\ Spec
    /\ WF_vars(Poll)
    /\ WF_vars(Deliver)
    /\ WF_vars(TokenExpires)
    /\ \A s \in {"wazuh", "kafka"} : WF_vars(ComesBack(s))
    /\ WF_vars(Restart)

-----------------------------------------------------------------------------

\* run() checks _seen_ids before it sends: an id is handed to the producer at
\* most once more often than _seen_ids has lost it, whatever polls repeat it,
\* fail half way or are started anew.
OnceUnlessForgotten == \A i \in Ids : sent[i] <= forgotten[i] + 1

\* The id is remembered only after send returned: a remembered alert is in the
\* topic, still in the producer, or its delivery failed.  None is remembered
\* that the producer never got.
NothingSkipped ==
    \A i \in seen : \/ i \in topic \cup failed
                    \/ \E k \in 1 .. Len(buffer) : buffer[k] = i

\* Trimming at the end of a poll bounds _seen_ids by its limit, and during a
\* poll by that and one batch, unless polls are cut short before the trimming.
SeenBounded ==
    \/ cut
    \/ Cardinality(seen) <= SeenLimit
    \/ phase = "publishing" /\ Cardinality(seen) <= SeenLimit + BatchSize

\* Polling with retries, a token that is renewed when it expires, and restarts:
\* whatever went wrong, the bridge catches up with the newest alerts; each is
\* delivered or its delivery fails.  What newer alerts pushed out is not claimed.
CatchesUp ==
    []<>(\A a \in Newest(indexed) \cap Parseable : IdOf[a] \in topic \cup failed)
=============================================================================
