------------------------- MODULE WazuhBridgeProofs -------------------------
(***************************************************************************)
(* The safety properties of WazuhBridge, for every set of alerts and every *)
(* limit.  The invariant counts: an id has been sent as often as it was    *)
(* forgotten, and once more while it is remembered; and what a poll may    *)
(* still add to the remembered ids is what is left of its batch.           *)
(***************************************************************************)
EXTENDS WazuhBridge, FiniteSetTheorems, NaturalsInduction, TLAPS

\* send and forget balance.
Balanced == \A i \in Ids : sent[i] = forgotten[i] + (IF i \in seen THEN 1 ELSE 0)

\* The sets whose sizes matter have one.
Finite == IsFiniteSet(indexed) /\ IsFiniteSet(batch) /\ IsFiniteSet(seen)

\* Room for the rest of the batch.
Room ==
    \/ cut
    \/ Cardinality(seen) <= SeenLimit
       /\ phase # "publishing"
    \/ /\ phase = "publishing"
       /\ Cardinality(seen) + Cardinality(batch) <= SeenLimit + BatchSize

IInv == TypeOK /\ Balanced /\ Finite /\ Room /\ NothingSkipped

-----------------------------------------------------------------------------

\* A non-empty set of naturals has a least element.
LEMMA LeastElement ==
    ASSUME NEW T \in SUBSET Nat, T # {}
    PROVE  \E m \in T : \A n \in T : m <= n
<1>1. PICK m \in T : \A n \in T : ~ (<<n, m>> \in OpToRel(<, Nat))
  BY NatLessThanWellFounded, WFMin
<1>2. ASSUME NEW n \in T PROVE m <= n
  <2>1. ~ (n < m)
    BY <1>1 DEF OpToRel
  <2>2. QED
    BY <2>1
<1>3. QED
  BY <1>2

\* The query returns at most WAZUH_BATCH_SIZE alerts.
LEMMA NewestBound ==
    ASSUME NEW S \in SUBSET Nat, IsFiniteSet(S)
    PROVE  IsFiniteSet(Newest(S)) /\ Cardinality(Newest(S)) <= BatchSize
<1> DEFINE N == Newest(S)
<1>1. N \subseteq S /\ IsFiniteSet(N) /\ Cardinality(N) \in Nat
  BY FS_Subset, FS_CardinalityType DEF Newest
<1>2. CASE N = {}
  BY <1>1, <1>2, FS_EmptySet, BridgeAssumption
<1>3. CASE N # {}
  <2>1. PICK m \in N : \A n \in N : m <= n
    BY <1>1, <1>3, LeastElement
  <2> DEFINE Above == {b \in S : b > m}
  <2>2. IsFiniteSet(Above) /\ Cardinality(Above) \in Nat
    BY FS_Subset, FS_CardinalityType
  <2>3. Cardinality(Above) < BatchSize
    BY <2>1 DEF Newest
  <2>4. N \ {m} \subseteq Above
    <3> HIDE DEF N
    <3>1. \A n \in N : n \in Nat /\ m \in Nat
      BY <1>1
    <3>2. QED
      BY <1>1, <2>1, <3>1
  <2>5. Cardinality(N \ {m}) = Cardinality(N) - 1
    BY <1>1, <2>1, FS_RemoveElement
  <2>6. Cardinality(N \ {m}) <= Cardinality(Above)
    BY <2>2, <2>4, FS_Subset
  <2>7. QED
    BY <1>1, <2>2, <2>3, <2>5, <2>6, BridgeAssumption
<1>4. QED
  BY <1>1, <1>2, <1>3

-----------------------------------------------------------------------------

\* The initial state satisfies the invariant (__init__).
LEMMA InitIInv == Init => IInv
<1> SUFFICES ASSUME Init PROVE IInv
  OBVIOUS
<1>1. TypeOK
  <2>1. buffer \in Seq(Ids) /\ Len(buffer) <= QueueLimit
    BY BridgeAssumption DEF Init
  <2>2. sent \in [Ids -> Nat] /\ forgotten \in [Ids -> Nat]
    BY DEF Init
  <2>3. faults \in 0 .. MaxFaults
    BY BridgeAssumption DEF Init
  <2>4. /\ phase \in Phases /\ token \in {"none", "fresh", "expired"}
        /\ fetches \in 1 .. MaxAttempts /\ logins \in 1 .. MaxAttempts
    BY DEF Init, Phases, MaxAttempts
  <2>5. /\ accepted \in BOOLEAN /\ cut \in BOOLEAN
        /\ indexed = {} /\ down = {} /\ batch = {} /\ seen = {}
        /\ topic = {} /\ failed = {}
    BY DEF Init
  <2> HIDE DEF Init
  <2>6. QED
    BY <2>1, <2>2, <2>3, <2>4, <2>5 DEF TypeOK
<1>2. Balanced /\ NothingSkipped
  BY DEF Init, Balanced, NothingSkipped
<1>3. Finite /\ Room
  BY FS_EmptySet, BridgeAssumption DEF Init, Finite, Room
<1>4. QED
  BY <1>1, <1>2, <1>3 DEF IInv

\* Asking for a token and for alerts changes neither memory nor producer: the
\* steps of a poll up to its answer, the clock and the outages.
LEMMA QuietStep ==
    ASSUME IInv, UNCHANGED <<batch, memory, kafka>>,
           TypeOK', IsFiniteSet(indexed'),
           phase' # phase => phase # "publishing" /\ phase' # "publishing"
    PROVE  IInv'
<1> USE DEF memory, kafka
<1>1. Balanced' /\ NothingSkipped'
  BY DEF IInv, Balanced, NothingSkipped
<1>2. Finite' /\ Room'
  BY DEF IInv, Finite, Room
<1>3. QED
  BY <1>1, <1>2 DEF IInv

\* Wake, GetToken, RefreshToken, RefreshFails, FetchFails.
LEMMA RequestStep ==
    ASSUME IInv, Wake \/ GetToken \/ RefreshToken \/ RefreshFails \/ FetchFails
    PROVE  IInv'
<1> USE DEF world, attempts, access, memory, kafka, Phases, MaxAttempts
<1>1. CASE Wake
  BY <1>1, QuietStep DEF Wake, IInv, TypeOK, Finite
<1>2. CASE GetToken
  BY <1>2, QuietStep DEF GetToken, IInv, TypeOK, Finite
<1>3. CASE RefreshToken
  BY <1>3, QuietStep DEF RefreshToken, IInv, TypeOK, Finite
<1>4. CASE RefreshFails
  BY <1>4, QuietStep DEF RefreshFails, AttemptFails, IInv, TypeOK, Finite
<1>5. CASE FetchFails
  BY <1>5, QuietStep DEF FetchFails, AttemptFails, IInv, TypeOK, Finite
<1>6. QED
  BY <1>1, <1>2, <1>3, <1>4, <1>5

\* FetchAlerts: a batch of at most WAZUH_BATCH_SIZE alerts, with the ids trimmed
\* to their limit by the poll before.
LEMMA FetchAlertsStep == ASSUME IInv, FetchAlerts PROVE IInv'
<1> USE DEF FetchAlerts, world, attempts, access, memory, kafka
<1>1. IsFiniteSet(batch') /\ Cardinality(batch') <= BatchSize /\ batch' \subseteq Alerts
  BY NewestBound, BridgeAssumption DEF IInv, TypeOK, Finite, Newest
<1>2. TypeOK'
  BY <1>1 DEF IInv, TypeOK, Phases, MaxAttempts
<1>3. Balanced' /\ NothingSkipped'
  BY DEF IInv, Balanced, NothingSkipped
<1>4. Finite'
  BY <1>1 DEF IInv, Finite
<1>5. Room'
  <2>1. Cardinality(seen) \in Nat /\ Cardinality(batch') \in Nat
    BY <1>1, FS_CardinalityType DEF IInv, Finite
  <2>2. cut \/ Cardinality(seen) <= SeenLimit
    BY DEF IInv, Room
  <2>3. QED
    BY <1>1, <2>1, <2>2, BridgeAssumption DEF Room
<1>6. QED
  BY <1>2, <1>3, <1>4, <1>5 DEF IInv

\* Skip: the batch shrinks.
LEMMA SkipStep == ASSUME IInv, NEW a \in Alerts, Skip(a) PROVE IInv'
<1> USE DEF Skip, world, attempts, access, memory, kafka
<1>1. TypeOK'
  BY DEF IInv, TypeOK
<1>2. Balanced' /\ NothingSkipped'
  BY DEF IInv, Balanced, NothingSkipped
<1>3. /\ IsFiniteSet(batch')
      /\ Cardinality(batch) \in Nat /\ Cardinality(batch') \in Nat
      /\ Cardinality(batch') <= Cardinality(batch)
  BY FS_Subset, FS_CardinalityType DEF IInv, Finite
<1>4. Cardinality(seen) \in Nat
  BY FS_CardinalityType DEF IInv, Finite
<1>5. Finite' /\ Room'
  BY <1>3, <1>4, BridgeAssumption DEF IInv, Finite, Room
<1>6. QED
  BY <1>1, <1>2, <1>5 DEF IInv

\* Publish: one id more in the set, one alert less in the batch; the id was
\* not in the set, so its count and its place in the set move together.
LEMMA PublishStep == ASSUME IInv, NEW a \in Alerts, Publish(a) PROVE IInv'
<1> USE DEF Publish, world, attempts, access
<1> DEFINE id == IdOf[a]
<1>1. /\ id \in Ids /\ id \notin seen
      /\ seen' = seen \cup {id} /\ batch' = batch \ {a} /\ a \in batch
      /\ forgotten' = forgotten /\ cut' = cut /\ phase = "publishing" /\ phase' = phase
      /\ sent' = [sent EXCEPT ![id] = @ + 1]
      /\ buffer' = Append(buffer, id) /\ topic' = topic /\ failed' = failed
      /\ indexed' = indexed
  BY BridgeAssumption DEF Current
<1>2. TypeOK'
  <2>1. buffer' \in Seq(Ids) /\ Len(buffer') <= QueueLimit
    BY <1>1, BridgeAssumption DEF IInv, TypeOK
  <2>2. sent' \in [Ids -> Nat]
    BY <1>1 DEF IInv, TypeOK
  <2>3. UNCHANGED <<down, fetches, logins, token, accepted, faults>>
    OBVIOUS
  <2> HIDE DEF Publish, id
  <2>4. QED
    BY <1>1, <2>1, <2>2, <2>3 DEF IInv, TypeOK
<1> HIDE DEF Publish, id
<1>3. Balanced'
  <2>1. ASSUME NEW i \in Ids
        PROVE  sent'[i] = forgotten'[i] + (IF i \in seen' THEN 1 ELSE 0)
    <3>1. sent[i] \in Nat /\ forgotten[i] \in Nat
      BY DEF IInv, TypeOK
    <3>2. CASE i = id
      BY <1>1, <3>1, <3>2 DEF IInv, Balanced, TypeOK
    <3>3. CASE i # id
      BY <1>1, <3>1, <3>3 DEF IInv, Balanced, TypeOK
    <3>4. QED
      BY <3>2, <3>3
  <2>2. QED
    BY <2>1 DEF Balanced
<1>4. NothingSkipped'
  <2>1. buffer \in Seq(Ids)
    BY DEF IInv, TypeOK
  <2>2. /\ Len(buffer') = Len(buffer) + 1 /\ Len(buffer) \in Nat
        /\ buffer'[Len(buffer) + 1] = id
        /\ \A k \in 1 .. Len(buffer) : buffer'[k] = buffer[k]
    BY <1>1, <2>1
  <2>3. QED
    BY <1>1, <2>2 DEF IInv, NothingSkipped
<1>5. /\ IsFiniteSet(batch') /\ IsFiniteSet(seen')
      /\ Cardinality(batch') = Cardinality(batch) - 1
      /\ Cardinality(seen') = Cardinality(seen) + 1
  BY <1>1, FS_AddElement, FS_RemoveElement DEF IInv, Finite
<1>6. Cardinality(batch) \in Nat /\ Cardinality(seen) \in Nat
  BY FS_CardinalityType DEF IInv, Finite
<1>7. Finite' /\ Room'
  BY <1>1, <1>5, <1>6, BridgeAssumption DEF IInv, Finite, Room
<1>8. QED
  BY <1>2, <1>3, <1>4, <1>7 DEF IInv

\* QueueFull: nothing is remembered, and the poll counts as cut short.
LEMMA QueueFullStep == ASSUME IInv, NEW a \in Alerts, QueueFull(a) PROVE IInv'
<1> USE DEF QueueFull, world, attempts, access, kafka
<1>1. TypeOK'
  BY DEF IInv, TypeOK, Phases
<1>2. Balanced' /\ NothingSkipped'
  BY DEF IInv, Balanced, NothingSkipped
<1>3. Finite' /\ Room'
  BY FS_EmptySet DEF IInv, Finite, Room
<1>4. QED
  BY <1>1, <1>2, <1>3 DEF IInv

\* Keep: an id is forgotten when it leaves the set.
LEMMA KeepBalances ==
    ASSUME IInv, NEW kept \in SUBSET seen, Keep(kept), sent' = sent
    PROVE  /\ Balanced'
           /\ seen' = kept
           /\ forgotten' \in [Ids -> Nat]
           /\ IsFiniteSet(kept) /\ Cardinality(kept) \in Nat
<1>1. seen' = kept /\ forgotten' \in [Ids -> Nat]
  BY DEF Keep, IInv, TypeOK
<1>2. ASSUME NEW i \in Ids
      PROVE  sent'[i] = forgotten'[i] + (IF i \in seen' THEN 1 ELSE 0)
  <2>1. forgotten'[i] = IF i \in seen \ kept THEN forgotten[i] + 1 ELSE forgotten[i]
    BY DEF Keep
  <2>2. forgotten[i] \in Nat /\ sent[i] = forgotten[i] + (IF i \in seen THEN 1 ELSE 0)
    BY DEF IInv, TypeOK, Balanced
  <2>3. QED
    BY <1>1, <2>1, <2>2
<1>3. IsFiniteSet(kept) /\ Cardinality(kept) \in Nat
  BY FS_Subset, FS_CardinalityType DEF IInv, Finite
<1>4. QED
  BY <1>1, <1>2, <1>3 DEF Balanced

\* EndPoll: the set is within its limit again.
LEMMA EndPollStep == ASSUME IInv, EndPoll PROVE IInv'
<1> USE DEF EndPoll, world, attempts, access, kafka
<1>1. Cardinality(seen) \in Nat /\ seen \subseteq Ids
  BY FS_CardinalityType DEF IInv, Finite, TypeOK
<1>2. CASE Cardinality(seen) > SeenLimit
  <2>1. PICK kept \in SUBSET seen : Cardinality(kept) = SeenKept /\ Keep(kept)
    BY <1>2
  <2>2. /\ Balanced' /\ seen' = kept /\ forgotten' \in [Ids -> Nat]
        /\ IsFiniteSet(kept) /\ Cardinality(kept) \in Nat
    BY <2>1, KeepBalances
  <2>3. TypeOK'
    BY <1>1, <2>2 DEF IInv, TypeOK, Phases
  <2>4. Finite' /\ Room'
    BY <2>1, <2>2, BridgeAssumption DEF IInv, Finite, Room
  <2>5. NothingSkipped'
    BY <2>2 DEF IInv, NothingSkipped
  <2>6. QED
    BY <2>2, <2>3, <2>4, <2>5 DEF IInv
<1>3. CASE ~ (Cardinality(seen) > SeenLimit)
  <2>1. TypeOK'
    BY <1>3 DEF IInv, TypeOK, Phases
  <2>2. Balanced' /\ NothingSkipped'
    BY <1>3 DEF IInv, Balanced, NothingSkipped
  <2>3. Finite' /\ Room'
    BY <1>1, <1>3, BridgeAssumption DEF IInv, Finite, Room
  <2>4. QED
    BY <2>1, <2>2, <2>3 DEF IInv
<1>4. QED
  BY <1>2, <1>3

\* Deliver and DeliveryFails: what leaves the producer's queue is reported.
LEMMA ReportStep == ASSUME IInv, Deliver \/ DeliveryFails PROVE IInv'
<1> USE DEF world, attempts, access, memory
<1>1. /\ buffer # <<>> /\ buffer \in Seq(Ids) /\ buffer' = Tail(buffer)
      /\ topic' \cup failed' = topic \cup failed \cup {Head(buffer)}
      /\ UNCHANGED <<world, phase, attempts, access, batch, memory, sent, faults>>
  BY DEF Deliver, DeliveryFails, IInv, TypeOK
<1>2. TypeOK'
  <2>1. Head(buffer) \in Ids /\ Tail(buffer) \in Seq(Ids) /\ Len(Tail(buffer)) <= QueueLimit
    BY <1>1, BridgeAssumption DEF IInv, TypeOK
  <2>2. topic' \subseteq Ids /\ failed' \subseteq Ids
    BY <2>1 DEF Deliver, DeliveryFails, IInv, TypeOK
  <2>3. QED
    BY <1>1, <2>1, <2>2 DEF IInv, TypeOK
<1>3. NothingSkipped'
  <2>1. ASSUME NEW i \in seen, NEW k \in 1 .. Len(buffer), buffer[k] = i
        PROVE  i = Head(buffer) \/ \E j \in 1 .. Len(buffer') : buffer'[j] = i
    <3>1. CASE k = 1
      BY <1>1, <2>1, <3>1
    <3>2. CASE k # 1
      <4>1. /\ k - 1 \in 1 .. Len(Tail(buffer))
            /\ Tail(buffer)[k - 1] = buffer[k]
        BY <1>1, <3>2
      <4>2. QED
        BY <1>1, <2>1, <4>1
    <3>3. QED
      BY <3>1, <3>2
  <2>2. QED
    BY <1>1, <2>1 DEF IInv, NothingSkipped
<1>4. Balanced' /\ Finite' /\ Room'
  BY <1>1 DEF IInv, Balanced, Finite, Room
<1>5. QED
  BY <1>2, <1>3, <1>4 DEF IInv

\* Index, TokenExpires, TokenRevoked, GoesDown, ComesBack.
LEMMA WorldStep ==
    ASSUME IInv,
           \/ \E a \in Alerts : Index(a)
           \/ TokenExpires \/ TokenRevoked
           \/ \E s \in {"wazuh", "kafka"} : GoesDown(s) \/ ComesBack(s)
    PROVE  IInv'
<1> USE DEF world, attempts, access, memory, kafka
<1>1. IsFiniteSet(indexed) /\ faults \in 0 .. MaxFaults
  BY DEF IInv, Finite, TypeOK
<1>2. ASSUME NEW a \in Alerts, Index(a) PROVE IInv'
  <2>1. IsFiniteSet(indexed')
    BY <1>1, <1>2, FS_AddElement DEF Index
  <2>2. TypeOK'
    BY <1>2 DEF Index, IInv, TypeOK
  <2>3. phase' = phase /\ UNCHANGED <<batch, memory, kafka>>
    BY <1>2 DEF Index
  <2>4. QED
    BY <2>1, <2>2, <2>3, QuietStep
<1>3. ASSUME TokenExpires \/ TokenRevoked PROVE IInv'
  <2>1. faults' \in 0 .. MaxFaults
    BY <1>1, <1>3, BridgeAssumption DEF TokenExpires, TokenRevoked, Fault
  <2>2. /\ token' \in {token, "expired"} /\ accepted' \in {accepted, FALSE}
        /\ UNCHANGED <<world, phase, attempts, batch, memory, kafka>>
    BY <1>3 DEF TokenExpires, TokenRevoked
  <2>3. TypeOK'
    BY <2>1, <2>2 DEF IInv, TypeOK
  <2>4. QED
    BY <1>1, <2>2, <2>3, QuietStep
<1>4. ASSUME NEW s \in {"wazuh", "kafka"}, GoesDown(s) \/ ComesBack(s) PROVE IInv'
  <2>1. faults' \in 0 .. MaxFaults
    BY <1>1, <1>4, BridgeAssumption DEF GoesDown, ComesBack, Fault
  <2>2. /\ down' \in {down \cup {s}, down \ {s}}
        /\ UNCHANGED <<indexed, phase, attempts, access, batch, memory, kafka>>
    BY <1>4 DEF GoesDown, ComesBack
  <2>3. TypeOK'
    BY <2>1, <2>2 DEF IInv, TypeOK
  <2>4. QED
    BY <1>1, <2>2, <2>3, QuietStep
<1>5. QED
  BY <1>2, <1>3, <1>4

\* Stop: everything remembered is forgotten, whatever was flushed.
LEMMA StopStep == ASSUME IInv, Stop PROVE IInv'
<1> USE DEF Stop, world
<1>1. Balanced' /\ seen' = {} /\ forgotten' \in [Ids -> Nat]
  BY KeepBalances
<1>2. TypeOK'
  <2>1. PICK n \in 0 .. Len(buffer) : topic' = topic \cup {buffer[k] : k \in 1 .. n}
    OBVIOUS
  <2>2. \A k \in 1 .. n : buffer[k] \in Ids
    BY <2>1 DEF IInv, TypeOK
  <2>3. topic' \subseteq Ids
    BY <2>1, <2>2 DEF IInv, TypeOK
  <2>4. faults' \in 0 .. MaxFaults
    BY BridgeAssumption DEF Fault, IInv, TypeOK
  <2>5. buffer' \in Seq(Ids) /\ Len(buffer') <= QueueLimit
    BY BridgeAssumption
  <2>6. /\ phase' = "stopped" /\ batch' = {} /\ token' = "none"
        /\ fetches' = 1 /\ logins' = 1 /\ accepted' = FALSE /\ cut' = FALSE
        /\ UNCHANGED <<indexed, down, failed, sent>>
    OBVIOUS
  <2>7. phase' \in Phases /\ fetches' \in 1 .. MaxAttempts /\ logins' \in 1 .. MaxAttempts
    BY <2>6 DEF Phases, MaxAttempts
  <2> HIDE DEF Stop
  <2>8. QED
    BY <1>1, <2>3, <2>4, <2>5, <2>6, <2>7 DEF IInv, TypeOK
<1>3. Finite' /\ Room'
  BY <1>1, FS_EmptySet, BridgeAssumption DEF IInv, Finite, Room
<1>4. NothingSkipped'
  BY <1>1 DEF NothingSkipped
<1>5. QED
  BY <1>1, <1>2, <1>3, <1>4 DEF IInv

\* Restart: the pod starts with what Stop left.
LEMMA RestartStep == ASSUME IInv, Restart PROVE IInv'
  BY QuietStep DEF Restart, IInv, TypeOK, Finite, world, attempts, access, memory, kafka, Phases

\* Every step keeps the invariant.
LEMMA StepIInv == IInv /\ [Next]_vars => IInv'
<1> SUFFICES ASSUME IInv, [Next]_vars PROVE IInv'
  OBVIOUS
<1>1. CASE Next
  <2>1. CASE Poll
    BY <2>1, RequestStep, FetchAlertsStep, SkipStep, PublishStep, QueueFullStep, EndPollStep
       DEF Poll
  <2>2. CASE Deliver \/ DeliveryFails
    BY <2>2, ReportStep
  <2>3. CASE \/ \E a \in Alerts : Index(a)
             \/ TokenExpires \/ TokenRevoked
             \/ \E s \in {"wazuh", "kafka"} : GoesDown(s) \/ ComesBack(s)
    BY <2>3, WorldStep
  <2>4. CASE Stop
    BY <2>4, StopStep
  <2>5. CASE Restart
    BY <2>5, RestartStep
  <2>6. QED
    BY <1>1, <2>1, <2>2, <2>3, <2>4, <2>5 DEF Next
<1>2. CASE UNCHANGED vars
  <2>1. TypeOK'
    BY <1>2 DEF vars, world, attempts, access, memory, kafka, IInv, TypeOK
  <2>2. phase' = phase /\ indexed' = indexed /\ UNCHANGED <<batch, memory, kafka>>
    BY <1>2 DEF vars, world
  <2>3. IsFiniteSet(indexed)
    BY DEF IInv, Finite
  <2>4. QED
    BY <2>1, <2>2, <2>3, QuietStep
<1>3. QED
  BY <1>1, <1>2

-----------------------------------------------------------------------------

\* The bridge keeps its invariant: the counts of send and of losses balance.
THEOREM BridgeInvariant == Spec => []IInv
<1>1. Init => IInv
  BY InitIInv
<1>2. IInv /\ [Next]_vars => IInv'
  BY StepIInv
<1>3. QED
  BY <1>1, <1>2, PTL DEF Spec

\* The variables of the bridge and of the producer have their types.
THEOREM BridgeTypes == Spec => []TypeOK
<1>1. IInv => TypeOK
  BY DEF IInv
<1>2. QED
  BY <1>1, BridgeInvariant, PTL

\* run() sends an id at most once more often than _seen_ids has lost it.
THEOREM BridgeSendsOnce == Spec => []OnceUnlessForgotten
<1>1. IInv => OnceUnlessForgotten
  <2> SUFFICES ASSUME IInv, NEW i \in Ids PROVE sent[i] <= forgotten[i] + 1
    BY DEF OnceUnlessForgotten
  <2>1. forgotten[i] \in Nat /\ sent[i] = forgotten[i] + (IF i \in seen THEN 1 ELSE 0)
    BY DEF IInv, TypeOK, Balanced
  <2>2. QED
    BY <2>1
<1>2. QED
  BY <1>1, BridgeInvariant, PTL

\* run() remembers no alert the producer never got.
THEOREM BridgeSkipsNothing == Spec => []NothingSkipped
<1>1. IInv => NothingSkipped
  BY DEF IInv
<1>2. QED
  BY <1>1, BridgeInvariant, PTL

\* Trimming bounds _seen_ids, whatever the limits: the batch the query returns
\* is never larger than WAZUH_BATCH_SIZE.
THEOREM BridgeMemoryBounded == Spec => []SeenBounded
<1>1. IInv => SeenBounded
  <2> SUFFICES ASSUME IInv PROVE SeenBounded
    OBVIOUS
  <2>1. Cardinality(seen) \in Nat /\ Cardinality(batch) \in Nat
    BY FS_CardinalityType DEF IInv, Finite
  <2>2. QED
    BY <2>1, BridgeAssumption DEF IInv, Room, SeenBounded
<1>2. QED
  BY <1>1, BridgeInvariant, PTL
=============================================================================
