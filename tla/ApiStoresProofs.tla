--------------------------- MODULE ApiStoresProofs ---------------------------
(***************************************************************************)
(* Safety of ApiStores for any workers, clients, mixes of requests and     *)
(* failures.  A request relies on what it saw some awaits ago, while the   *)
(* others go on: the invariant says of each request what its await implies *)
(* of its route, of the log it has written and of the row it is about, and *)
(* of each row whose writes it is made of.                                 *)
(***************************************************************************)
EXTENDS ApiStores, FiniteSetTheorems, TLAPS

\* What an await says of the route, and of what was read before.
RouteInv(c) ==
    /\ at[c] = "token" => kind[c] \in Guarded
    /\ at[c] \in {"credentials", "audit", "stamp"} => kind[c] = "login"
    /\ at[c] = "insertUser" => kind[c] = "addUser"
    /\ at[c] = "insert" => kind[c] = "create"
    /\ at[c] = "existing" => kind[c] \in Reading
    /\ at[c] = "update" => kind[c] = "edit" /\ field[c] \in Fields
    /\ at[c] = "reread" => kind[c] \in {"create", "edit"}
    /\ at[c] = "delete" => kind[c] = "delete"
    /\ at[c] = "agent" => kind[c] = "status" /\ seen[c] \in Rows
    /\ at[c] = "byHost" => kind[c] = "status"
    /\ at[c] = "register" => kind[c] = "enroll"
    /\ at[c] = "store" => kind[c] \in {"status", "enroll"}
    /\ reply[c] # "none" => at[c] = "answered"

\* A request is about a row that was inserted, or inserts one with a fresh id.
TargetInv(c) ==
    /\ at[c] # "idle" /\ kind[c] \in Reading \cup {"delete"} => target[c] \in known
    /\ at[c] \in {"idle", "insert"} => c \notin known

\* What the log holds of an attempt, at each await of the login.
LoginInv(c) ==
    /\ at[c] = "audit" /\ success[c] => user[c] \in users
    /\ at[c] = "stamp" =>
           success[c] /\ <<c, "LOGIN_SUCCESS">> \in audit /\ user[c] \in users
    /\ \A e \in audit : e[1] = c => at[c] \in {"stamp", "answered"} /\ e = <<c, Event(c)>>
    /\ kind[c] = "login" /\ reply[c] = "ok" =>
           <<c, "LOGIN_SUCCESS">> \in audit /\ user[c] \in users
    /\ kind[c] = "login" /\ reply[c] = "denied" => <<c, "LOGIN_FAILED">> \in audit

\* What is left of the row of a request that was told it is missing, or edited it.
AnswerInv(c) ==
    /\ reply[c] = "missing" =>
           kind[c] \in Reading \cup {"delete"} /\ sources[target[c]] = NoRow
    /\ /\ kind[c] = "edit" /\ field[c] \in Fields
       /\ at[c] = "reread" \/ reply[c] = "ok"
       /\ sources[target[c]] # NoRow
       => sources[target[c]][field[c]] # "first"

ClientInv(c) == RouteInv(c) /\ TargetInv(c) /\ LoginInv(c) /\ AnswerInv(c)

\* A row is made of the writes of requests that were about it; its agent and
\* status come from one that has been answered.
Writer(i, f, d) == sources[i][f] = d /\ field[d] = f /\ target[d] = i /\ at[d] # "idle"
Live(i) == [agent |-> sources[i].agent, status |-> sources[i].status]

RowInv(i) ==
    sources[i] # NoRow =>
        /\ \A f \in Fields : sources[i][f] # "first" => \E d \in Clients : Writer(i, f, d)
        /\ \/ Live(i) = Nothing
           \/ \E d \in Clients : at[d] = "answered" /\ target[d] = i /\ found[d] = Live(i)

IInv ==
    /\ TypeOK
    /\ \A c \in Clients : ClientInv(c)
    /\ \A i \in Ids : RowInv(i)

-----------------------------------------------------------------------------

\* Ids of clients are neither of the constants the model uses for rows.
LEMMA ClientNames == \A c \in Clients : c # "first" /\ c # "none" /\ c # "old"
  BY ApiAssumption

\* The row that is missing is no row.
LEMMA NoRowIsNone == NoRow \notin Rows
<1> SUFFICES ASSUME NoRow \in Rows PROVE FALSE
  OBVIOUS
<1>1. NoRow.name = "none" /\ NoRow.name \in Clients \cup {"first"}
  BY DEF NoRow, Rows
<1>2. QED
  BY <1>1, ClientNames

LEMMA CreatedIsRow == Created \in Rows /\ \A f \in Fields : Created[f] = "first"
  BY DEF Created, Rows, Statuses, Fields

\* No worker serves yet, and the file holds what an earlier run left.
LEMMA InitIInv == Init => IInv
<1> SUFFICES ASSUME Init PROVE IInv
  OBVIOUS
<1>1. users \in {{}, {Admin}} /\ known \in {{}, {"old"}}
  BY DEF Init
<1>2. TypeOK
  <2>1. sources \in [Ids -> Rows \cup {NoRow}]
    BY CreatedIsRow DEF Init
  <2>2. Nothing \in [agent : Agents \cup {"none"}, status : Statuses]
    BY DEF Nothing, Statuses
  <2>3. faults \in 0 .. MaxFaults
    BY ApiAssumption DEF Init
  <2>4. on \in [Clients -> Workers] /\ kind \in [Clients -> Routes]
    BY ApiAssumption DEF Init
  <2>5. known \subseteq Ids /\ users \subseteq Usernames /\ \A i \in Ids \ known : sources[i] = NoRow
    BY <1>1 DEF Init, Ids, Usernames
  <2>6. QED
    BY <2>1, <2>2, <2>3, <2>4, <2>5 DEF Init, TypeOK, Startup, Awaits, Ids
<1>3. \A c \in Clients : ClientInv(c)
  BY <1>1, ClientNames DEF Init, ClientInv, RouteInv, TargetInv, LoginInv, AnswerInv
<1>4. \A i \in Ids : RowInv(i)
  <2>1. \A i \in Ids : sources[i] \in {Created, NoRow}
    BY DEF Init
  <2>2. \A i \in Ids : sources[i] = Created => Live(i) = Nothing
    BY DEF Live, Created, Nothing
  <2>3. QED
    BY <2>1, <2>2, CreatedIsRow DEF RowInv
<1>5. QED
  BY <1>2, <1>3, <1>4 DEF IInv

-----------------------------------------------------------------------------
(* What a request does to itself, and what it may do to the others.        *)

Replies == {"none", "ok", "denied", "forbidden", "missing", "conflict", "unknown", "failed"}

\* The request of c goes to await s, with reply r.
Moved(c, s, r) ==
    /\ at' = [at EXCEPT ![c] = s]
    /\ reply' = [reply EXCEPT ![c] = r]

\* It changes its own local variables.
LocalOf(c) ==
    /\ seen' \in [Clients -> Rows \cup {NoRow}]
    /\ found' \in [Clients -> [agent : Agents \cup {"none"}, status : Statuses]]
    /\ success' \in [Clients -> BOOLEAN]
    /\ \A d \in Clients \ {c} : seen'[d] = seen[d] /\ found'[d] = found[d] /\ success'[d] = success[d]

\* It adds users, and its own attempt to the log.
AuthOf(c) ==
    /\ users \subseteq users' /\ users' \subseteq Usernames
    /\ issued' \subseteq users'
    /\ audit \subseteq audit' /\ audit' \subseteq Clients \X {"LOGIN_SUCCESS", "LOGIN_FAILED"}
    /\ \A e \in audit' \ audit : e[1] = c

\* A row that is gone stays away, and a field that was written is not reset.
RowsKept ==
    \A i \in known :
        /\ sources[i] = NoRow => sources'[i] = NoRow
        /\ \A f \in Fields : sources'[i] # NoRow /\ sources[i] # NoRow /\ sources[i][f] # "first"
                                 => sources'[i][f] # "first"

\* It may add a row of its own id.
TableOf(c) ==
    /\ known' \in {known, known \cup {c}}
    /\ sources' \in [Ids -> Rows \cup {NoRow}]
    /\ \A i \in Ids \ known' : sources'[i] = NoRow
    /\ RowsKept
    /\ \A i \in Ids : RowInv(i)'

\* An await leaves the reply open.
LEMMA AwaitMoves ==
    ASSUME IInv, NEW c \in Clients, NEW s, Await(c, s), at[c] # "answered"
    PROVE  Moved(c, s, "none")
<1>1. reply[c] = "none" /\ reply \in [Clients -> Replies]
  BY DEF IInv, ClientInv, RouteInv, TypeOK, Replies
<1>2. reply' = [reply EXCEPT ![c] = "none"]
  BY <1>1 DEF Await
<1>3. QED
  BY <1>2 DEF Await, Moved

\* What a move changes.
LEMMA MovedAt ==
    ASSUME IInv, NEW c \in Clients, NEW s \in Awaits, NEW r \in Replies, Moved(c, s, r)
    PROVE  /\ at' \in [Clients -> Awaits] /\ reply' \in [Clients -> Replies]
           /\ at'[c] = s /\ reply'[c] = r
           /\ \A d \in Clients \ {c} : at'[d] = at[d] /\ reply'[d] = reply[d]
  BY DEF IInv, TypeOK, Moved, Replies

LEMMA SameLocal == ASSUME IInv, NEW c \in Clients, UNCHANGED local PROVE LocalOf(c)
  BY DEF IInv, TypeOK, local, LocalOf

LEMMA SameAuth == ASSUME IInv, NEW c \in Clients, UNCHANGED auth PROVE AuthOf(c)
  BY DEF IInv, TypeOK, auth, AuthOf

\* A row that is not written keeps its writers, and who has told its status:
\* requests under way keep what they are about, and answered ones what they found.
LEMMA SameRow ==
    ASSUME IInv, NEW i \in Ids, sources'[i] = sources[i],
           \A d \in Clients : at[d] # "idle" =>
               at'[d] # "idle" /\ target'[d] = target[d] /\ field'[d] = field[d],
           \A d \in Clients : at[d] = "answered" => at'[d] = "answered" /\ found'[d] = found[d]
    PROVE  RowInv(i)'
<1> SUFFICES ASSUME sources[i] # NoRow
             PROVE  /\ \A f \in Fields : sources'[i][f] # "first" => \E d \in Clients : Writer(i, f, d)'
                    /\ \/ Live(i)' = Nothing
                       \/ \E d \in Clients : at'[d] = "answered" /\ target'[d] = i /\ found'[d] = Live(i)'
  BY DEF RowInv
<1>1. RowInv(i)
  BY DEF IInv
<1>2. Live(i)' = Live(i)
  BY DEF Live
<1>3. ASSUME NEW f \in Fields, sources'[i][f] # "first"
      PROVE  \E d \in Clients : Writer(i, f, d)'
  <2>1. PICK d \in Clients : Writer(i, f, d)
    BY <1>1, <1>3 DEF RowInv
  <2>2. QED
    BY <2>1 DEF Writer
<1>4. QED
  BY <1>1, <1>2, <1>3 DEF RowInv

LEMMA SameTable ==
    ASSUME IInv, NEW c \in Clients, at[c] # "answered", UNCHANGED <<table, request>>,
           NEW s \in Awaits \ {"idle"}, NEW r \in Replies, Moved(c, s, r), LocalOf(c)
    PROVE  TableOf(c)
<1>1. at'[c] = s /\ \A d \in Clients \ {c} : at'[d] = at[d]
  BY MovedAt
<1>2. \A i \in Ids : RowInv(i)'
  BY <1>1, SameRow DEF table, request, LocalOf
<1>3. QED
  BY <1>2 DEF IInv, TypeOK, TableOf, RowsKept, table

\* A request of which nothing changes keeps its invariant, whatever another one does.
LEMMA SameClient ==
    ASSUME IInv, NEW d \in Clients,
           UNCHANGED <<at[d], reply[d], kind[d], user[d], target[d], field[d], seen[d], success[d]>>,
           users \subseteq users', audit \subseteq audit', \A e \in audit' \ audit : e[1] # d,
           known \subseteq known', d \in known' => d \in known, RowsKept
    PROVE  ClientInv(d)'
<1>1. ClientInv(d)
  BY DEF IInv
<1>2. RouteInv(d)' /\ TargetInv(d)'
  BY <1>1 DEF ClientInv, RouteInv, TargetInv
<1>3. LoginInv(d)'
  <2>1. Event(d)' = Event(d)
    BY DEF Event
  <2>2. QED
    BY <1>1, <2>1 DEF ClientInv, LoginInv
<1>4. AnswerInv(d)'
  <2>1. reply[d] = "missing" => sources'[target[d]] = NoRow
    BY <1>1 DEF ClientInv, RouteInv, TargetInv, AnswerInv, RowsKept
  <2>2. ASSUME kind[d] = "edit", field[d] \in Fields, at[d] = "reread" \/ reply[d] = "ok",
               sources'[target[d]] # NoRow
        PROVE  sources'[target[d]][field[d]] # "first"
    <3>1. target[d] \in known
      BY <1>1, <2>2 DEF ClientInv, RouteInv, TargetInv, Reading
    <3>2. QED
      BY <1>1, <2>2, <3>1 DEF ClientInv, AnswerInv, RowsKept
  <2>3. QED
    BY <1>1, <2>1, <2>2 DEF ClientInv, AnswerInv
<1>5. QED
  BY <1>2, <1>3, <1>4 DEF ClientInv

\* What is left to show of a step of a handler: what it makes of its own
\* request, and of the row it writes.
LEMMA HandlerFrame ==
    ASSUME IInv, NEW c \in Clients, UNCHANGED <<worker, request, faults>>,
           NEW s \in Awaits \ {"idle"}, NEW r \in Replies, Moved(c, s, r),
           LocalOf(c), AuthOf(c), TableOf(c), ClientInv(c)'
    PROVE  IInv'
<1>1. /\ at' \in [Clients -> Awaits] /\ reply' \in [Clients -> Replies]
      /\ \A d \in Clients \ {c} : at'[d] = at[d] /\ reply'[d] = reply[d]
  BY MovedAt
<1>2. TypeOK'
  <2>1. known' \subseteq Ids
    BY DEF TableOf, IInv, TypeOK, Ids
  <2>2. QED
    BY <1>1, <2>1 DEF IInv, TypeOK, LocalOf, AuthOf, TableOf, request, Replies
<1>3. ASSUME NEW d \in Clients \ {c} PROVE ClientInv(d)'
  <2>1. UNCHANGED <<at[d], reply[d], kind[d], user[d], target[d], field[d], seen[d], success[d]>>
    BY <1>1 DEF LocalOf, request
  <2>2. /\ users \subseteq users' /\ audit \subseteq audit' /\ \A e \in audit' \ audit : e[1] # d
        /\ known \subseteq known' /\ (d \in known' => d \in known) /\ RowsKept
    BY DEF AuthOf, TableOf
  <2>3. QED
    BY <2>1, <2>2, SameClient
<1>4. QED
  BY <1>2, <1>3 DEF IInv, TableOf

-----------------------------------------------------------------------------
(* Workers that start, fail and die; requests that arrive, and fail.       *)

\* A startup adds the administrator at most.
LEMMA StartStep == ASSUME IInv, NEW w \in Workers, Start(w) PROVE IInv'
<1>1. /\ UNCHANGED <<table, request, at, local, reply>>
      /\ users \subseteq users' /\ users' \subseteq users \cup {Admin} /\ UNCHANGED <<audit, issued>>
      /\ worker' \in [Workers -> Startup]
      /\ faults' \in 0 .. MaxFaults
  <2>1. CASE Boot(w) \/ CountUsers(w)
    BY <2>1 DEF Start, Boot, CountUsers, Goes, auth, IInv, TypeOK, Startup
  <2>2. CASE SeedAdmin(w)
    BY <2>2 DEF Start, SeedAdmin, Goes, IInv, TypeOK, Startup
  <2>3. CASE StartupFails(w)
    <3>1. faults' \in 0 .. MaxFaults
      BY <2>3, ApiAssumption DEF StartupFails, Fault, IInv, TypeOK
    <3>2. QED
      BY <2>3, <3>1 DEF Start, StartupFails, auth, IInv, TypeOK, Startup
  <2>4. QED
    BY <2>1, <2>2, <2>3 DEF Start
<1>2. TypeOK'
  BY <1>1 DEF IInv, TypeOK, Usernames, table, request, local
<1>3. ASSUME NEW c \in Clients PROVE ClientInv(c)'
  <2>1. RowsKept
    BY <1>1 DEF RowsKept, table
  <2>2. QED
    BY <1>1, <2>1, SameClient DEF table, request, local
<1>4. \A i \in Ids : RowInv(i)'
  BY <1>1, SameRow DEF table, request, local
<1>5. QED
  BY <1>2, <1>3, <1>4 DEF IInv

\* A request that fails at an await promises nothing.
LEMMA FailedRequest ==
    ASSUME IInv, NEW c \in Clients, Waiting(c), UNCHANGED <<auth, table, request, local>>,
           at'[c] = "answered", reply'[c] \in {"failed", "conflict"}
    PROVE  ClientInv(c)'
<1>1. ClientInv(c)
  BY DEF IInv
<1>2. Event(c)' = Event(c)
  BY DEF Event, local
<1>3. RouteInv(c)' /\ TargetInv(c)'
  BY <1>1 DEF ClientInv, RouteInv, TargetInv, Waiting, request, table
<1>4. LoginInv(c)'
  BY <1>1, <1>2 DEF ClientInv, LoginInv, request, auth, local
<1>5. AnswerInv(c)'
  BY DEF AnswerInv
<1>6. QED
  BY <1>3, <1>4, <1>5 DEF ClientInv

\* All requests of a worker fail with it.
LEMMA WorkerDiesStep == ASSUME IInv, NEW w \in Workers, WorkerDies(w) PROVE IInv'
<1>1. /\ UNCHANGED <<auth, table, request, local>>
      /\ at' = [c \in Clients |-> IF on[c] = w /\ Waiting(c) THEN "answered" ELSE at[c]]
      /\ reply' = [c \in Clients |-> IF on[c] = w /\ Waiting(c) THEN "failed" ELSE reply[c]]
  BY DEF WorkerDies
<1>2. TypeOK'
  <2>1. faults' \in 0 .. MaxFaults
    BY ApiAssumption DEF WorkerDies, Fault, IInv, TypeOK
  <2>2. worker' \in [Workers -> Startup]
    BY DEF WorkerDies, IInv, TypeOK, Startup
  <2>3. at' \in [Clients -> Awaits] /\ reply' \in [Clients -> Replies]
    BY <1>1 DEF IInv, TypeOK, Awaits, Replies
  <2>4. QED
    BY <1>1, <2>1, <2>2, <2>3 DEF IInv, TypeOK, Replies, auth, table, request, local
<1>3. ASSUME NEW c \in Clients PROVE ClientInv(c)'
  <2>1. CASE on[c] = w /\ Waiting(c)
    BY <1>1, <2>1, FailedRequest
  <2>2. CASE ~(on[c] = w /\ Waiting(c))
    <3>1. UNCHANGED <<at[c], reply[c]>>
      BY <1>1, <2>2
    <3>2. RowsKept
      BY <1>1 DEF RowsKept, table
    <3>3. QED
      BY <1>1, <3>1, <3>2, SameClient DEF auth, table, request, local
  <2>3. QED
    BY <2>1, <2>2
<1>4. \A i \in Ids : RowInv(i)'
  BY <1>1, SameRow DEF Waiting, table, request, local
<1>5. QED
  BY <1>2, <1>3, <1>4 DEF IInv

LEMMA StatementFailsStep == ASSUME IInv, NEW c \in Clients, StatementFails(c) PROVE IInv'
<1>1. PICK r \in {"failed", "conflict"} : Answer(c, r)
  BY DEF StatementFails
<1>2. /\ Waiting(c) /\ UNCHANGED <<worker, auth, table, request, local>>
      /\ Moved(c, "answered", r) /\ r \in Replies
  BY <1>1 DEF StatementFails, Answer, Moved, Replies
<1>3. /\ at' \in [Clients -> Awaits] /\ reply' \in [Clients -> Replies]
      /\ at'[c] = "answered" /\ reply'[c] = r
      /\ \A d \in Clients \ {c} : at'[d] = at[d] /\ reply'[d] = reply[d]
  BY <1>2, MovedAt DEF Awaits
<1>4. TypeOK'
  <2>1. faults' \in 0 .. MaxFaults
    BY ApiAssumption DEF StatementFails, Fault, IInv, TypeOK
  <2>2. QED
    BY <1>2, <1>3, <2>1 DEF IInv, TypeOK, Replies, auth, table, request, local
<1>5. ASSUME NEW d \in Clients PROVE ClientInv(d)'
  <2>1. CASE d = c
    BY <1>2, <1>3, <2>1, FailedRequest
  <2>2. CASE d # c
    <3>1. RowsKept
      BY <1>2 DEF RowsKept, table
    <3>2. QED
      BY <1>2, <1>3, <2>2, <3>1, SameClient DEF auth, table, request, local
  <2>3. QED
    BY <2>1, <2>2
<1>6. \A i \in Ids : RowInv(i)'
  BY <1>2, <1>3, SameRow DEF Waiting, table, request, local
<1>7. QED
  BY <1>4, <1>5, <1>6 DEF IInv

\* The first await of a route behind its dependencies.
LEMMA EnterAwait ==
    ASSUME IInv, NEW c \in Clients
    PROVE  /\ kind[c] = "login" => Enter(c) = "credentials"
           /\ kind[c] = "addUser" => Enter(c) = "insertUser"
           /\ kind[c] = "create" => Enter(c) = "insert"
           /\ kind[c] = "delete" => Enter(c) = "delete"
           /\ kind[c] \in Reading => Enter(c) = "existing"
           /\ kind[c] \in Routes
  BY DEF IInv, TypeOK, Enter, Reading, Routes

\* A request arrives with a row that was inserted, or none.
LEMMA BeginStep == ASSUME IInv, NEW c \in Clients, Begin(c) PROVE IInv'
<1> DEFINE s == IF kind[c] \in Guarded THEN "token" ELSE Enter(c)
<1>1. /\ at[c] = "idle" /\ Await(c, s)
      /\ UNCHANGED <<worker, auth, table, on, kind, local, faults>>
  BY DEF Begin
<1>2. s \in Awaits \ {"idle", "answered", "audit", "stamp", "reread"}
  BY EnterAwait DEF Awaits, Guarded, Reading, Routes
<1> HIDE DEF s
<1>3. Moved(c, s, "none")
  BY <1>1, AwaitMoves
<1>4. /\ at' \in [Clients -> Awaits] /\ reply' \in [Clients -> Replies]
      /\ at'[c] = s /\ reply'[c] = "none"
      /\ \A d \in Clients \ {c} : at'[d] = at[d] /\ reply'[d] = reply[d]
  BY <1>2, <1>3, MovedAt DEF Replies
<1>5. /\ user' \in [Clients -> Usernames \cup {"none"}]
      /\ \A d \in Clients \ {c} : user'[d] = user[d]
  BY DEF Begin, IInv, TypeOK
<1>6. /\ target' \in [Clients -> Ids]
      /\ \A d \in Clients \ {c} : target'[d] = target[d]
      /\ kind[c] \in Reading \cup {"delete"} => target'[c] \in known
  <2>1. CASE kind[c] \in Reading \cup {"delete"}
    BY <2>1 DEF Begin, IInv, TypeOK
  <2>2. CASE kind[c] \notin Reading \cup {"delete"}
    BY <2>2 DEF Begin, IInv, TypeOK, Ids
  <2>3. QED
    BY <2>1, <2>2
<1>7. /\ field' \in [Clients -> Fields \cup {"none"}]
      /\ \A d \in Clients \ {c} : field'[d] = field[d]
  BY DEF Begin, IInv, TypeOK
<1>8. TypeOK'
  BY <1>1, <1>4, <1>5, <1>6, <1>7 DEF IInv, TypeOK, Replies, auth, table, local
<1>9. ASSUME NEW d \in Clients \ {c} PROVE ClientInv(d)'
  <2>1. RowsKept
    BY <1>1 DEF RowsKept, table
  <2>2. QED
    BY <1>1, <1>4, <1>5, <1>6, <1>7, <2>1, SameClient DEF auth, table, local
<1>10. ClientInv(c)'
  <2>1. ClientInv(c)
    BY DEF IInv
  <2>2. RouteInv(c)'
    BY <1>1, <1>4, EnterAwait DEF s, RouteInv, Guarded, Reading, Routes
  <2>3. TargetInv(c)'
    BY <1>1, <1>6, <2>1 DEF ClientInv, TargetInv, table
  <2>4. LoginInv(c)'
    BY <1>1, <1>2, <1>4, <2>1 DEF ClientInv, LoginInv, auth
  <2>5. AnswerInv(c)'
    BY <1>2, <1>4 DEF AnswerInv
  <2>6. QED
    BY <2>2, <2>3, <2>4, <2>5 DEF ClientInv
<1>11. \A i \in Ids : RowInv(i)'
  <2>1. \A d \in Clients : at[d] # "idle" =>
            at'[d] # "idle" /\ target'[d] = target[d] /\ field'[d] = field[d]
    BY <1>1, <1>4, <1>6, <1>7
  <2>2. QED
    BY <1>1, <1>4, <2>1, SameRow DEF table, local
<1>12. QED
  BY <1>8, <1>9, <1>10, <1>11 DEF IInv

-----------------------------------------------------------------------------
(* Tokens, logins and users.                                               *)

\* A request that touches no row of its own goes on to one of these.
LEMMA AnswerMoves ==
    ASSUME NEW c \in Clients, NEW r, Answer(c, r)
    PROVE  Moved(c, "answered", r)
  BY DEF Answer, Moved

\* A token lets a request in, or answers it.
LEMMA CheckTokenStep ==
    ASSUME IInv, NEW c \in Clients, CheckToken(c), UNCHANGED <<worker, request, faults>>
    PROVE  IInv'
<1>1. at[c] = "token" /\ UNCHANGED <<auth, table, local>> /\ ClientInv(c)
  BY DEF CheckToken, IInv
<1>2. kind[c] \in Guarded
  BY <1>1 DEF ClientInv, RouteInv
<1>3. \/ \E r \in {"denied", "forbidden"} : Moved(c, "answered", r)
      \/ Moved(c, Enter(c), "none")
  BY <1>1, AnswerMoves, AwaitMoves DEF CheckToken
<1>4. PICK s \in {"answered", "insertUser", "existing", "delete"},
           r \in {"denied", "forbidden", "none"} :
        /\ Moved(c, s, r)
        /\ s = "answered" \/ (s = Enter(c) /\ r = "none")
  BY <1>2, <1>3, EnterAwait DEF Guarded, Reading
<1>5. s \in Awaits \ {"idle"} /\ r \in Replies
  BY DEF Awaits, Replies
<1>6. at'[c] = s /\ reply'[c] = r
  BY <1>4, <1>5, MovedAt
<1>7. LocalOf(c) /\ AuthOf(c) /\ TableOf(c)
  BY <1>1, <1>4, <1>5, SameLocal, SameAuth, SameTable
<1>8. ClientInv(c)'
  <2>1. UNCHANGED <<kind[c], target[c], known, audit>>
    BY <1>1 DEF request, table, auth
  <2>2. RouteInv(c)'
    BY <1>2, <1>4, <1>6, <2>1, EnterAwait DEF RouteInv, Guarded, Reading
  <2>3. TargetInv(c)'
    BY <1>1, <1>6, <2>1 DEF ClientInv, TargetInv
  <2>4. LoginInv(c)'
    BY <1>1, <1>2, <1>6, <2>1 DEF ClientInv, LoginInv, Guarded
  <2>5. AnswerInv(c)'
    BY <1>6 DEF AnswerInv
  <2>6. QED
    BY <2>2, <2>3, <2>4, <2>5 DEF ClientInv
<1>9. QED
  BY <1>4, <1>5, <1>7, <1>8, HandlerFrame

\* A request whose handler raises is answered with an error.
LEMMA RaiseStep ==
    ASSUME IInv, NEW c \in Clients, Waiting(c), UNCHANGED <<worker, request, faults>>,
           UNCHANGED <<auth, table, local>>, NEW r \in {"failed", "conflict"}, Answer(c, r)
    PROVE  IInv'
<1>1. Moved(c, "answered", r) /\ "answered" \in Awaits \ {"idle"} /\ r \in Replies
  BY AnswerMoves DEF Awaits, Replies
<1>2. at[c] # "answered"
  BY DEF Waiting
<1>3. LocalOf(c) /\ AuthOf(c) /\ TableOf(c)
  BY <1>1, <1>2, SameLocal, SameAuth, SameTable
<1>4. at'[c] = "answered" /\ reply'[c] = r
  BY <1>1, MovedAt
<1>5. ClientInv(c)'
  BY <1>4, FailedRequest
<1>6. QED
  BY <1>1, <1>3, <1>5, HandlerFrame

\* The password is right only for a user of the table.
LEMMA PasswordStep ==
    ASSUME IInv, NEW c \in Clients, at[c] = "credentials", Await(c, "audit"),
           \E right \in BOOLEAN : success' = [success EXCEPT ![c] = right /\ user[c] \in users],
           UNCHANGED <<auth, table, seen, found>>, UNCHANGED <<worker, request, faults>>
    PROVE  IInv'
<1>1. PICK right \in BOOLEAN :
        /\ at[c] = "credentials"
        /\ success' = [success EXCEPT ![c] = right /\ user[c] \in users]
        /\ Await(c, "audit")
        /\ UNCHANGED <<auth, table, seen, found>>
  OBVIOUS
<1>2. Moved(c, "audit", "none") /\ "audit" \in Awaits \ {"idle"} /\ "none" \in Replies
  BY <1>1, AwaitMoves DEF Awaits, Replies
<1>3. at'[c] = "audit" /\ reply'[c] = "none"
  BY <1>2, MovedAt
<1>4. LocalOf(c)
  BY <1>1 DEF LocalOf, IInv, TypeOK
<1>5. AuthOf(c) /\ TableOf(c)
  BY <1>1, <1>2, <1>4, SameAuth, SameTable
<1>6. ClientInv(c)'
  <2>1. ClientInv(c) /\ UNCHANGED <<kind[c], user[c], target[c], known, audit, users>>
    BY <1>1 DEF IInv, request, table, auth
  <2>2. RouteInv(c)'
    BY <1>1, <1>3, <2>1 DEF ClientInv, RouteInv
  <2>3. TargetInv(c)'
    BY <1>1, <1>3, <2>1 DEF ClientInv, TargetInv
  <2>4. success'[c] => user[c] \in users
    BY <1>1 DEF IInv, TypeOK
  <2>5. LoginInv(c)'
    BY <1>1, <1>3, <2>1, <2>4 DEF ClientInv, LoginInv
  <2>6. AnswerInv(c)'
    BY <1>3 DEF AnswerInv
  <2>7. QED
    BY <2>2, <2>3, <2>5, <2>6 DEF ClientInv
<1>7. QED
  BY <1>2, <1>4, <1>5, <1>6, HandlerFrame

LEMMA VerifyStep ==
    ASSUME IInv, NEW c \in Clients, Verify(c), UNCHANGED <<worker, request, faults>>
    PROVE  IInv'
<1>1. CASE /\ \E right \in BOOLEAN :
                success' = [success EXCEPT ![c] = right /\ user[c] \in users]
           /\ Await(c, "audit")
  BY <1>1, PasswordStep DEF Verify
<1>2. CASE Answer(c, "failed") /\ UNCHANGED success
  BY <1>2, RaiseStep DEF Verify, Waiting, local
<1>3. QED
  BY <1>1, <1>2 DEF Verify

\* The attempt is recorded once, and before it has any effect.
LEMMA AuditStep ==
    ASSUME IInv, NEW c \in Clients, Audit(c), UNCHANGED <<worker, request, faults>>
    PROVE  IInv'
<1>1. /\ at[c] = "audit" /\ audit' = audit \cup {<<c, Event(c)>>}
      /\ UNCHANGED <<users, issued, table, local>>
      /\ ClientInv(c)
  BY DEF Audit, IInv
<1>2. PICK s \in {"stamp", "answered"}, r \in {"none", "denied"} :
        /\ Moved(c, s, r)
        /\ s = "stamp" => success[c] /\ r = "none"
        /\ s = "answered" => ~success[c] /\ r = "denied"
  BY <1>1, AnswerMoves, AwaitMoves DEF Audit
<1>3. s \in Awaits \ {"idle"} /\ r \in Replies
  BY DEF Awaits, Replies
<1>4. at'[c] = s /\ reply'[c] = r
  BY <1>2, <1>3, MovedAt
<1>5. LocalOf(c) /\ TableOf(c)
  BY <1>1, <1>2, <1>3, SameLocal, SameTable
<1>6. Event(c) = (IF success[c] THEN "LOGIN_SUCCESS" ELSE "LOGIN_FAILED") /\ Event(c)' = Event(c)
  BY <1>1 DEF Event, local
<1>7. AuthOf(c)
  BY <1>1, <1>6 DEF AuthOf, IInv, TypeOK
<1>8. ClientInv(c)'
  <2>1. UNCHANGED <<kind[c], user[c], target[c], success[c], known, users>>
    BY <1>1 DEF request, table, local
  <2>2. RouteInv(c)'
    BY <1>1, <1>2, <1>4, <2>1 DEF ClientInv, RouteInv
  <2>3. TargetInv(c)'
    BY <1>1, <1>4, <2>1 DEF ClientInv, TargetInv
  <2>4. \A e \in audit : e[1] # c
    BY <1>1 DEF ClientInv, LoginInv
  <2>5. LoginInv(c)'
    BY <1>1, <1>2, <1>4, <1>6, <2>1, <2>4 DEF ClientInv, LoginInv
  <2>6. AnswerInv(c)'
    BY <1>2, <1>4 DEF AnswerInv
  <2>7. QED
    BY <2>2, <2>3, <2>5, <2>6 DEF ClientInv
<1>9. QED
  BY <1>2, <1>3, <1>5, <1>7, <1>8, HandlerFrame

\* A token is issued to a user of the table whose attempt is recorded.
LEMMA IssueTokenStep ==
    ASSUME IInv, NEW c \in Clients, IssueToken(c), UNCHANGED <<worker, request, faults>>
    PROVE  IInv'
<1>1. /\ at[c] = "stamp" /\ issued' = issued \cup {user[c]} /\ Moved(c, "answered", "ok")
      /\ UNCHANGED <<users, audit, table, local>>
      /\ ClientInv(c)
  BY AnswerMoves DEF IssueToken, IInv
<1>2. "answered" \in Awaits \ {"idle"} /\ "ok" \in Replies
  BY DEF Awaits, Replies
<1>3. at'[c] = "answered" /\ reply'[c] = "ok"
  BY <1>1, <1>2, MovedAt
<1>4. LocalOf(c) /\ TableOf(c)
  BY <1>1, <1>2, SameLocal, SameTable
<1>5. kind[c] = "login" /\ success[c] /\ <<c, "LOGIN_SUCCESS">> \in audit /\ user[c] \in users
  BY <1>1 DEF ClientInv, RouteInv, LoginInv
<1>6. AuthOf(c)
  BY <1>1, <1>5 DEF AuthOf, IInv, TypeOK
<1>7. ClientInv(c)'
  <2>1. UNCHANGED <<kind[c], user[c], target[c], success[c], known, users, audit>>
    BY <1>1 DEF request, table, local
  <2>2. RouteInv(c)' /\ TargetInv(c)'
    BY <1>1, <1>3, <1>5, <2>1 DEF ClientInv, RouteInv, TargetInv
  <2>3. Event(c)' = Event(c)
    BY <2>1 DEF Event
  <2>4. LoginInv(c)'
    BY <1>1, <1>3, <1>5, <2>1, <2>3 DEF ClientInv, LoginInv
  <2>5. AnswerInv(c)'
    BY <1>3, <1>5, <2>1 DEF AnswerInv
  <2>6. QED
    BY <2>2, <2>4, <2>5 DEF ClientInv
<1>8. QED
  BY <1>1, <1>2, <1>4, <1>6, <1>7, HandlerFrame

LEMMA CreateUserStep ==
    ASSUME IInv, NEW c \in Clients, CreateUser(c), UNCHANGED <<worker, request, faults>>
    PROVE  IInv'
<1>1. /\ at[c] = "insertUser" /\ users' \in {users, users \cup {"analyst"}}
      /\ UNCHANGED <<audit, issued, table, local>>
      /\ ClientInv(c)
  BY DEF CreateUser, IInv
<1>2. PICK r \in {"conflict", "ok"} : Moved(c, "answered", r)
  BY AnswerMoves DEF CreateUser
<1>3. "answered" \in Awaits \ {"idle"} /\ r \in Replies
  BY DEF Awaits, Replies
<1>4. at'[c] = "answered" /\ reply'[c] = r
  BY <1>2, <1>3, MovedAt
<1>5. LocalOf(c) /\ TableOf(c)
  BY <1>1, <1>2, <1>3, SameLocal, SameTable
<1>6. AuthOf(c)
  BY <1>1 DEF AuthOf, IInv, TypeOK, Usernames
<1>7. ClientInv(c)'
  <2>1. kind[c] = "addUser" /\ UNCHANGED <<kind[c], target[c], known, audit>>
    BY <1>1 DEF ClientInv, RouteInv, request, table
  <2>2. RouteInv(c)' /\ TargetInv(c)'
    BY <1>1, <1>4, <2>1 DEF ClientInv, RouteInv, TargetInv
  <2>3. LoginInv(c)'
    BY <1>1, <1>4, <2>1 DEF ClientInv, LoginInv
  <2>4. AnswerInv(c)'
    BY <1>4, <2>1 DEF AnswerInv
  <2>5. QED
    BY <2>2, <2>3, <2>4 DEF ClientInv
<1>8. QED
  BY <1>2, <1>3, <1>5, <1>6, <1>7, HandlerFrame

-----------------------------------------------------------------------------
(* Log sources.                                                            *)

\* An UPDATE of one field keeps the others.
LEMMA EditedRow ==
    ASSUME NEW row \in Rows, NEW f \in Fields, NEW c \in Clients
    PROVE  /\ [row EXCEPT ![f] = c] \in Rows
           /\ [row EXCEPT ![f] = c][f] = c
           /\ \A g \in Fields \ {f} : [row EXCEPT ![f] = c][g] = row[g]
           /\ [row EXCEPT ![f] = c].agent = row.agent
           /\ [row EXCEPT ![f] = c].status = row.status
<1>1. CASE f = "name"
  BY <1>1 DEF Rows, Fields
<1>2. CASE f = "host"
  BY <1>2 DEF Rows, Fields
<1>3. QED
  BY <1>1, <1>2 DEF Fields

\* What is left to show of a step that writes one row of the table.
LEMMA WrittenRow ==
    ASSUME IInv, NEW c \in Clients, at[c] \notin {"idle", "answered"}, UNCHANGED <<known, request>>,
           NEW s \in Awaits \ {"idle"}, NEW r \in Replies, Moved(c, s, r), LocalOf(c),
           NEW i \in Ids, NEW row \in Rows \cup {NoRow}, sources' = [sources EXCEPT ![i] = row],
           sources[i] = NoRow => row = NoRow,
           \A f \in Fields : row # NoRow /\ sources[i][f] # "first" => row[f] # "first",
           RowInv(i)'
    PROVE  TableOf(c)
<1>1. at'[c] = s /\ \A d \in Clients \ {c} : at'[d] = at[d]
  BY MovedAt
<1>2. sources' \in [Ids -> Rows \cup {NoRow}] /\ sources'[i] = row
  BY DEF IInv, TypeOK
<1>3. \A j \in Ids \ {i} : sources'[j] = sources[j]
  BY DEF IInv, TypeOK
<1>4. \A j \in Ids \ known : sources'[j] = NoRow
  BY <1>2, <1>3 DEF IInv, TypeOK
<1>5. RowsKept
  BY <1>2, <1>3 DEF RowsKept, IInv, TypeOK
<1>6. \A j \in Ids : RowInv(j)'
  <2> SUFFICES ASSUME NEW j \in Ids, j # i PROVE RowInv(j)'
    OBVIOUS
  <2>1. \A d \in Clients : at[d] # "idle" =>
            at'[d] # "idle" /\ target'[d] = target[d] /\ field'[d] = field[d]
    BY <1>1 DEF request
  <2>2. \A d \in Clients : at[d] = "answered" => at'[d] = "answered" /\ found'[d] = found[d]
    BY <1>1 DEF LocalOf
  <2>3. QED
    BY <1>3, <2>1, <2>2, SameRow
<1>7. QED
  BY <1>2, <1>4, <1>5, <1>6 DEF TableOf

\* A new source has a fresh id.
LEMMA CreateStep ==
    ASSUME IInv, NEW c \in Clients, Create(c), UNCHANGED <<worker, request, faults>>
    PROVE  IInv'
<1>1. /\ at[c] = "insert" /\ known' = known \cup {c} /\ sources' = [sources EXCEPT ![c] = Created]
      /\ Moved(c, "reread", "none") /\ UNCHANGED <<auth, local>>
      /\ ClientInv(c)
  BY AwaitMoves DEF Create, IInv
<1>2. "reread" \in Awaits \ {"idle"} /\ "none" \in Replies /\ c \in Ids /\ c \notin known
  BY <1>1 DEF Awaits, Replies, Ids, ClientInv, TargetInv
<1>3. /\ at'[c] = "reread" /\ reply'[c] = "none"
      /\ \A d \in Clients \ {c} : at'[d] = at[d]
  BY <1>1, <1>2, MovedAt
<1>4. LocalOf(c) /\ AuthOf(c)
  BY <1>1, SameLocal, SameAuth
<1>5. /\ sources' \in [Ids -> Rows \cup {NoRow}] /\ sources'[c] = Created
      /\ \A i \in Ids \ {c} : sources'[i] = sources[i]
  BY <1>1, <1>2, CreatedIsRow DEF IInv, TypeOK
<1>6. TableOf(c)
  <2>1. RowInv(c)'
    <3>1. Live(c)' = Nothing
      BY <1>5 DEF Live, Created, Nothing
    <3>2. QED
      BY <1>5, <3>1, CreatedIsRow DEF RowInv
  <2>2. ASSUME NEW i \in Ids \ {c} PROVE RowInv(i)'
    BY <1>1, <1>3, <1>5, SameRow DEF request, local
  <2>3. RowsKept
    BY <1>2, <1>5 DEF RowsKept, IInv, TypeOK
  <2>4. \A i \in Ids \ known' : sources'[i] = NoRow
    BY <1>1, <1>5 DEF IInv, TypeOK
  <2>5. QED
    BY <1>1, <1>5, <2>1, <2>2, <2>3, <2>4 DEF TableOf
<1>7. ClientInv(c)'
  <2>1. kind[c] = "create" /\ UNCHANGED <<kind[c], target[c], audit>>
    BY <1>1 DEF ClientInv, RouteInv, request, auth
  <2>2. RouteInv(c)' /\ TargetInv(c)'
    BY <1>1, <1>3, <2>1 DEF ClientInv, RouteInv, TargetInv, Reading
  <2>3. LoginInv(c)'
    BY <1>1, <1>3, <2>1 DEF ClientInv, LoginInv
  <2>4. AnswerInv(c)'
    BY <1>3, <2>1 DEF AnswerInv
  <2>5. QED
    BY <2>2, <2>3, <2>4 DEF ClientInv
<1>8. QED
  BY <1>1, <1>2, <1>4, <1>6, <1>7, HandlerFrame

\* The row as it was read, which may have changed by the time it is used.
LEMMA ExistingStep ==
    ASSUME IInv, NEW c \in Clients, Existing(c), UNCHANGED <<worker, request, faults>>
    PROVE  IInv'
<1>1. /\ at[c] = "existing" /\ seen' = [seen EXCEPT ![c] = sources[target[c]]]
      /\ UNCHANGED <<auth, table, found, success>>
      /\ ClientInv(c)
  BY DEF Existing, IInv
<1>2. kind[c] \in Reading /\ target[c] \in known /\ target[c] \in Ids
  BY <1>1 DEF ClientInv, RouteInv, TargetInv, IInv, TypeOK
<1>3. sources[target[c]] \in Rows \cup {NoRow} /\ seen'[c] = sources[target[c]]
  BY <1>1, <1>2 DEF IInv, TypeOK
<1>4. PICK s \in {"answered", "update", "byHost", "agent", "register"},
           r \in {"missing", "none", "ok"} :
        /\ Moved(c, s, r)
        /\ s # "answered" => r = "none"
        /\ r = "missing" => ~Exists(c)
        /\ s = "update" => kind[c] = "edit" /\ field[c] # "none"
        /\ s \in {"byHost", "agent"} => kind[c] = "status" /\ Exists(c)
        /\ s = "register" => kind[c] = "enroll"
        /\ r = "ok" => ~(kind[c] = "edit" /\ field[c] # "none")
  <2>1. CASE ~Exists(c)
    BY <1>1, <2>1, AnswerMoves DEF Existing
  <2>2. CASE Exists(c) /\ kind[c] = "edit" /\ field[c] # "none"
    <3>1. Await(c, "update")
      BY <2>2 DEF Existing
    <3>2. QED
      BY <1>1, <2>2, <3>1, AwaitMoves
  <2>3. CASE Exists(c) /\ kind[c] = "status"
    <3>1. Await(c, "byHost") \/ Await(c, "agent")
      BY <2>3 DEF Existing
    <3>2. QED
      BY <1>1, <2>3, <3>1, AwaitMoves
  <2>4. CASE Exists(c) /\ kind[c] = "enroll"
    <3>1. Await(c, "register")
      BY <2>4 DEF Existing
    <3>2. QED
      BY <1>1, <2>4, <3>1, AwaitMoves
  <2>5. CASE /\ Exists(c) /\ ~(kind[c] = "edit" /\ field[c] # "none")
             /\ kind[c] # "status" /\ kind[c] # "enroll"
    <3>1. Answer(c, "ok")
      BY <2>5 DEF Existing
    <3>2. QED
      BY <2>5, <3>1, AnswerMoves
  <2>6. QED
    BY <2>1, <2>2, <2>3, <2>4, <2>5
<1>5. s \in Awaits \ {"idle"} /\ r \in Replies
  BY DEF Awaits, Replies
<1>6. at'[c] = s /\ reply'[c] = r
  BY <1>4, <1>5, MovedAt
<1>7. LocalOf(c)
  BY <1>1, <1>3 DEF LocalOf, IInv, TypeOK
<1>8. AuthOf(c) /\ TableOf(c)
  BY <1>1, <1>4, <1>5, <1>7, SameAuth, SameTable
<1>9. ClientInv(c)'
  <2>1. UNCHANGED <<kind[c], target[c], field[c], known, audit, sources>> /\ field[c] \in Fields \cup {"none"}
    BY <1>1 DEF request, table, auth, IInv, TypeOK
  <2>2. RouteInv(c)'
    BY <1>2, <1>3, <1>4, <1>6, <2>1 DEF RouteInv, Exists
  <2>3. TargetInv(c)'
    BY <1>2, <1>4, <1>6, <2>1 DEF TargetInv
  <2>4. LoginInv(c)'
    BY <1>1, <1>2, <1>4, <1>6, <2>1 DEF ClientInv, LoginInv, Reading
  <2>5. AnswerInv(c)'
    BY <1>2, <1>4, <1>6, <2>1 DEF AnswerInv, Exists, Fields
  <2>6. QED
    BY <2>2, <2>3, <2>4, <2>5 DEF ClientInv
<1>10. QED
  BY <1>4, <1>5, <1>7, <1>8, <1>9, HandlerFrame

\* A PUT writes its field and nothing else, into a row that is still there.
LEMMA UpdateStep ==
    ASSUME IInv, NEW c \in Clients, Update(c), UNCHANGED <<worker, request, faults>>
    PROVE  IInv'
<1>0. PICK i \in Ids : i = target[c]
  BY DEF IInv, TypeOK
<1> DEFINE row == [sources[i] EXCEPT ![field[c]] = c]
<1>1. /\ at[c] = "update" /\ UpdateRow(c, row) /\ Moved(c, "reread", "none")
      /\ UNCHANGED <<auth, known, local>>
      /\ ClientInv(c)
  BY <1>0, AwaitMoves DEF Update, IInv
<1>2. kind[c] = "edit" /\ field[c] \in Fields /\ i \in known /\ i \in Ids
  BY <1>0, <1>1 DEF ClientInv, RouteInv, TargetInv, Reading
<1>3. "reread" \in Awaits \ {"idle"} /\ "none" \in Replies
  BY DEF Awaits, Replies
<1>4. /\ at'[c] = "reread" /\ reply'[c] = "none"
      /\ \A d \in Clients \ {c} : at'[d] = at[d]
  BY <1>1, <1>3, MovedAt
<1>5. LocalOf(c) /\ AuthOf(c)
  BY <1>1, SameLocal, SameAuth
<1>6. CASE ~Exists(c)
  <2>1. UNCHANGED table
    BY <1>1, <1>6 DEF UpdateRow, table
  <2>2. TableOf(c)
    BY <1>1, <1>3, <1>5, <2>1, SameTable
  <2>3. ClientInv(c)'
    <3>1. UNCHANGED <<kind[c], target[c], audit, sources>>
      BY <1>1, <2>1 DEF request, table, auth
    <3>2. RouteInv(c)' /\ TargetInv(c)'
      BY <1>0, <1>1, <1>2, <1>4, <3>1 DEF RouteInv, TargetInv
    <3>3. LoginInv(c)'
      BY <1>1, <1>2, <1>4, <3>1 DEF ClientInv, LoginInv
    <3>4. AnswerInv(c)'
      BY <1>4, <1>6, <3>1 DEF AnswerInv, Exists
    <3>5. QED
      BY <3>2, <3>3, <3>4 DEF ClientInv
  <2>4. QED
    BY <1>1, <1>3, <1>5, <2>2, <2>3, HandlerFrame
<1>7. CASE Exists(c)
  <2>1. sources[i] \in Rows /\ sources[i] # NoRow
    BY <1>0, <1>7 DEF IInv, TypeOK, Exists
  <2>2. /\ row \in Rows /\ row[field[c]] = c
        /\ \A g \in Fields \ {field[c]} : row[g] = sources[i][g]
        /\ row.agent = sources[i].agent /\ row.status = sources[i].status
    BY <1>2, <2>1, EditedRow
  <2> HIDE DEF row
  <2>3. /\ sources' = [sources EXCEPT ![i] = row]
        /\ sources'[i] = row
    BY <1>0, <1>1, <1>7 DEF UpdateRow, IInv, TypeOK
  <2>4. UNCHANGED <<kind[c], target, field, audit, known, found>>
    BY <1>1 DEF request, auth, local
  <2>5. RowInv(i)'
    <3>1. RowInv(i)
      BY <1>2 DEF IInv
    <3>2. Live(i)' = Live(i)
      BY <2>2, <2>3 DEF Live
    <3>3. Live(i)' = Nothing
             \/ \E d \in Clients : at'[d] = "answered" /\ target'[d] = i /\ found'[d] = Live(i)'
      BY <1>1, <1>4, <2>1, <2>4, <3>1, <3>2 DEF RowInv
    <3>4. ASSUME NEW g \in Fields, row[g] # "first" PROVE \E d \in Clients : Writer(i, g, d)'
      <4>1. CASE g = field[c]
        <5>1. Writer(i, g, c)'
          BY <1>0, <1>4, <2>2, <2>3, <2>4, <4>1 DEF Writer
        <5>2. QED
          BY <5>1
      <4>2. CASE g # field[c]
        <5>1. PICK d \in Clients : Writer(i, g, d)
          BY <2>1, <2>2, <3>1, <3>4, <4>2 DEF RowInv
        <5>2. Writer(i, g, d)'
          BY <1>4, <2>2, <2>3, <2>4, <4>2, <5>1 DEF Writer
        <5>3. QED
          BY <5>2
      <4>3. QED
        BY <4>1, <4>2
    <3>5. QED
      BY <2>3, <3>3, <3>4 DEF RowInv
  <2>6. \A g \in Fields : sources[i][g] # "first" => row[g] # "first"
    BY <2>2, ClientNames
  <2>7. TableOf(c)
    BY <1>1, <1>2, <1>3, <1>5, <2>1, <2>2, <2>3, <2>5, <2>6, WrittenRow
  <2>8. ClientInv(c)'
    <3>1. RouteInv(c)' /\ TargetInv(c)'
      BY <1>0, <1>1, <1>2, <1>4, <2>4 DEF RouteInv, TargetInv
    <3>2. LoginInv(c)'
      BY <1>1, <1>2, <1>4, <2>4 DEF ClientInv, LoginInv
    <3>3. sources'[target'[c]][field'[c]] = c
      BY <1>0, <2>2, <2>3, <2>4
    <3>4. AnswerInv(c)'
      BY <1>4, <3>3, ClientNames DEF AnswerInv
    <3>5. QED
      BY <3>1, <3>2, <3>4 DEF ClientInv
  <2>9. QED
    BY <1>1, <1>3, <1>5, <2>7, <2>8, HandlerFrame
<1>8. QED
  BY <1>6, <1>7

\* The row is read again for the answer.
LEMMA RereadStep ==
    ASSUME IInv, NEW c \in Clients, Reread(c), UNCHANGED <<worker, request, faults>>
    PROVE  IInv'
<1>1. at[c] = "reread" /\ UNCHANGED <<auth, table, local>> /\ ClientInv(c)
  BY DEF Reread, IInv
<1>2. PICK r \in {"ok", "missing", "failed"} :
        /\ Moved(c, "answered", r)
        /\ r = "missing" => kind[c] = "edit" /\ ~Exists(c)
  BY AnswerMoves DEF Reread
<1>3. "answered" \in Awaits \ {"idle"} /\ r \in Replies
  BY DEF Awaits, Replies
<1>4. at'[c] = "answered" /\ reply'[c] = r
  BY <1>2, <1>3, MovedAt
<1>5. LocalOf(c) /\ AuthOf(c) /\ TableOf(c)
  BY <1>1, <1>2, <1>3, SameLocal, SameAuth, SameTable
<1>6. ClientInv(c)'
  <2>1. /\ kind[c] \in {"create", "edit"}
        /\ UNCHANGED <<kind[c], target[c], field[c], known, audit, sources>>
    BY <1>1 DEF ClientInv, RouteInv, request, table, auth
  <2>2. RouteInv(c)' /\ TargetInv(c)'
    BY <1>1, <1>4, <2>1 DEF ClientInv, RouteInv, TargetInv
  <2>3. LoginInv(c)'
    BY <1>1, <1>4, <2>1 DEF ClientInv, LoginInv
  <2>4. AnswerInv(c)'
    BY <1>1, <1>2, <1>4, <2>1 DEF ClientInv, AnswerInv, Exists, Reading
  <2>5. QED
    BY <2>2, <2>3, <2>4 DEF ClientInv
<1>7. QED
  BY <1>2, <1>3, <1>5, <1>6, HandlerFrame

LEMMA DeleteStep ==
    ASSUME IInv, NEW c \in Clients, Delete(c), UNCHANGED <<worker, request, faults>>
    PROVE  IInv'
<1>0. PICK i \in Ids : i = target[c]
  BY DEF IInv, TypeOK
<1>1. /\ at[c] = "delete" /\ sources' = [sources EXCEPT ![i] = NoRow]
      /\ UNCHANGED <<auth, known, local>>
      /\ ClientInv(c)
  BY <1>0 DEF Delete, IInv
<1>2. PICK r \in {"ok", "missing"} : Moved(c, "answered", r)
  BY AnswerMoves DEF Delete
<1>3. "answered" \in Awaits \ {"idle"} /\ r \in Replies
  BY DEF Awaits, Replies
<1>4. at'[c] = "answered" /\ reply'[c] = r
  BY <1>2, <1>3, MovedAt
<1>5. LocalOf(c) /\ AuthOf(c)
  BY <1>1, SameLocal, SameAuth
<1>6. kind[c] = "delete" /\ i \in Ids /\ sources'[i] = NoRow
  BY <1>1 DEF ClientInv, RouteInv, IInv, TypeOK
<1>7. TableOf(c)
  <2>1. RowInv(i)'
    BY <1>6 DEF RowInv
  <2>2. QED
    BY <1>1, <1>2, <1>3, <1>5, <1>6, <2>1, WrittenRow
<1>8. ClientInv(c)'
  <2>1. UNCHANGED <<kind[c], target[c], known, audit>>
    BY <1>1 DEF request, auth
  <2>2. RouteInv(c)' /\ TargetInv(c)'
    BY <1>1, <1>4, <1>6, <2>1 DEF ClientInv, RouteInv, TargetInv
  <2>3. LoginInv(c)'
    BY <1>1, <1>4, <1>6, <2>1 DEF ClientInv, LoginInv
  <2>4. AnswerInv(c)'
    BY <1>0, <1>4, <1>6, <2>1 DEF AnswerInv
  <2>5. QED
    BY <2>2, <2>3, <2>4 DEF ClientInv
<1>9. QED
  BY <1>2, <1>3, <1>5, <1>7, <1>8, HandlerFrame

\* What Wazuh says, or its silence, leads to one of these awaits.
LEMMA AskStep ==
    ASSUME IInv, NEW c \in Clients, UNCHANGED <<worker, request, faults>>,
           at[c] \in {"agent", "byHost", "register"},
           NEW s \in {"store", "byHost", "answered"}, NEW r \in {"none", "unknown", "ok"},
           Moved(c, s, r), s = "byHost" => at[c] = "agent", s # "answered" => r = "none",
           NEW told \in [agent : Agents \cup {"none"}, status : Statuses],
           found' \in {found, [found EXCEPT ![c] = told]},
           UNCHANGED <<auth, table, seen, success>>
    PROVE  IInv'
<1>1. ClientInv(c) /\ s \in Awaits \ {"idle"} /\ r \in Replies
  BY DEF IInv, Awaits, Replies
<1>2. at'[c] = s /\ reply'[c] = r
  BY <1>1, MovedAt
<1>3. LocalOf(c)
  BY DEF LocalOf, IInv, TypeOK
<1>4. AuthOf(c) /\ TableOf(c)
  BY <1>1, <1>3, SameAuth, SameTable
<1>5. ClientInv(c)'
  <2>1. /\ kind[c] \in {"status", "enroll"}
        /\ UNCHANGED <<kind[c], target[c], known, audit>>
    BY <1>1 DEF ClientInv, RouteInv, request, table, auth
  <2>2. RouteInv(c)' /\ TargetInv(c)'
    BY <1>1, <1>2, <2>1 DEF ClientInv, RouteInv, TargetInv
  <2>3. LoginInv(c)'
    BY <1>1, <1>2, <2>1 DEF ClientInv, LoginInv
  <2>4. AnswerInv(c)'
    BY <1>2, <2>1 DEF AnswerInv
  <2>5. QED
    BY <2>2, <2>3, <2>4 DEF ClientInv
<1>6. QED
  BY <1>1, <1>3, <1>4, <1>5, HandlerFrame

LEMMA AskAgentStep ==
    ASSUME IInv, NEW c \in Clients, AskAgent(c), UNCHANGED <<worker, request, faults>>
    PROVE  IInv'
<1>1. at[c] = "agent" /\ Ask(c, [agent : {seen[c].agent}, status : NormStatus], Await(c, "byHost"))
  BY DEF AskAgent
<1>2. seen[c].agent \in Agents \cup {"none"}
  BY <1>1 DEF IInv, ClientInv, RouteInv, Rows
<1>3. UNCHANGED <<auth, table, seen, success>>
  BY <1>1 DEF Ask
<1>4. CASE Await(c, "store") /\ \E told \in [agent : {seen[c].agent}, status : NormStatus] :
              found' = [found EXCEPT ![c] = told]
  <2>1. PICK told \in [agent : Agents \cup {"none"}, status : Statuses] :
            found' = [found EXCEPT ![c] = told]
    BY <1>2, <1>4 DEF NormStatus, Statuses
  <2>2. QED
    BY <1>1, <1>3, <1>4, <2>1, AwaitMoves, AskStep
<1>5. CASE Await(c, "byHost") /\ UNCHANGED found
  <2>1. Nothing \in [agent : Agents \cup {"none"}, status : Statuses]
    BY DEF Nothing, Statuses
  <2>2. QED
    BY <1>1, <1>3, <1>5, <2>1, AwaitMoves, AskStep
<1>6. QED
  BY <1>1, <1>4, <1>5 DEF Ask

\* By the address of the host, or by registering it.
LEMMA AskOtherStep ==
    ASSUME IInv, NEW c \in Clients, AskByHost(c) \/ Register(c), UNCHANGED <<worker, request, faults>>
    PROVE  IInv'
<1>1. PICK r \in {"unknown", "ok"}, stats \in SUBSET Statuses :
        /\ at[c] \in {"byHost", "register"}
        /\ Ask(c, [agent : Agents, status : stats], Answer(c, r))
  BY DEF AskByHost, Register, NormStatus, Statuses
<1>2. UNCHANGED <<auth, table, seen, success>>
  BY <1>1 DEF Ask
<1>3. CASE Await(c, "store") /\ \E told \in [agent : Agents, status : stats] :
              found' = [found EXCEPT ![c] = told]
  <2>1. PICK told \in [agent : Agents \cup {"none"}, status : Statuses] :
            found' = [found EXCEPT ![c] = told]
    BY <1>3
  <2>2. QED
    BY <1>1, <1>2, <1>3, <2>1, AwaitMoves, AskStep
<1>4. CASE Answer(c, r) /\ UNCHANGED found
  <2>1. Nothing \in [agent : Agents \cup {"none"}, status : Statuses]
    BY DEF Nothing, Statuses
  <2>2. QED
    BY <1>1, <1>2, <1>4, <2>1, AnswerMoves, AskStep
<1>5. QED
  BY <1>1, <1>3, <1>4 DEF Ask

\* Agent and status are stored together, as they were told, beside the fields
\* as they are now.
LEMMA StoreStatusStep ==
    ASSUME IInv, NEW c \in Clients, StoreStatus(c), UNCHANGED <<worker, request, faults>>
    PROVE  IInv'
<1>0. PICK i \in Ids : i = target[c]
  BY DEF IInv, TypeOK
<1> DEFINE row == [sources[i] EXCEPT !.agent = found[c].agent, !.status = found[c].status]
<1>1. /\ at[c] = "store" /\ UpdateRow(c, row) /\ Moved(c, "answered", "ok")
      /\ UNCHANGED <<auth, known, local>>
      /\ ClientInv(c)
  BY <1>0, AnswerMoves DEF StoreStatus, IInv
<1>2. kind[c] \in {"status", "enroll"}
  BY <1>1 DEF ClientInv, RouteInv
<1>3. "answered" \in Awaits \ {"idle"} /\ "ok" \in Replies
  BY DEF Awaits, Replies
<1>4. /\ at'[c] = "answered" /\ reply'[c] = "ok"
      /\ \A d \in Clients \ {c} : at'[d] = at[d]
  BY <1>1, <1>3, MovedAt
<1>5. LocalOf(c) /\ AuthOf(c)
  BY <1>1, SameLocal, SameAuth
<1>6. ClientInv(c)'
  <2>1. UNCHANGED <<kind[c], target[c], known, audit>>
    BY <1>1 DEF request, auth
  <2>2. RouteInv(c)' /\ TargetInv(c)'
    BY <1>1, <1>4, <2>1 DEF ClientInv, RouteInv, TargetInv
  <2>3. LoginInv(c)'
    BY <1>1, <1>2, <1>4, <2>1 DEF ClientInv, LoginInv
  <2>4. AnswerInv(c)'
    BY <1>2, <1>4, <2>1 DEF AnswerInv
  <2>5. QED
    BY <2>2, <2>3, <2>4 DEF ClientInv
<1>7. CASE ~Exists(c)
  <2>1. UNCHANGED table
    BY <1>1, <1>7 DEF UpdateRow, table
  <2>2. TableOf(c)
    BY <1>1, <1>3, <1>5, <2>1, SameTable
  <2>3. QED
    BY <1>1, <1>3, <1>5, <1>6, <2>2, HandlerFrame
<1>8. CASE Exists(c)
  <2>1. sources[i] \in Rows /\ sources[i] # NoRow
    BY <1>0, <1>8 DEF IInv, TypeOK, Exists
  <2>2. found[c] \in [agent : Agents \cup {"none"}, status : Statuses]
    BY DEF IInv, TypeOK
  <2>3. /\ row \in Rows /\ \A g \in Fields : row[g] = sources[i][g]
        /\ [agent |-> row.agent, status |-> row.status] = found[c]
    <3>1. found[c].agent \in Agents \cup {"none"} /\ found[c].status \in Statuses
      BY <2>2
    <3>2. row \in Rows
      BY <2>1, <3>1 DEF Rows
    <3>3. \A g \in Fields : row[g] = sources[i][g]
      BY <2>1, <3>1 DEF Rows, Fields
    <3>4. row.agent = found[c].agent /\ row.status = found[c].status
      BY <2>1, <3>1 DEF Rows
    <3> HIDE DEF row
    <3>5. found[c] = [agent |-> found[c].agent, status |-> found[c].status]
      BY <2>2
    <3>6. QED
      BY <3>2, <3>3, <3>4, <3>5
  <2> HIDE DEF row
  <2>4. sources' = [sources EXCEPT ![i] = row] /\ sources'[i] = row
    BY <1>0, <1>1, <1>8 DEF UpdateRow, IInv, TypeOK
  <2>5. UNCHANGED <<target, field, found>>
    BY <1>1 DEF request, local
  <2>6. RowInv(i)'
    <3>1. RowInv(i)
      BY DEF IInv
    <3>2. Live(i)' = found[c]
      BY <2>3, <2>4 DEF Live
    <3>3. at'[c] = "answered" /\ target'[c] = i /\ found'[c] = Live(i)'
      BY <1>0, <1>4, <2>5, <3>2
    <3>4. ASSUME NEW g \in Fields, row[g] # "first" PROVE \E d \in Clients : Writer(i, g, d)'
      <4>1. PICK d \in Clients : Writer(i, g, d)
        BY <2>1, <2>3, <3>1, <3>4 DEF RowInv
      <4>2. Writer(i, g, d)'
        BY <1>4, <2>3, <2>4, <2>5, <4>1 DEF Writer
      <4>3. QED
        BY <4>2
    <3>5. QED
      BY <2>4, <3>3, <3>4 DEF RowInv
  <2>7. TableOf(c)
    BY <1>1, <1>3, <1>5, <2>1, <2>3, <2>4, <2>6, WrittenRow
  <2>8. QED
    BY <1>1, <1>3, <1>5, <1>6, <2>7, HandlerFrame
<1>9. QED
  BY <1>7, <1>8

-----------------------------------------------------------------------------

LEMMA HandleStep == ASSUME IInv, NEW c \in Clients, Handle(c) PROVE IInv'
<1>1. UNCHANGED <<worker, request, faults>>
  BY DEF Handle
<1>2. CASE CheckToken(c) \/ Authenticate(c) \/ CreateUser(c)
  BY <1>1, <1>2, CheckTokenStep, VerifyStep, AuditStep, IssueTokenStep, CreateUserStep DEF Authenticate
<1>3. CASE Manage(c)
  BY <1>1, <1>3, CreateStep, ExistingStep, UpdateStep, RereadStep, DeleteStep DEF Manage
<1>4. CASE LiveStatus(c)
  BY <1>1, <1>4, AskAgentStep, AskOtherStep, StoreStatusStep DEF LiveStatus
<1>5. QED
  BY <1>2, <1>3, <1>4 DEF Handle

LEMMA StutterStep == ASSUME IInv, UNCHANGED vars PROVE IInv'
<1>1. TypeOK'
  BY DEF IInv, TypeOK, vars, auth, table, request, local
<1>2. ASSUME NEW c \in Clients PROVE ClientInv(c)'
  <2>1. RowsKept
    BY DEF RowsKept, vars, table
  <2>2. QED
    BY <2>1, SameClient DEF vars, auth, table, request, local
<1>3. \A i \in Ids : RowInv(i)'
  BY SameRow DEF vars, table, request, local
<1>4. QED
  BY <1>1, <1>2, <1>3 DEF IInv

LEMMA NextIInv == IInv /\ [Next]_vars => IInv'
  BY StartStep, WorkerDiesStep, BeginStep, HandleStep, StatementFailsStep, StutterStep DEF Next

-----------------------------------------------------------------------------

(* Behind every token there is a login on record.  This second invariant   *)
(* rests on the first one, in the state before the step.                   *)

\* What a token says of its request, before and after it was checked.
TokenInv(c) ==
    kind[c] \in Guarded =>
        /\ at[c] # "idle" /\ user[c] # "none" => Recorded(user[c])
        /\ at[c] \notin {"idle", "token", "answered"} \/ reply[c] = "ok" => user[c] # "none"

AccessInv == (\A u \in issued : Recorded(u)) /\ \A c \in Clients : TokenInv(c)

\* The record only grows, and a request under way keeps its user.
RecordKept ==
    /\ known \subseteq known' /\ audit \subseteq audit' /\ UNCHANGED kind
    /\ \A c \in Clients : at[c] # "idle" => user'[c] = user[c]

LEMMA RecordedStays == ASSUME IInv, RecordKept, NEW u, Recorded(u) PROVE Recorded(u)'
<1>1. CASE u = Admin /\ "old" \in known
  BY <1>1 DEF RecordKept, Recorded
<1>2. CASE \E c \in Clients : /\ kind[c] = "login" /\ user[c] = u
                              /\ <<c, "LOGIN_SUCCESS">> \in audit
  <2>1. PICK c \in Clients : kind[c] = "login" /\ user[c] = u /\ <<c, "LOGIN_SUCCESS">> \in audit
    BY <1>2
  <2>2. LoginInv(c) /\ <<c, "LOGIN_SUCCESS">>[1] = c
    BY DEF IInv, ClientInv
  <2>3. at[c] # "idle"
    BY <2>1, <2>2 DEF LoginInv
  <2>4. kind'[c] = "login" /\ user'[c] = u /\ <<c, "LOGIN_SUCCESS">> \in audit'
    BY <2>1, <2>3 DEF RecordKept
  <2>5. QED
    BY <2>4 DEF Recorded
<1>3. QED
  BY <1>1, <1>2 DEF Recorded

\* A request that stays where it is, or ends without success.
LEMMA TokenStays ==
    ASSUME IInv, AccessInv, RecordKept, NEW c \in Clients, user'[c] = user[c],
           \/ UNCHANGED <<at[c], reply[c]>>
           \/ at[c] # "idle" /\ at'[c] = "answered" /\ reply'[c] # "ok"
    PROVE  TokenInv(c)'
<1>1. PICK u : u = user[c]
  OBVIOUS
<1>2. TokenInv(c) /\ kind'[c] = kind[c] /\ user'[c] = u
  BY <1>1 DEF AccessInv, RecordKept
<1>3. Recorded(u) => Recorded(u)'
  BY RecordedStays
<1>4. Recorded(u) => Recorded(user[c])'
  BY <1>2, <1>3 DEF Recorded
<1>5. QED
  BY <1>1, <1>2, <1>4 DEF TokenInv

\* One request arrives, is handled or fails, or several fail at once; tokens are
\* issued to users of logins on record.
LEMMA AccessFrame ==
    ASSUME IInv, AccessInv, RecordKept,
           \A u \in issued' \ issued : Recorded(u)',
           \A c \in Clients : TokenInv(c)'
    PROVE  AccessInv'
  BY RecordedStays DEF AccessInv

\* A token is one that was issued, and no request begins without its check.
LEMMA BeginAccess == ASSUME IInv, AccessInv, NEW c \in Clients, Begin(c) PROVE AccessInv'
<1>1. at[c] = "idle" /\ UNCHANGED <<auth, table, kind, reply>>
  BY DEF Begin, Await
<1>2. \A d \in Clients \ {c} : user'[d] = user[d] /\ at'[d] = at[d]
  BY DEF Begin, Await, IInv, TypeOK
<1>3. RecordKept
  BY <1>1, <1>2 DEF RecordKept, auth, table
<1>4. TokenInv(c)'
  <2> SUFFICES ASSUME kind[c] \in Guarded PROVE TokenInv(c)'
    BY <1>1 DEF TokenInv
  <2>1. PICK u \in issued \cup {"none"} : user' = [user EXCEPT ![c] = u]
    BY DEF Begin, Guarded
  <2>2. user'[c] = u /\ at'[c] = "token"
    BY <2>1 DEF Begin, Await, IInv, TypeOK
  <2>3. reply'[c] # "ok"
    BY <1>1 DEF IInv, ClientInv, RouteInv
  <2>4. u # "none" => Recorded(u)'
    BY <1>3, <2>1, RecordedStays DEF AccessInv
  <2>5. u # "none" => Recorded(user[c])'
    BY <2>2, <2>4 DEF Recorded
  <2>6. QED
    BY <2>2, <2>3, <2>5 DEF TokenInv
<1>5. \A d \in Clients \ {c} : TokenInv(d)'
  BY <1>1, <1>2, <1>3, TokenStays
<1>6. QED
  BY <1>1, <1>3, <1>4, <1>5, AccessFrame DEF auth

\* What a handler does to the other requests, to the record and to the tokens.
LEMMA HandlePeers ==
    ASSUME IInv, NEW c \in Clients, Handle(c)
    PROVE  /\ at[c] # "idle" /\ UNCHANGED request
           /\ \A d \in Clients \ {c} : UNCHANGED <<at[d], reply[d]>>
           /\ known \subseteq known' /\ audit \subseteq audit'
           /\ UNCHANGED issued \/ IssueToken(c)
<1> USE DEF Await, Answer
<1>0. at \in [Clients -> Awaits] /\ reply \in [Clients -> Replies]
  BY DEF IInv, TypeOK, Replies
<1>1. UNCHANGED request
  BY DEF Handle
<1>2. CASE CheckToken(c)
  BY <1>0, <1>1, <1>2 DEF CheckToken, auth, table
<1>3. CASE Verify(c)
  BY <1>0, <1>1, <1>3 DEF Verify, auth, table
<1>4. CASE Audit(c) \/ IssueToken(c)
  BY <1>0, <1>1, <1>4 DEF Audit, IssueToken, table
<1>5. CASE CreateUser(c)
  BY <1>0, <1>1, <1>5 DEF CreateUser, table
<1>6. CASE Create(c) \/ Reread(c) \/ Delete(c)
  BY <1>0, <1>1, <1>6 DEF Create, Reread, Delete, auth, table
<1>7. CASE Existing(c)
  BY <1>0, <1>1, <1>7 DEF Existing, auth, table
<1>8. CASE Update(c) \/ StoreStatus(c)
  BY <1>0, <1>1, <1>8 DEF Update, StoreStatus, auth
<1>9. CASE AskAgent(c) \/ AskByHost(c) \/ Register(c)
  BY <1>0, <1>1, <1>9 DEF AskAgent, AskByHost, Register, Ask, auth, table
<1>10. QED
  BY <1>2, <1>3, <1>4, <1>5, <1>6, <1>7, <1>8, <1>9 DEF Handle, Authenticate, Manage, LiveStatus

\* A handler behind the check runs for a user; the check lets in users of the
\* table only.
LEMMA HandleAccess == ASSUME IInv, AccessInv, NEW c \in Clients, Handle(c) PROVE AccessInv'
<1>1. /\ at[c] # "idle" /\ UNCHANGED request
      /\ \A d \in Clients \ {c} : UNCHANGED <<at[d], reply[d]>>
      /\ known \subseteq known' /\ audit \subseteq audit'
      /\ UNCHANGED issued \/ IssueToken(c)
  BY HandlePeers
<1>2. RecordKept
  BY <1>1 DEF RecordKept, request
<1>3. \A u \in issued' \ issued : Recorded(u)'
  <2> SUFFICES ASSUME IssueToken(c) PROVE \A u \in issued' \ issued : Recorded(u)'
    BY <1>1
  <2>1. at[c] = "stamp" /\ issued' = issued \cup {user[c]} /\ UNCHANGED audit
    BY DEF IssueToken
  <2>2. kind[c] = "login" /\ <<c, "LOGIN_SUCCESS">> \in audit
    BY <2>1 DEF IInv, ClientInv, RouteInv, LoginInv
  <2>3. QED
    BY <1>1, <2>1, <2>2 DEF Recorded, request
<1>4. TokenInv(c)'
  <2> SUFFICES ASSUME kind[c] \in Guarded PROVE TokenInv(c)'
    BY <1>1 DEF TokenInv, request
  <2>1. PICK u : u = user[c]
    OBVIOUS
  <2>2. user'[c] = u /\ kind'[c] = kind[c]
    BY <1>1, <2>1 DEF request
  <2>3. u # "none" => Recorded(u)'
    BY <1>1, <1>2, <2>1, RecordedStays DEF AccessInv, TokenInv
  <2>4. u # "none" => Recorded(user[c])'
    BY <2>2, <2>3 DEF Recorded
  <2>5. CASE CheckToken(c)
    <3>1. u = "none" => at'[c] = "answered" /\ reply'[c] = "denied"
      BY <2>1, <2>5 DEF CheckToken, Answer, IInv, TypeOK, Usernames, Admin
    <3>2. QED
      BY <2>2, <2>4, <3>1 DEF TokenInv
  <2>6. CASE ~CheckToken(c)
    <3>1. at[c] \notin {"token", "answered"}
      BY <2>6 DEF Handle, Authenticate, Verify, Audit, IssueToken, CreateUser, Manage, Create,
                  Existing, Update, Reread, Delete, LiveStatus, AskAgent, AskByHost, Register, StoreStatus
    <3>2. u # "none"
      BY <1>1, <2>1, <3>1 DEF AccessInv, TokenInv
    <3>3. QED
      BY <2>2, <2>4, <3>2 DEF TokenInv
  <2>7. QED
    BY <2>5, <2>6
<1>5. \A d \in Clients \ {c} : TokenInv(d)'
  BY <1>1, <1>2, TokenStays DEF request
<1>6. QED
  BY <1>2, <1>3, <1>4, <1>5, AccessFrame

\* Startups, failures and stuttering let nobody in.
LEMMA OtherAccess ==
    ASSUME IInv, AccessInv, UNCHANGED <<audit, issued, table, request>>,
           \A c \in Clients : \/ UNCHANGED <<at[c], reply[c]>>
                              \/ at[c] # "idle" /\ at'[c] = "answered" /\ reply'[c] # "ok"
    PROVE  AccessInv'
<1>1. RecordKept
  BY DEF RecordKept, table, request
<1>2. \A c \in Clients : TokenInv(c)'
  BY <1>1, TokenStays DEF request
<1>3. QED
  BY <1>1, <1>2, AccessFrame

LEMMA InitAccess == Init => AccessInv
  BY DEF Init, AccessInv, TokenInv, Recorded

LEMMA NextAccess == IInv /\ AccessInv /\ [Next]_vars => AccessInv'
<1> SUFFICES ASSUME IInv, AccessInv, [Next]_vars PROVE AccessInv'
  OBVIOUS
<1>1. ASSUME NEW w \in Workers, Start(w) PROVE AccessInv'
  <2>1. UNCHANGED <<audit, issued, table, request, at, reply>>
    BY <1>1 DEF Start, Boot, CountUsers, SeedAdmin, StartupFails, auth
  <2>2. QED
    BY <2>1, OtherAccess
<1>2. ASSUME NEW w \in Workers, WorkerDies(w) PROVE AccessInv'
  BY <1>2, OtherAccess DEF WorkerDies, Waiting, auth
<1>3. ASSUME NEW c \in Clients, StatementFails(c) PROVE AccessInv'
  <2>1. /\ at[c] # "idle" /\ UNCHANGED <<audit, issued, table, request>>
        /\ \A d \in Clients \ {c} : UNCHANGED <<at[d], reply[d]>>
        /\ at'[c] = "answered" /\ reply'[c] \in {"conflict", "failed"}
    BY <1>3 DEF StatementFails, Waiting, Answer, auth, IInv, TypeOK
  <2>2. QED
    BY <2>1, OtherAccess
<1>4. CASE UNCHANGED vars
  BY <1>4, OtherAccess DEF vars, auth
<1>5. QED
  BY <1>1, <1>2, <1>3, <1>4, BeginAccess, HandleAccess DEF Next

-----------------------------------------------------------------------------

\* The invariant holds for any requests, in any order of their statements.
THEOREM ApiInvariant == Spec => []IInv
<1>1. QED
  BY InitIInv, NextIInv, PTL DEF Spec

\* Type correctness.  In particular tokens are issued to users of the table,
\* and only ids that were inserted have rows.
THEOREM ApiTypes == Spec => []TypeOK
<1>1. IInv => TypeOK
  BY DEF IInv
<1>2. QED
  BY <1>1, ApiInvariant, PTL

\* What was done under a token has a recorded login of its user behind it, and
\* a login that was granted or refused has its one row: neither the raising
\* password check nor a failure at any statement lets access go unrecorded
\* (auth_client.py, auth_api.py).
THEOREM AccessIsRecorded == Spec => []AccessOnRecord
<1>1. IInv /\ AccessInv => AccessOnRecord
  <2> SUFFICES ASSUME IInv, AccessInv, NEW c \in Clients
               PROVE  /\ kind[c] = "login" =>
                            /\ reply[c] = "ok" => <<c, "LOGIN_SUCCESS">> \in audit /\ user[c] \in users
                            /\ reply[c] = "denied" => <<c, "LOGIN_FAILED">> \in audit
                            /\ Cardinality({e \in audit : e[1] = c}) <= 1
                      /\ kind[c] \in Guarded /\ reply[c] = "ok" => Recorded(user[c])
    BY DEF AccessOnRecord
  <2>1. LoginInv(c)
    BY DEF IInv, ClientInv
  <2>2. {e \in audit : e[1] = c} \subseteq {<<c, Event(c)>>}
    BY <2>1 DEF LoginInv
  <2>3. IsFiniteSet({<<c, Event(c)>>}) /\ Cardinality({<<c, Event(c)>>}) = 1
    BY FS_Singleton
  <2>4. Cardinality({e \in audit : e[1] = c}) <= 1
    BY <2>2, <2>3, FS_Subset
  <2>5. ASSUME kind[c] \in Guarded, reply[c] = "ok" PROVE Recorded(user[c])
    <3>1. at[c] = "answered"
      BY <2>5 DEF IInv, ClientInv, RouteInv
    <3>2. QED
      BY <2>5, <3>1 DEF AccessInv, TokenInv
  <2>6. QED
    BY <2>1, <2>4, <2>5 DEF LoginInv
<1>2. QED
  BY <1>1, InitAccess, NextAccess, ApiInvariant, PTL DEF Spec

\* Requests on one log source agree: what was reported missing stays away, no
\* edit undoes another one of a different field, and an agent and its status
\* come from one answer of Wazuh (log_source_store.py).
THEOREM RowsAgree == Spec => []SourcesAgree
<1>1. IInv => SourcesAgree
  <2> SUFFICES ASSUME IInv PROVE SourcesAgree
    OBVIOUS
  <2>1. MissingIsGone
    BY DEF MissingIsGone, IInv, ClientInv, AnswerInv
  <2>2. EditsMerge
    <3> SUFFICES ASSUME NEW c \in Clients, kind[c] = "edit", reply[c] = "ok", field[c] # "none",
                        sources[target[c]] # NoRow
                 PROVE  \E d \in Clients : /\ sources[target[c]][field[c]] = d
                                           /\ field[d] = field[c] /\ target[d] = target[c]
      BY DEF EditsMerge
    <3>1. field[c] \in Fields /\ target[c] \in Ids
      BY DEF IInv, TypeOK
    <3>2. sources[target[c]][field[c]] # "first"
      BY <3>1 DEF IInv, ClientInv, AnswerInv
    <3>3. QED
      BY <3>1, <3>2 DEF IInv, RowInv, Writer
  <2>3. StatusIsTold
    BY DEF StatusIsTold, IInv, TypeOK, RowInv, Live
  <2>4. QED
    BY <2>1, <2>2, <2>3 DEF SourcesAgree
<1>2. QED
  BY <1>1, ApiInvariant, PTL

=============================================================================
