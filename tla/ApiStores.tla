------------------------------ MODULE ApiStores ------------------------------
(***************************************************************************)
(* The API's workers over one SQLite file: their startup, which creates    *)
(* the tables and the first user, logins, and the requests on log sources. *)
(*                                                                         *)
(* The workers are processes (`uvicorn --workers 2`) that share nothing    *)
(* but the file.  A request is a coroutine of one worker: it opens a new   *)
(* connection for every statement and may be overtaken between any two.    *)
(***************************************************************************)
EXTENDS Naturals, FiniteSets

CONSTANTS
    Workers,    \* API processes
    Clients,    \* bound: each sends one request
    Mixes,      \* bound: which requests they send
    Placements, \* bound: and which workers take them
    Agents,     \* ids of agents in Wazuh
    MaxFaults   \* bound: failing statements and dying workers

Routes == {"login", "addUser", "create", "get", "edit", "delete", "status", "enroll", "test"}

ASSUME ApiAssumption ==
    /\ Mixes \subseteq [Clients -> Routes]
    /\ Placements \subseteq [Clients -> Workers]
    /\ MaxFaults \in Nat
    /\ {"first", "none", "old"} \cap Clients = {}

VARIABLES
    worker,     \* per worker: how far its startup is
    users,      \* table users: usernames, which are UNIQUE
    audit,      \* table auth_audit: login attempts and their event
    issued,     \* users for whom a token was issued
    known,      \* ids of log sources ever inserted
    sources,    \* table log_sources: per id its row, or no row
    on,         \* per request: its worker
    kind,       \* per request: its route
    at,         \* per request: the await it is at
    user,       \* per request: the username in its body or in its token
    target,     \* per request: the id of its log source
    field,      \* per request: the field a PUT sets
    seen,       \* per request: the row it read first
    found,      \* per request: what Wazuh told it
    success,    \* per request: the user was found and the password right
    reply,      \* per request: its answer
    faults      \* failures so far

auth == <<users, audit, issued>>
table == <<known, sources>>
request == <<on, kind, user, target, field>>
local == <<seen, found, success>>
vars == <<worker, auth, table, request, at, local, reply, faults>>

-----------------------------------------------------------------------------

Admin == "admin"    \* DEFAULT_ADMIN_USER
Usernames == {Admin, "analyst"}

\* A row: who wrote its name and its host, and its agent with that agent's status.
Ids == Clients \cup {"old"}
Fields == {"name", "host"}
Statuses == {"pending", "never_connected", "active", "disconnected"}
Rows == [name : Clients \cup {"first"}, host : Clients \cup {"first"},
         agent : Agents \cup {"none"}, status : Statuses]
NoRow == [name |-> "none"]
Created == [name |-> "first", host |-> "first", agent |-> "none", status |-> "pending"]
Nothing == [agent |-> "none", status |-> "pending"]

\* Routes that depend on get_current_user or require_admin, and those that
\* read the row first.
Guarded == {"addUser", "edit", "delete", "test"}
Reading == {"get", "edit", "status", "enroll", "test"}

Startup == {"down", "counting", "seeding", "serving"}
Awaits == {"idle", "token", "credentials", "audit", "stamp", "insertUser", "insert", "existing",
           "update", "reread", "delete", "agent", "byHost", "register", "store", "answered"}

TypeOK ==
    /\ worker \in [Workers -> Startup]
    /\ users \subseteq Usernames
    /\ audit \subseteq Clients \X {"LOGIN_SUCCESS", "LOGIN_FAILED"}
    /\ issued \subseteq users
    /\ known \subseteq Ids
    /\ sources \in [Ids -> Rows \cup {NoRow}]
    /\ \A i \in Ids \ known : sources[i] = NoRow
    /\ on \in [Clients -> Workers]
    /\ kind \in [Clients -> Routes]
    /\ at \in [Clients -> Awaits]
    /\ user \in [Clients -> Usernames \cup {"none"}]
    /\ target \in [Clients -> Ids]
    /\ field \in [Clients -> Fields \cup {"none"}]
    /\ seen \in [Clients -> Rows \cup {NoRow}]
    /\ success \in [Clients -> BOOLEAN]
    /\ found \in [Clients -> [agent : Agents \cup {"none"}, status : Statuses]]
    /\ reply \in [Clients -> {"none", "ok", "denied", "forbidden", "missing", "conflict", "unknown", "failed"}]
    /\ faults \in 0 .. MaxFaults

\* A fresh file, or one with the administrator, logged in, and a log source.
Init ==
    /\ worker = [w \in Workers |-> "down"]
    /\ \/ users = {} /\ known = {}
       \/ users = {Admin} /\ known = {"old"}
    /\ issued = users
    /\ audit = {}
    /\ sources = [i \in Ids |-> IF i \in known THEN Created ELSE NoRow]
    /\ on \in Placements
    /\ kind \in Mixes
    /\ at = [c \in Clients |-> "idle"]
    /\ user = [c \in Clients |-> "none"]
    /\ target = [c \in Clients |-> "old"]
    /\ field = [c \in Clients |-> "none"]
    /\ seen = [c \in Clients |-> NoRow]
    /\ found = [c \in Clients |-> Nothing]
    /\ success = [c \in Clients |-> FALSE]
    /\ reply = [c \in Clients |-> "none"]
    /\ faults = 0

Fault == faults < MaxFaults /\ faults' = faults + 1

-----------------------------------------------------------------------------
(***************************************************************************)
(* Startup: the lifespan of the application, in every worker.              *)
(***************************************************************************)

Goes(w, from, to) == worker[w] = from /\ worker' = [worker EXCEPT ![w] = to]

\* The parent process starts a worker, also one in place of a worker that died,
\* and the worker creates what tables are missing.
Boot(w) == Goes(w, "down", "counting") /\ UNCHANGED <<auth, faults>>

\* Mutant: the administrator is inserted whatever the table holds.
CountNoUsers(w) == Goes(w, "counting", "seeding") /\ UNCHANGED <<auth, faults>>

\* SELECT COUNT(*) FROM users
CountUsers(w) ==
    Goes(w, "counting", IF users = {} THEN "seeding" ELSE "serving") /\ UNCHANGED <<auth, faults>>

\* The INSERT, after the password was hashed: a worker that comes second
\* raises on the UNIQUE username and its startup fails.
SeedAdmin(w) ==
    /\ Goes(w, "seeding", IF Admin \in users THEN "down" ELSE "serving")
    /\ users' = users \cup {Admin}
    /\ UNCHANGED <<audit, issued, faults>>

StartupFails(w) ==
    /\ worker[w] \in {"counting", "seeding"}
    /\ Fault /\ worker' = [worker EXCEPT ![w] = "down"]
    /\ UNCHANGED auth

Start(w) ==
    /\ Boot(w) \/ CountUsers(w) \/ SeedAdmin(w) \/ StartupFails(w)
    /\ UNCHANGED <<table, request, at, local, reply>>

-----------------------------------------------------------------------------
(***************************************************************************)
(* Requests.                                                               *)
(***************************************************************************)

Await(c, s) == at' = [at EXCEPT ![c] = s] /\ UNCHANGED reply
Answer(c, r) == at' = [at EXCEPT ![c] = "answered"] /\ reply' = [reply EXCEPT ![c] = r]

\* Where a request goes once its dependencies are resolved.
Enter(c) ==
    CASE kind[c] = "login"   -> "credentials"
      [] kind[c] = "addUser" -> "insertUser"
      [] kind[c] = "create"  -> "insert"
      [] kind[c] = "delete"  -> "delete"
      [] kind[c] \in Reading -> "existing"

Begin(c) ==
    /\ at[c] = "idle" /\ worker[on[c]] = "serving"
    /\ \E u \in IF kind[c] = "login" THEN Usernames
                ELSE IF kind[c] \in Guarded THEN issued \cup {"none"} ELSE {"none"} :
         user' = [user EXCEPT ![c] = u]
    /\ IF kind[c] \in Reading \cup {"delete"}
       THEN \E i \in known : target' = [target EXCEPT ![c] = i]
       ELSE target' = [target EXCEPT ![c] = IF kind[c] = "create" THEN c ELSE "old"]
    /\ \E f \in IF kind[c] = "edit" THEN Fields \cup {"none"} ELSE {"none"} :
         field' = [field EXCEPT ![c] = f]
    /\ Await(c, IF kind[c] \in Guarded THEN "token" ELSE Enter(c))
    /\ UNCHANGED <<worker, auth, table, on, kind, local, faults>>

\* get_current_user: without a valid token of a user in the table, 401; and
\* require_admin.
CheckToken(c) ==
    /\ at[c] = "token"
    /\ IF user[c] \notin users THEN Answer(c, "denied")
       ELSE IF kind[c] = "addUser" /\ user[c] # Admin THEN Answer(c, "forbidden")
       ELSE Await(c, Enter(c))
    /\ UNCHANGED <<auth, table, local>>

\* Mutant: whether the user was found is not looked at.
VerifyAnyone(c) ==
    /\ at[c] = "credentials"
    /\ \E right \in BOOLEAN : success' = [success EXCEPT ![c] = right]
    /\ Await(c, "audit")
    /\ UNCHANGED <<auth, table, seen, found>>

\* authenticate: the user is read and the password compared.  bcrypt raises on
\* a password of more than 72 bytes, and then the attempt is not recorded.
Verify(c) ==
    /\ at[c] = "credentials"
    /\ \/ /\ \E right \in BOOLEAN :
               success' = [success EXCEPT ![c] = right /\ user[c] \in users]
          /\ Await(c, "audit")
       \/ user[c] \in users /\ Answer(c, "failed") /\ UNCHANGED success
    /\ UNCHANGED <<auth, table, seen, found>>

Event(c) == IF success[c] THEN "LOGIN_SUCCESS" ELSE "LOGIN_FAILED"

\* Mutant: an attempt that could not be recorded goes on.
AuditBestEffort(c) ==
    /\ at[c] = "audit"
    /\ UNCHANGED <<users, issued, table, local>>
    /\ audit' \in {audit, audit \cup {<<c, Event(c)>>}}
    /\ IF success[c] THEN Await(c, "stamp") ELSE Answer(c, "denied")

\* The attempt is recorded before its outcome has any effect.
Audit(c) ==
    /\ at[c] = "audit"
    /\ audit' = audit \cup {<<c, Event(c)>>}
    /\ IF success[c] THEN Await(c, "stamp") ELSE Answer(c, "denied")
    /\ UNCHANGED <<users, issued, table, local>>

\* last_login, and the token.
IssueToken(c) ==
    /\ at[c] = "stamp"
    /\ issued' = issued \cup {user[c]}
    /\ Answer(c, "ok")
    /\ UNCHANGED <<users, audit, table, local>>

Authenticate(c) == Verify(c) \/ Audit(c) \/ IssueToken(c)

\* The INSERT of POST /users; a taken username is answered with 400, and so is
\* a password that bcrypt refuses to hash.
CreateUser(c) ==
    /\ at[c] = "insertUser"
    /\ \/ /\ users' = users \cup {"analyst"}
          /\ Answer(c, IF "analyst" \in users THEN "conflict" ELSE "ok")
       \/ UNCHANGED users /\ Answer(c, "conflict")
    /\ UNCHANGED <<audit, issued, table, local>>

-----------------------------------------------------------------------------
(***************************************************************************)
(* Log sources.                                                            *)
(***************************************************************************)

Exists(c) == sources[target[c]] # NoRow
\* An UPDATE of the request's row: without the row it does nothing.
UpdateRow(c, row) == sources' = IF Exists(c) THEN [sources EXCEPT ![target[c]] = row] ELSE sources

\* create: a new uuid; the row is read again for the answer.
Create(c) ==
    /\ at[c] = "insert"
    /\ known' = known \cup {c}
    /\ sources' = [sources EXCEPT ![c] = Created]
    /\ Await(c, "reread")
    /\ UNCHANGED <<auth, local>>

\* get, for GET itself and at the head of the other routes.
Existing(c) ==
    /\ at[c] = "existing"
    /\ seen' = [seen EXCEPT ![c] = sources[target[c]]]
    /\ IF ~Exists(c) THEN Answer(c, "missing")
       ELSE CASE kind[c] = "edit" /\ field[c] # "none" -> Await(c, "update")
              [] kind[c] = "status" -> Await(c, IF seen'[c].agent = "none" THEN "byHost" ELSE "agent")
              [] kind[c] = "enroll" -> Await(c, "register")
              [] OTHER -> Answer(c, "ok")
    /\ UNCHANGED <<auth, table, found, success>>

\* Mutant: the row that was read is written back, with the field changed.
WriteBack(c) ==
    /\ at[c] = "update"
    /\ UpdateRow(c, [seen[c] EXCEPT ![field[c]] = c])
    /\ Await(c, "reread")
    /\ UNCHANGED <<auth, known, local>>

\* update: only the fields of the body are set.
Update(c) ==
    /\ at[c] = "update"
    /\ UpdateRow(c, [sources[target[c]] EXCEPT ![field[c]] = c])
    /\ Await(c, "reread")
    /\ UNCHANGED <<auth, known, local>>

\* The row is gone: a PUT says 404, and the POST has no row to answer with.
Reread(c) ==
    /\ at[c] = "reread"
    /\ Answer(c, IF Exists(c) THEN "ok" ELSE IF kind[c] = "edit" THEN "missing" ELSE "failed")
    /\ UNCHANGED <<auth, table, local>>

Delete(c) ==
    /\ at[c] = "delete"
    /\ sources' = [sources EXCEPT ![target[c]] = NoRow]
    /\ Answer(c, IF Exists(c) THEN "ok" ELSE "missing")
    /\ UNCHANGED <<auth, known, local>>

\* _norm_status of what Wazuh says of an agent.
NormStatus == {"pending", "never_connected", "active", "disconnected"}

\* wazuh_get and wazuh_post: one of the answers, or None without a token, on an
\* error or a timeout.
Ask(c, answers, IfNone) ==
    /\ \/ Await(c, "store") /\ \E told \in answers : found' = [found EXCEPT ![c] = told]
       \/ IfNone /\ UNCHANGED found
    /\ UNCHANGED <<auth, table, seen, success>>

AskAgent(c) ==
    at[c] = "agent" /\ Ask(c, [agent : {seen[c].agent}, status : NormStatus], Await(c, "byHost"))

\* Any agent may have the address of the host that was read.
AskByHost(c) ==
    at[c] = "byHost" /\ Ask(c, [agent : Agents, status : NormStatus], Answer(c, "unknown"))

\* The agent is registered, or the commands are given without a key.
Register(c) ==
    at[c] = "register" /\ Ask(c, [agent : Agents, status : {"never_connected"}], Answer(c, "ok"))

\* update_wazuh_status: both columns in one UPDATE, which never inserts.
StoreStatus(c) ==
    /\ at[c] = "store"
    /\ UpdateRow(c, [sources[target[c]] EXCEPT !.agent = found[c].agent, !.status = found[c].status])
    /\ Answer(c, "ok")
    /\ UNCHANGED <<auth, known, local>>

Manage(c) == Create(c) \/ Existing(c) \/ Update(c) \/ Reread(c) \/ Delete(c)
LiveStatus(c) == AskAgent(c) \/ AskByHost(c) \/ Register(c) \/ StoreStatus(c)

Handle(c) ==
    /\ CheckToken(c) \/ Authenticate(c) \/ CreateUser(c) \/ Manage(c) \/ LiveStatus(c)
    /\ UNCHANGED <<worker, request, faults>>

\* A statement fails ("database is locked"), and the request with it.
Waiting(c) == at[c] \notin {"idle", "answered"}
StatementFails(c) ==
    /\ Waiting(c) /\ at[c] \notin {"agent", "byHost", "register"}
    /\ Fault /\ Answer(c, IF at[c] = "insertUser" THEN "conflict" ELSE "failed")
    /\ UNCHANGED <<worker, auth, table, request, local>>

\* A worker dies, with its requests.
WorkerDies(w) ==
    /\ worker[w] = "serving"
    /\ Fault /\ worker' = [worker EXCEPT ![w] = "down"]
    /\ at' = [c \in Clients |-> IF on[c] = w /\ Waiting(c) THEN "answered" ELSE at[c]]
    /\ reply' = [c \in Clients |-> IF on[c] = w /\ Waiting(c) THEN "failed" ELSE reply[c]]
    /\ UNCHANGED <<auth, table, request, local>>

Next ==
    \/ \E w \in Workers : Start(w) \/ WorkerDies(w)
    \/ \E c \in Clients : Begin(c) \/ Handle(c) \/ StatementFails(c)

Spec == Init /\ [][Next]_vars

\* The parent process replaces workers that died, statements and calls end,
\* and nobody has to send a request.
FairSpec ==
    /\ Spec
    /\ \A w \in Workers : WF_vars(Start(w))
    /\ \A c \in Clients : WF_vars(Handle(c))

-----------------------------------------------------------------------------
(***************************************************************************)
(* Properties.                                                             *)
(***************************************************************************)

\* Workers that race for the first user, fail or die: in the end all of them
\* serve, there is an administrator to log in, and no request is left hanging.
ApiServes ==
    <>[](/\ \A w \in Workers : worker[w] = "serving"
         /\ Admin \in users
         /\ \A c \in Clients : ~Waiting(c))

\* A login of u is in auth_audit, of this run or of the one before.
Recorded(u) ==
    \/ u = Admin /\ "old" \in known
    \/ \E c \in Clients : kind[c] = "login" /\ user[c] = u /\ <<c, "LOGIN_SUCCESS">> \in audit

\* Access is on record: a login that was granted or refused has its row and no
\* row of the other outcome, nobody whom the table does not hold is let in, and
\* whatever was done under a token has a recorded login of its user behind it
\* (authenticate, get_current_user).  This is less than authenticate and POST
\* /login promise, a row for every attempt: one that ends in an error - a
\* failing statement, a password bcrypt raises on - may have none.
AccessOnRecord ==
    \A c \in Clients :
        /\ kind[c] = "login" =>
              /\ reply[c] = "ok" => <<c, "LOGIN_SUCCESS">> \in audit /\ user[c] \in users
              /\ reply[c] = "denied" => <<c, "LOGIN_FAILED">> \in audit
              /\ Cardinality({e \in audit : e[1] = c}) <= 1
        /\ kind[c] \in Guarded /\ reply[c] = "ok" => Recorded(user[c])

\* A source reported missing is gone for good: no late UPDATE brings it back.
MissingIsGone ==
    \A c \in Clients : reply[c] = "missing" => sources[target[c]] = NoRow

\* A PUT that was answered is still in the row, unless another PUT of the same
\* field wrote over it: edits of different fields, and the status that is
\* stored behind them, do not undo each other.
EditsMerge ==
    \A c \in Clients :
        LET row == sources[target[c]]
            f == field[c]
        IN (kind[c] = "edit" /\ reply[c] = "ok" /\ f # "none" /\ row # NoRow)
           => \E d \in Clients : row[f] = d /\ field[d] = f /\ target[d] = target[c]

\* The agent in a row and the status beside it come from one answer of Wazuh.
StatusIsTold ==
    \A i \in known : sources[i] # NoRow =>
        [agent |-> sources[i].agent, status |-> sources[i].status]
            \in {Nothing} \cup {found[c] : c \in {d \in Clients : target[d] = i}}

SourcesAgree == MissingIsGone /\ EditsMerge /\ StatusIsTold

=============================================================================
