--------------------------- MODULE DesktopBackend ---------------------------
(***************************************************************************)
(* The desktop application's main process: it starts and stops the backend *)
(* with `docker compose` children and shows one status of them, in the     *)
(* tray and in the window.                                                 *)
(*                                                                         *)
(* A start looks at the status, waits for `docker info`, and only then     *)
(* sets the status and spawns its child; nothing ever kills a child, and   *)
(* whichever ends last has the last word.  Quitting from the tray does not *)
(* wait for the `down` it spawns: the children outlive the application.    *)
(* Any other quit spawns the `down` too, but is cancelled by the window.   *)
(***************************************************************************)
EXTENDS Naturals

CONSTANT MaxClicks  \* bound: what the user does

ASSUME DesktopAssumption == MaxClicks \in Nat

VARIABLES
    open,       \* the application runs
    status,     \* currentStatus
    env,        \* the .env file in userData: "absent", "template" or "complete"
    checks,     \* calls of startServices waiting for `docker info`
    ups,        \* `up -d --wait` children
    downs,      \* `down` children
    orphans,    \* children of an application that has quit
    healthy,    \* the services are up
    mixed,      \* history: the last child was spawned beside others, or a failed
                \* start reported over one
    clicks      \* what the user has done so far

children == <<ups, downs>>
vars == <<open, status, env, checks, children, orphans, healthy, mixed, clicks>>

-----------------------------------------------------------------------------

Statuses == {"stopped", "starting", "running", "error"}

TypeOK ==
    /\ open \in BOOLEAN
    /\ status \in Statuses
    /\ env \in {"absent", "template", "complete"}
    /\ checks \in Nat
    /\ ups \in Nat
    /\ downs \in Nat
    /\ orphans \in Nat
    /\ healthy \in BOOLEAN
    /\ mixed \in BOOLEAN
    /\ clicks \in 0 .. MaxClicks
    /\ ~open => status = "stopped" /\ checks + ups + downs = 0

Init ==
    /\ open = FALSE
    /\ status = "stopped"
    /\ env \in {"absent", "template", "complete"}
    /\ checks = 0 /\ ups = 0 /\ downs = 0 /\ orphans = 0
    /\ healthy \in BOOLEAN
    /\ mixed = FALSE
    /\ clicks = 0

Click == clicks < MaxClicks /\ clicks' = clicks + 1
Emit(s) == status' = s

\* A child is spawned: alone, or beside others.
Spawns == mixed' = (ups + downs + orphans > 0)

\* Services that a child did not manage to bring up, or down, may be in part.
Unsure == {healthy, FALSE}

-----------------------------------------------------------------------------
(* Starting.                                                               *)


\* startServices, to its await: the status is what it was when the check ends.
BeginsStart ==
    /\ status \notin {"running", "starting"}
    /\ checks' = checks + 1

\* From the tray, or from the setup wizard by IPC.
Start ==
    /\ open /\ Click /\ BeginsStart
    /\ UNCHANGED <<open, status, env, children, orphans, healthy, mixed>>

\* The wizard writes the file.
WriteEnv ==
    /\ open /\ Click
    /\ env' = "complete"
    /\ UNCHANGED <<open, status, checks, children, orphans, healthy, mixed>>

\* The application is opened, and starts the services if it is configured.
Launch ==
    /\ ~open /\ Click
    /\ open' = TRUE
    /\ checks' = IF env = "complete" THEN 1 ELSE 0
    /\ UNCHANGED <<status, env, children, orphans, healthy, mixed>>

\* A start that ends in an error, over a child that has not ended or over none.
ReportsOver == mixed' = (mixed \/ ups + downs > 0)

\* A mutation of Checked: a configuration that cannot be staged ends the start without a word.
ChecksSilently ==
    /\ checks > 0
    /\ checks' = checks - 1
    /\ \/ Emit("error") /\ UNCHANGED ups /\ ReportsOver
       \/ Emit("starting") /\ env # "absent" /\ UNCHANGED <<ups, mixed>>
       \/ Emit("starting") /\ env # "absent" /\ ups' = ups + 1 /\ Spawns
    /\ UNCHANGED <<open, env, downs, orphans, healthy, clicks>>

\* The rest of startServices: without Docker, without a file or when the file
\* cannot be copied beside compose's it ends in an error.
Checked ==
    /\ checks > 0
    /\ checks' = checks - 1
    /\ \/ Emit("error") /\ UNCHANGED ups /\ ReportsOver
       \/ Emit("starting") /\ env # "absent" /\ ups' = ups + 1 /\ Spawns
    /\ UNCHANGED <<open, env, downs, orphans, healthy, clicks>>

\* The child's close and error handlers.
UpEnds ==
    /\ ups > 0
    /\ ups' = ups - 1
    /\ \/ Emit("running") /\ healthy' = TRUE
       \/ Emit("error") /\ healthy' \in Unsure
    /\ UNCHANGED <<open, env, checks, downs, orphans, mixed, clicks>>

-----------------------------------------------------------------------------
(* Stopping.                                                               *)

\* A mutation of Stop: the status changes only when the child has ended.
StopSilently ==
    /\ open /\ Click
    /\ status # "stopped"
    /\ downs' = downs + 1 /\ Spawns
    /\ UNCHANGED <<open, status, env, checks, ups, orphans, healthy>>

\* stopServices.  The tray offers it while the services run; but it is also
\* called by IPC, and by before-quit of a quit that the window then cancels: its
\* close handler hides it unless the tray's Quit was clicked.
Stop ==
    /\ open /\ Click
    /\ status # "stopped"
    /\ Emit("starting") /\ downs' = downs + 1 /\ Spawns
    /\ UNCHANGED <<open, env, checks, ups, orphans, healthy>>

\* Whatever its exit code, "All services stopped."
DownEnds ==
    /\ downs > 0
    /\ downs' = downs - 1
    /\ Emit("stopped") /\ healthy' \in Unsure
    /\ UNCHANGED <<open, env, checks, ups, orphans, mixed, clicks>>

\* A mutation of Quit: a quit before the Docker check is over leaves it to be answered.
QuitWhileChecking ==
    /\ open /\ Click
    /\ open' = FALSE
    /\ orphans' = orphans + ups + downs + (IF status = "stopped" THEN 0 ELSE 1)
    /\ Emit("stopped") /\ ups' = 0 /\ downs' = 0
    /\ UNCHANGED <<env, checks, healthy, mixed>>

\* The tray's Quit, which lets the window close: before-quit calls stopServices,
\* and the application ends without waiting.
Quit ==
    /\ open /\ Click
    /\ open' = FALSE
    /\ orphans' = orphans + ups + downs + (IF status = "stopped" THEN 0 ELSE 1)
    /\ Emit("stopped") /\ checks' = 0 /\ ups' = 0 /\ downs' = 0
    /\ UNCHANGED <<env, healthy, mixed>>

\* A child that nobody listens to ends, with whatever it was to do.
OrphanEnds ==
    /\ orphans > 0
    /\ orphans' = orphans - 1
    /\ healthy' \in BOOLEAN
    /\ UNCHANGED <<open, status, env, checks, children, mixed, clicks>>

-----------------------------------------------------------------------------

Docker == Checked \/ UpEnds \/ DownEnds \/ OrphanEnds
User == Launch \/ WriteEnv \/ Start \/ Stop \/ Quit

Next == User \/ Docker

Spec == Init /\ [][Next]_vars

\* `docker info` and `docker compose` end; the user may do nothing.
FairSpec == Spec /\ WF_vars(Docker)

-----------------------------------------------------------------------------
(* Properties.                                                             *)

\* Every child reports into the one status, in whatever order they end.  It
\* never says "starting" with no child left to end that; and what children that
\* ran beside each other leave wrong - started twice before the first Docker
\* check was over, stopped during a start, a cancelled quit, orphans of the last
\* run - is wrong no longer than until a child is spawned alone: from then on
\* "starting" is shown exactly while it runs, and "running" only of services
\* that are up (backendManager.ts).
StatusRecovers ==
    /\ status = "starting" => ups + downs > 0
    /\ open /\ ~mixed =>
        /\ ups + downs <= 1
        /\ status = "starting" <=> ups + downs = 1
        /\ status = "running" => healthy

\* Overlapping children or not: "starting", which offers neither Start nor Stop
\* in the tray, is always left again.
Settles == <>[](status # "starting" /\ checks + ups + downs + orphans = 0)

=============================================================================
