------------------------ MODULE DesktopBackendProofs ------------------------
(***************************************************************************)
(* Safety of DesktopBackend whatever the user does: starts that overlap,   *)
(* stops during a start, cancelled quits, orphans.  The status is right of *)
(* a child that was spawned alone; that it stays right when the child has  *)
(* ended rests on no orphan disturbing the services behind its back.       *)
(***************************************************************************)
EXTENDS DesktopBackend, TLAPS

\* A child that was spawned alone runs over no orphans, and so do the services
\* it has brought up: orphans come only of quitting.
Alone == open /\ ~mixed /\ (ups + downs > 0 \/ status = "running") => orphans = 0

IInv == TypeOK /\ StatusRecovers /\ Alone

\* The counters are numbers; nothing runs of a closed application.
LEMMA Counters ==
    ASSUME TypeOK
    PROVE  /\ checks \in Nat /\ ups \in Nat /\ downs \in Nat /\ orphans \in Nat
           /\ ~open => checks = 0 /\ ups = 0 /\ downs = 0 /\ status = "stopped"
  BY DEF TypeOK

LEMMA Sum == ASSUME NEW a \in Nat, NEW b \in Nat PROVE a + b \in Nat
  OBVIOUS

\* Counts of children before and after one more.
LEMMA OneMore ==
    ASSUME NEW few \in Nat, NEW more \in Nat, NEW o \in Nat, more = few + 1
    PROVE  /\ more > 0
           /\ ~(few + o > 0) => more = 1 /\ o = 0
           /\ more <= 1 => few = 0
  OBVIOUS

\* Nothing runs before the application is first opened.
LEMMA InitIInv == Init => IInv
<1> SUFFICES ASSUME Init PROVE IInv
  OBVIOUS
<1>1. clicks \in 0 .. MaxClicks
  BY DesktopAssumption DEF Init
<1>2. 0 \in Nat /\ checks + ups + downs = 0
  BY DEF Init
<1>3. TypeOK
  BY <1>1, <1>2 DEF Init, TypeOK, Statuses
<1>4. StatusRecovers /\ Alone
  BY DEF Init, StatusRecovers, Alone
<1>5. QED
  BY <1>3, <1>4 DEF IInv

-----------------------------------------------------------------------------
(* What a step makes of the status.                                        *)

\* A step that changes neither the status nor what it is about.
LEMMA SameStatus ==
    ASSUME IInv, UNCHANGED <<status, ups, downs, orphans, mixed>>,
           open' => UNCHANGED healthy, open' /\ ~open => status = "stopped" /\ ups = 0 /\ downs = 0
    PROVE  StatusRecovers' /\ Alone'
  BY Counters DEF IInv, StatusRecovers, Alone

\* A child is spawned, with the status it reports from.
LEMMA SpawnStatus ==
    ASSUME IInv, open, Spawns, Emit("starting"), UNCHANGED <<open, orphans>>,
           ups' \in Nat, downs' \in Nat, ups' + downs' = ups + downs + 1
    PROVE  StatusRecovers' /\ Alone'
<1>1. ups \in Nat /\ downs \in Nat /\ orphans \in Nat
  BY Counters DEF IInv
<1>2. ups + downs \in Nat /\ ups' + downs' \in Nat
  BY <1>1, Sum
<1>3. /\ ups' + downs' > 0
      /\ ~(ups + downs + orphans > 0) => ups' + downs' = 1 /\ orphans = 0
  BY <1>1, <1>2, OneMore
<1>4. ~mixed' => ups' + downs' = 1 /\ orphans' = 0
  BY <1>3 DEF Spawns
<1>5. 1 <= 1 /\ status' = "starting"
  BY DEF Emit
<1>6. StatusRecovers'
  <2>1. open' /\ ~mixed' => ups' + downs' <= 1
    BY <1>4, <1>5
  <2>2. QED
    BY <1>3, <1>4, <1>5, <2>1, Zenon DEF StatusRecovers
<1>7. Alone'
  BY <1>4, Zenon DEF Alone
<1>8. QED
  BY <1>6, <1>7

\* A child ends, and whichever status it reports is none of a child under way.
LEMMA EndStatus ==
    ASSUME IInv, open, UNCHANGED <<open, orphans, mixed>>,
           ups' \in Nat, downs' \in Nat, ups + downs = ups' + downs' + 1,
           status' # "starting", status' = "running" => healthy'
    PROVE  StatusRecovers' /\ Alone'
<1>1. ups \in Nat /\ downs \in Nat /\ orphans \in Nat
  BY Counters DEF IInv
<1>2. ups + downs \in Nat /\ ups' + downs' \in Nat
  BY <1>1, Sum
<1>3. ups + downs > 0 /\ (ups + downs <= 1 => ups' + downs' = 0)
  BY <1>1, <1>2, OneMore
<1>4. ASSUME ~mixed PROVE ups' + downs' = 0 /\ orphans' = 0
  BY <1>3, <1>4, Zenon DEF IInv, StatusRecovers, Alone
<1>5. 0 <= 1 /\ 0 # 1
  OBVIOUS
<1>6. StatusRecovers'
  <2>1. ~mixed' => ups' + downs' <= 1 /\ ups' + downs' # 1
    BY <1>4, <1>5
  <2>2. QED
    BY <2>1, Zenon DEF StatusRecovers
<1>7. Alone'
  BY <1>4, Zenon DEF Alone
<1>8. QED
  BY <1>6, <1>7

-----------------------------------------------------------------------------
(* One lemma per action: the user's, then the ends of what they started.   *)

\* startServices, to its await.
LEMMA StartStep == ASSUME IInv, Start PROVE IInv'
<1>1. clicks' \in 0 .. MaxClicks
  BY DesktopAssumption DEF Start, Click, IInv, TypeOK
<1>2. TypeOK'
  BY <1>1 DEF Start, BeginsStart, children, IInv, TypeOK
<1>3. StatusRecovers' /\ Alone'
  BY SameStatus DEF Start, children
<1>4. QED
  BY <1>2, <1>3 DEF IInv

\* The wizard's write touches nothing the status is about.
LEMMA WriteEnvStep == ASSUME IInv, WriteEnv PROVE IInv'
<1>1. clicks' \in 0 .. MaxClicks
  BY DesktopAssumption DEF WriteEnv, Click, IInv, TypeOK
<1>2. TypeOK'
  BY <1>1 DEF WriteEnv, children, IInv, TypeOK
<1>3. StatusRecovers' /\ Alone'
  BY SameStatus DEF WriteEnv, children
<1>4. QED
  BY <1>2, <1>3 DEF IInv

\* The application opens with nothing of its own under way.
LEMMA LaunchStep == ASSUME IInv, Launch PROVE IInv'
<1>1. clicks' \in 0 .. MaxClicks
  BY DesktopAssumption DEF Launch, Click, IInv, TypeOK
<1>2. checks' \in 0 .. 1
  BY DEF Launch
<1>3. TypeOK'
  BY <1>1, <1>2 DEF Launch, children, IInv, TypeOK
<1>4. ups = 0 /\ downs = 0 /\ status = "stopped"
  BY Counters DEF Launch, IInv
<1>5. StatusRecovers' /\ Alone'
  BY <1>4, SameStatus DEF Launch, children
<1>6. QED
  BY <1>3, <1>5 DEF IInv

\* stopServices, whoever calls it.
LEMMA StopStep == ASSUME IInv, Stop PROVE IInv'
<1>1. clicks' \in 0 .. MaxClicks
  BY DesktopAssumption DEF Stop, Click, IInv, TypeOK
<1>2. mixed' \in BOOLEAN
  BY DEF Stop, Spawns
<1>3. TypeOK'
  BY <1>1, <1>2 DEF Stop, Emit, IInv, TypeOK, Statuses
<1>4. ups \in Nat /\ downs \in Nat /\ ups' = ups /\ downs' = downs + 1
  BY Counters DEF Stop, IInv
<1>5. ups' \in Nat /\ downs' \in Nat /\ ups' + downs' = ups + downs + 1
  BY <1>4
<1>6. StatusRecovers' /\ Alone'
  BY <1>5, SpawnStatus DEF Stop
<1>7. QED
  BY <1>3, <1>6 DEF IInv

\* before-quit: what was under way is nobody's any more.
LEMMA QuitStep == ASSUME IInv, Quit PROVE IInv'
<1>1. clicks' \in 0 .. MaxClicks
  BY DesktopAssumption DEF Quit, Click, IInv, TypeOK
<1>2. orphans' \in Nat /\ checks' + ups' + downs' = 0 /\ 0 \in Nat
  BY DEF Quit, IInv, TypeOK
<1>3. TypeOK'
  BY <1>1, <1>2 DEF Quit, Emit, IInv, TypeOK, Statuses
<1>4. StatusRecovers' /\ Alone'
  BY DEF Quit, Emit, StatusRecovers, Alone
<1>5. QED
  BY <1>3, <1>4 DEF IInv

\* The rest of startServices.
LEMMA CheckedStep == ASSUME IInv, Checked PROVE IInv'
<1>1. open /\ checks' \in Nat /\ ups \in Nat /\ downs \in Nat /\ orphans \in Nat
  BY DEF Checked, IInv, TypeOK
<1>2. CASE Emit("error") /\ UNCHANGED ups /\ ReportsOver
  <2>1. mixed' \in BOOLEAN
    BY <1>2 DEF ReportsOver
  <2>2. TypeOK'
    BY <1>1, <1>2, <2>1 DEF Checked, Emit, IInv, TypeOK, Statuses
  <2>3. UNCHANGED <<open, ups, downs, orphans>> /\ status' = "error"
    BY <1>2 DEF Checked, Emit
  <2>4. ASSUME ~mixed' PROVE ups' + downs' = 0
    <3>1. ~(ups + downs > 0)
      BY <1>2, <2>4 DEF ReportsOver
    <3>2. QED
      BY <1>1, <2>3, <3>1
  <2>5. StatusRecovers' /\ Alone'
    BY <2>3, <2>4 DEF StatusRecovers, Alone
  <2>6. QED
    BY <2>2, <2>5 DEF IInv
<1>3. CASE Emit("starting") /\ ups' = ups + 1 /\ Spawns
  <2>1. mixed' \in BOOLEAN
    BY <1>3 DEF Spawns
  <2>2. TypeOK'
    BY <1>1, <1>3, <2>1 DEF Checked, Emit, IInv, TypeOK, Statuses
  <2>3. UNCHANGED <<open, downs, orphans>>
    BY DEF Checked
  <2>4. ups' \in Nat /\ downs' \in Nat /\ ups' + downs' = ups + downs + 1
    BY <1>1, <1>3, <2>3
  <2>5. StatusRecovers' /\ Alone'
    BY <1>1, <1>3, <2>3, <2>4, SpawnStatus
  <2>6. QED
    BY <2>2, <2>5 DEF IInv
<1>4. QED
  BY <1>2, <1>3 DEF Checked

\* The `up` child's handlers.
LEMMA UpEndsStep == ASSUME IInv, UpEnds PROVE IInv'
<1>1. open /\ ups' \in Nat /\ downs' \in Nat /\ ups + downs = ups' + downs' + 1
  BY DEF UpEnds, IInv, TypeOK
<1>2. TypeOK'
  BY <1>1 DEF UpEnds, Emit, Unsure, IInv, TypeOK, Statuses
<1>3. status' # "starting" /\ (status' = "running" => healthy')
  BY DEF UpEnds, Emit
<1>4. StatusRecovers' /\ Alone'
  BY <1>1, <1>3, EndStatus DEF UpEnds
<1>5. QED
  BY <1>2, <1>4 DEF IInv

\* The `down` child's handlers.
LEMMA DownEndsStep == ASSUME IInv, DownEnds PROVE IInv'
<1>1. open /\ ups' \in Nat /\ downs' \in Nat /\ ups + downs = ups' + downs' + 1
  BY DEF DownEnds, IInv, TypeOK
<1>2. TypeOK'
  BY <1>1 DEF DownEnds, Emit, Unsure, IInv, TypeOK, Statuses
<1>3. status' = "stopped"
  BY DEF DownEnds, Emit
<1>4. StatusRecovers' /\ Alone'
  BY <1>1, <1>3, EndStatus DEF DownEnds
<1>5. QED
  BY <1>2, <1>4 DEF IInv

\* An orphan disturbs only services that no child of this run has brought up
\* alone.
LEMMA OrphanEndsStep == ASSUME IInv, OrphanEnds PROVE IInv'
<1>1. orphans > 0 /\ orphans' \in Nat /\ UNCHANGED <<open, status, ups, downs, mixed>>
  BY DEF OrphanEnds, children, IInv, TypeOK
<1>2. TypeOK'
  BY <1>1 DEF OrphanEnds, children, IInv, TypeOK
<1>3. open /\ ~mixed => ups + downs = 0 /\ status # "running"
  BY <1>1, Counters DEF IInv, Alone
<1>4. StatusRecovers' /\ Alone'
  BY <1>1, <1>3 DEF IInv, StatusRecovers, Alone
<1>5. QED
  BY <1>2, <1>4 DEF IInv

LEMMA NextIInv == IInv /\ [Next]_vars => IInv'
<1> SUFFICES ASSUME IInv, [Next]_vars PROVE IInv'
  OBVIOUS
<1>1. CASE User
  BY <1>1, LaunchStep, WriteEnvStep, StartStep, StopStep, QuitStep DEF User
<1>2. CASE Docker
  BY <1>2, CheckedStep, UpEndsStep, DownEndsStep, OrphanEndsStep DEF Docker
<1>3. CASE UNCHANGED vars
  <2>1. TypeOK'
    BY <1>3 DEF vars, children, IInv, TypeOK
  <2>2. StatusRecovers' /\ Alone'
    BY <1>3 DEF vars, children, IInv, StatusRecovers, Alone
  <2>3. QED
    BY <2>1, <2>2 DEF IInv
<1>4. QED
  BY <1>1, <1>2, <1>3 DEF Next

-----------------------------------------------------------------------------

\* The invariant holds whatever the user does, and whenever Docker answers.
THEOREM DesktopInvariant == Spec => []IInv
<1>1. QED
  BY InitIInv, NextIInv, PTL DEF Spec

\* Type correctness; in particular an application that has quit shows "stopped"
\* and listens to no child.
THEOREM DesktopTypes == Spec => []TypeOK
<1>1. IInv => TypeOK
  BY DEF IInv
<1>2. QED
  BY <1>1, DesktopInvariant, PTL

\* However many children overlapped - starts, stops, cancelled quits, orphans -
\* "starting" is shown of a child that has not ended, and from the next child
\* spawned alone the status is right again (backendManager.ts).
THEOREM StatusIsRecovered == Spec => []StatusRecovers
<1>1. IInv => StatusRecovers
  BY DEF IInv
<1>2. QED
  BY <1>1, DesktopInvariant, PTL

=============================================================================
