--------------------------- MODULE RuntimeServices ---------------------------
(***************************************************************************)
(* RuntimeServices: the coordinator that owns the leadership lease of a     *)
(* process, the local scheduler with its automatic task and its manual      *)
(* requests, and the service side of the market scanner, in one process     *)
(* that may crash and start again.                                         *)
(*                                                                         *)
(* A work is the scheduler's automatic task or a manual request.  An action *)
(* is one database transaction or the code between two awaits.  The locks   *)
(* are derived from the places where their holders are: the coordinator     *)
(* holds its own everywhere but at rest, and the scheduler's while it       *)
(* reconciles or waits for tasks.                                          *)
(***************************************************************************)
EXTENDS Naturals, FiniteSets

CONSTANTS
    Requests,    \* request identifiers of manual tasks
    AutoTask,    \* the automatic task
    MaxSubmits,  \* bound on submissions of manual requests
    MaxAutos,    \* bound on executions of the automatic task
    MaxScans,    \* bound on market scans
    MaxFaults,   \* bound on failures of an activation
    MaxCrashes   \* bound on crashes of the process

ASSUME RuntimeAssumption ==
    /\ AutoTask \notin Requests /\ IsFiniteSet(Requests)
    /\ {MaxSubmits, MaxAutos, MaxScans, MaxFaults, MaxCrashes} \subseteq Nat

VARIABLES
    lease,      \* whether this process holds the leadership lease
    co,         \* where the coordinator is
    final,      \* the coordinator is stopping for good
    rel,        \* the deferred release of the lease and what it waits for
    scanner,    \* lifecycle flags of the scanner
    scan,       \* the scan task: none, running, or in a stop's snapshot
    held,       \* _guard_acquired of the scheduler
    guarding,   \* _scheduler_guard_active
    users,      \* _manual_guard_users
    runner,     \* whether the scheduler loop runs
    shutdown,   \* _shutdown_tasks
    releasing,  \* whether _guard_release_task is set
    pc,         \* where each work is
    orphan,     \* works whose cancelled insert is still on its thread
    row,        \* the task_run row of each work, and the process that wrote it
    receipt,    \* the receipt of each manual request
    ran,        \* how often the handler of each request started (history)
    count       \* submissions, automatic executions, scans, faults, crashes

leaseVars == <<lease, co, final, rel>>
scanVars  == <<scanner, scan>>
guardVars == <<held, guarding, users, runner, shutdown, releasing>>
workVars  == <<pc, orphan, row, receipt, ran>>
vars      == <<leaseVars, scanVars, guardVars, workVars, count>>

-----------------------------------------------------------------------------
Works == Requests \cup {AutoTask}

NoRelease == [pc |-> "none", sched |-> FALSE, scan |-> FALSE]

Resting    == {"poll", "off"}
AtGuard    == {"reconcile", "reserve", "run", "insert", "attach", "work", "record",
               "unrun", "receipt", "unguard"}
Executing  == {"insert", "attach", "work", "record", "unrun"}
AlivePlaces == {"find", "guard"} \cup AtGuard

Alive(w)  == pc[w] \in AlivePlaces
Active    == {w \in Works : Alive(w)}
Now       == count.crashes

TypeOK ==
    /\ lease \in BOOLEAN /\ final \in BOOLEAN
    /\ co \in {"poll", "off", "down", "scanStart", "schedStart", "schedReconcile", "schedStop",
               "schedWait", "scanStop", "scanWait", "release", "releasing"}
    /\ rel \in [pc : {"none", "wait", "lock", "releasing"}, sched : BOOLEAN, scan : BOOLEAN]
    /\ scanner \in [started : BOOLEAN, guard : BOOLEAN, stopping : BOOLEAN,
                    closed : BOOLEAN, quiet : BOOLEAN]
    /\ scan \in {"none", "running", "old"}
    /\ held \in BOOLEAN /\ guarding \in BOOLEAN /\ runner \in BOOLEAN /\ releasing \in BOOLEAN
    /\ users \in 0..(2 * Cardinality(Requests))
    /\ shutdown \subseteq Active
    /\ pc \in [Works -> AlivePlaces \cup {"idle"}]
    /\ orphan \subseteq Works
    /\ row \in [Works -> [st : {"none", "running", "ended", "cancelled"}, by : 0..MaxCrashes]]
    /\ receipt \in [Requests -> {"none", "accepted", "running", "completed", "failed", "interrupted"}]
    /\ ran \in [Requests -> Nat]
    /\ count \in [submits : 0..MaxSubmits, autos : 0..MaxAutos, scans : 0..MaxScans,
                  faults : 0..MaxFaults, crashes : 0..MaxCrashes]

Init ==
    /\ lease = FALSE /\ co = "poll" /\ final = FALSE /\ rel = NoRelease
    /\ scanner = [started |-> FALSE, guard |-> FALSE, stopping |-> FALSE,
                  closed |-> FALSE, quiet |-> TRUE]
    /\ scan = "none"
    /\ held = FALSE /\ guarding = FALSE /\ users = 0
    /\ runner = FALSE /\ shutdown = {} /\ releasing = FALSE
    /\ pc = [w \in Works |-> "idle"]
    /\ orphan = {}
    /\ row = [w \in Works |-> [st |-> "none", by |-> 0]]
    /\ receipt = [m \in Requests |-> "none"]
    /\ ran = [m \in Requests |-> 0]
    /\ count = [submits |-> 0, autos |-> 0, scans |-> 0, faults |-> 0, crashes |-> 0]

-----------------------------------------------------------------------------
(* The scheduler's locks, its guard and its quiescence.                    *)

SchedLockFree == co \notin {"schedReconcile", "schedWait"}
AdmissionFree == \A m \in Requests : pc[m] \notin {"guard", "reconcile", "reserve"}
RunLockFree   == \A m \in Requests : pc[m] \notin Executing

\* Seeded fault: the guard is released under the manual runs that share it.
GuardAfter_Selfish(n, s, g) == held /\ (g \/ s # {})

\* _release_instance_guard: the guard is kept while the loop, a manual run or a
\* task that outlived a stop still uses it.
GuardAfter(n, s, g) == held /\ (g \/ n > 0 \/ s # {})

SchedQuiet == /\ ~runner /\ Active = {} /\ shutdown = {} /\ ~releasing
              /\ ~held /\ ~guarding /\ users = 0

OpenReceipt(m) == receipt[m] \in {"accepted", "running"}

\* A start closes every row that is in progress.
RowsReconciled ==
    [w \in Works |-> IF row[w].st = "running" THEN [row[w] EXCEPT !.st = "cancelled"] ELSE row[w]]

\* Seeded fault: an open receipt is forgotten, so that its request can be retried.
ReceiptsReconciled_Forgotten ==
    [m \in Requests |-> IF OpenReceipt(m) THEN "none" ELSE receipt[m]]

\* reconcile_task_requests: every open receipt is interrupted.
ReceiptsReconciled ==
    [m \in Requests |-> IF OpenReceipt(m) THEN "interrupted" ELSE receipt[m]]

\* Seeded fault: a work that ends stays in the set a stop waits for.
WorkEnds_Kept(w, n) ==
    /\ pc' = [pc EXCEPT ![w] = "idle"]
    /\ releasing' = (releasing \/ (w \in shutdown /\ shutdown = {w}))
    /\ users' = n
    /\ UNCHANGED shutdown

\* A work is done: its done-callback forgets it and may schedule the release of
\* the guard that a stop left behind.
WorkEnds(w, n) ==
    /\ pc' = [pc EXCEPT ![w] = "idle"]
    /\ shutdown' = shutdown \ {w}
    /\ releasing' = (releasing \/ (w \in shutdown /\ shutdown = {w}))
    /\ users' = n

-----------------------------------------------------------------------------
(* Manual requests.                                                        *)

\* A request is submitted, or submitted again after its answer was lost.
Submit(m) ==
    /\ co # "down" /\ pc[m] = "idle" /\ count.submits < MaxSubmits
    /\ pc' = [pc EXCEPT ![m] = "find"]
    /\ count' = [count EXCEPT !.submits = @ + 1]
    /\ UNCHANGED <<leaseVars, scanVars, guardVars, orphan, row, receipt, ran>>

\* Under the admission lock the receipt is looked up; a known request ends here.
Find(m) ==
    /\ pc[m] = "find" /\ AdmissionFree
    /\ IF receipt[m] = "none"
       THEN /\ pc' = [pc EXCEPT ![m] = "guard"]
            /\ UNCHANGED <<shutdown, releasing, users>>
       ELSE WorkEnds(m, users)
    /\ UNCHANGED <<leaseVars, scanVars, held, guarding, runner, orphan, row, receipt, ran, count>>

\* _begin_manual_guard_use; the service guard is the leadership itself.
BeginUse(m) ==
    /\ pc[m] = "guard" /\ SchedLockFree
    /\ IF held \/ lease
       THEN /\ held' = TRUE
            /\ users' = users + 1
            /\ pc' = [pc EXCEPT ![m] = "reconcile"]
            /\ UNCHANGED <<shutdown, releasing>>
       ELSE WorkEnds(m, users) /\ UNCHANGED held
    /\ UNCHANGED <<leaseVars, scanVars, guarding, runner, orphan, row, receipt, ran, count>>

\* Seeded fault: every admission reconciles what it takes for a dead owner's.
ReconcileRequests_Always(m) ==
    /\ pc[m] = "reconcile"
    /\ row' = [w \in Works |-> IF w \in Requests /\ OpenReceipt(w) THEN RowsReconciled[w] ELSE row[w]]
    /\ receipt' = ReceiptsReconciled
    /\ pc' = [pc EXCEPT ![m] = "reserve"]
    /\ UNCHANGED <<leaseVars, scanVars, guardVars, orphan, ran, count>>

\* The only user of a guard that the loop does not hold reconciles first.
ReconcileRequests(m) ==
    /\ pc[m] = "reconcile"
    /\ IF users = 1 /\ ~guarding
       THEN /\ row' = [w \in Works |-> IF w \in Requests /\ OpenReceipt(w) THEN RowsReconciled[w]
                                                                          ELSE row[w]]
            /\ receipt' = ReceiptsReconciled
       ELSE UNCHANGED <<row, receipt>>
    /\ pc' = [pc EXCEPT ![m] = "reserve"]
    /\ UNCHANGED <<leaseVars, scanVars, guardVars, orphan, ran, count>>

\* The receipt is inserted, or found after all: then nothing runs.
Reserve(m) ==
    /\ pc[m] = "reserve"
    /\ receipt' = [receipt EXCEPT ![m] = IF @ = "none" THEN "accepted" ELSE @]
    /\ pc' = [pc EXCEPT ![m] = IF receipt[m] = "none" THEN "run" ELSE "unguard"]
    /\ UNCHANGED <<leaseVars, scanVars, guardVars, orphan, row, ran, count>>

\* run_once: under the run lock the guard is used once more.
BeginRun(m) ==
    /\ pc[m] = "run" /\ RunLockFree /\ SchedLockFree
    /\ held \/ lease
    /\ held' = TRUE
    /\ users' = users + 1
    /\ pc' = [pc EXCEPT ![m] = "insert"]
    /\ UNCHANGED <<leaseVars, scanVars, guarding, runner, shutdown, releasing, orphan, row, receipt, ran, count>>

\* start_task_run_cancel_safe returns the identifier of the new row.
Insert(w) ==
    /\ pc[w] = "insert"
    /\ row' = [row EXCEPT ![w] = [st |-> "running", by |-> Now]]
    /\ pc' = [pc EXCEPT ![w] = IF w \in Requests THEN "attach" ELSE "work"]
    /\ UNCHANGED <<leaseVars, scanVars, guardVars, orphan, receipt, ran, count>>

Attach(m) ==
    /\ pc[m] = "attach"
    /\ receipt' = [receipt EXCEPT ![m] = IF @ = "accepted" THEN "running" ELSE @]
    /\ ran' = [ran EXCEPT ![m] = @ + 1]
    /\ pc' = [pc EXCEPT ![m] = "work"]
    /\ UNCHANGED <<leaseVars, scanVars, guardVars, orphan, row, count>>

\* The handler returns or raises.
Work(w) ==
    /\ pc[w] = "work"
    /\ pc' = [pc EXCEPT ![w] = "record"]
    /\ UNCHANGED <<leaseVars, scanVars, guardVars, orphan, row, receipt, ran, count>>

\* finish_task_run; an automatic task is done with it.
Record(w) ==
    /\ pc[w] = "record"
    /\ row' = [row EXCEPT ![w].st = IF @ = "running" THEN "ended" ELSE @]
    /\ IF w \in Requests THEN /\ pc' = [pc EXCEPT ![w] = "unrun"]
                              /\ UNCHANGED <<shutdown, releasing, users>>
                         ELSE WorkEnds(w, users)
    /\ UNCHANGED <<leaseVars, scanVars, held, guarding, runner, orphan, receipt, ran, count>>

\* _end_manual_guard_use after run_once.
EndRun(m) ==
    /\ pc[m] = "unrun" /\ SchedLockFree
    /\ users' = users - 1
    /\ held' = GuardAfter(users - 1, shutdown, guarding)
    /\ pc' = [pc EXCEPT ![m] = "receipt"]
    /\ UNCHANGED <<leaseVars, scanVars, guarding, runner, shutdown, releasing, orphan, row, receipt, ran, count>>

\* Seeded fault: the end of a cancelled execution overwrites its receipt.
FinishReceipt_Overwrites(m) ==
    /\ pc[m] = "receipt"
    /\ \E st \in {"completed", "failed"} : receipt' = [receipt EXCEPT ![m] = st]
    /\ pc' = [pc EXCEPT ![m] = "unguard"]
    /\ UNCHANGED <<leaseVars, scanVars, guardVars, orphan, row, ran, count>>

FinishReceipt(m) ==
    /\ pc[m] = "receipt"
    /\ \E st \in {"completed", "failed"} :
          receipt' = [receipt EXCEPT ![m] = IF OpenReceipt(m) THEN st ELSE @]
    /\ pc' = [pc EXCEPT ![m] = "unguard"]
    /\ UNCHANGED <<leaseVars, scanVars, guardVars, orphan, row, ran, count>>

\* _end_manual_guard_use after the request; the worker is done.
EndUse(m) ==
    /\ pc[m] = "unguard" /\ SchedLockFree
    /\ WorkEnds(m, users - 1)
    /\ held' = GuardAfter(users - 1, shutdown, guarding)
    /\ UNCHANGED <<leaseVars, scanVars, guarding, runner, orphan, row, receipt, ran, count>>

\* Seeded fault: the thread that inserted a row for a cancelled task leaves it.
OrphanInserts_Leaves(w) ==
    /\ w \in orphan
    /\ row' = [row EXCEPT ![w] = [st |-> "running", by |-> Now]]
    /\ orphan' = orphan \ {w}
    /\ UNCHANGED <<leaseVars, scanVars, guardVars, pc, receipt, ran, count>>

\* The thread of a cancelled start inserts the row and cancels it itself.
OrphanInserts(w) ==
    /\ w \in orphan
    /\ row' = [row EXCEPT ![w] = [st |-> "cancelled", by |-> Now]]
    /\ orphan' = orphan \ {w}
    /\ UNCHANGED <<leaseVars, scanVars, guardVars, pc, receipt, ran, count>>

-----------------------------------------------------------------------------
(* The scheduler loop, its start and its stop.                             *)

LoopRuns ==
    /\ runner /\ pc[AutoTask] = "idle" /\ AutoTask \notin orphan /\ count.autos < MaxAutos
    /\ co # "schedWait"
    /\ pc' = [pc EXCEPT ![AutoTask] = "insert"]
    /\ count' = [count EXCEPT !.autos = @ + 1]
    /\ UNCHANGED <<leaseVars, scanVars, guardVars, orphan, row, receipt, ran>>

\* Where a cancelled work goes on: its row is cancelled, its guards are given
\* back, its receipt is interrupted.
AfterCancel(place) ==
    CASE place \in {"find", "guard"}                            -> "idle"
      [] place \in {"reconcile", "reserve", "receipt", "unguard"} -> "unguard"
      [] place = "run"                                            -> "unguard"
      [] place \in {"insert", "attach", "work", "record", "unrun"} -> "unrun"

\* The works in S are cancelled; a work whose handler resists is not in S.
Cancelled(S) ==
    /\ pc' = [w \in Works |->
                 IF w \notin S THEN pc[w]
                 ELSE IF w = AutoTask THEN "idle" ELSE AfterCancel(pc[w])]
    /\ orphan' = orphan \cup {w \in S : pc[w] = "insert"}
    /\ row' = [w \in Works |-> IF w \in S /\ pc[w] \in {"attach", "work", "record"}
                               THEN [row[w] EXCEPT !.st = "cancelled"] ELSE row[w]]
    /\ receipt' = [m \in Requests |->
                      IF m \in S /\ pc[m] \in {"run", "insert", "attach", "work", "record", "unrun"}
                                 /\ OpenReceipt(m)
                      THEN "interrupted" ELSE receipt[m]]

MayStart == users = 0 /\ shutdown = {} /\ ~releasing /\ ~runner

\* start() refuses, or takes the guard and goes on to reconcile.
SchedStart ==
    /\ co = "schedStart"
    /\ IF MayStart THEN /\ held' = TRUE /\ guarding' = TRUE
                        /\ co' = "schedReconcile"
                   ELSE /\ co' = "schedStop"
                        /\ UNCHANGED <<held, guarding>>
    /\ UNCHANGED <<lease, final, rel, scanVars, users, runner, shutdown, releasing, workVars, count>>

\* Orphaned rows and receipts are closed; the loop runs.
SchedReconcile ==
    /\ co = "schedReconcile"
    /\ row' = RowsReconciled
    /\ receipt' = ReceiptsReconciled
    /\ runner' = TRUE
    /\ co' = "poll"
    /\ UNCHANGED <<lease, final, rel, scanVars, held, guarding, users, shutdown, releasing,
                   pc, orphan, ran, count>>

\* The start fails: _abort_start cancels the tasks it finds, and the
\* activation is rolled back.
SchedStartFails ==
    /\ co = "schedReconcile" /\ count.faults < MaxFaults
    /\ count' = [count EXCEPT !.faults = @ + 1]
    /\ guarding' = FALSE
    /\ \E S \in SUBSET Active :
          /\ Cancelled(S)
          /\ shutdown' = {w \in Active : pc'[w] # "idle"}
    /\ held' = GuardAfter(users, shutdown', FALSE)
    /\ co' = "schedStop"
    /\ UNCHANGED <<lease, final, rel, scanVars, users, runner, releasing, ran>>

\* stop() has nothing to do, or waits for the loop and the tasks.
SchedStop ==
    /\ co = "schedStop"
    /\ co' = IF \/ shutdown # {} \/ releasing
                \/ ~runner /\ ~guarding /\ Active = {}
             THEN "scanStop" ELSE "schedWait"
    /\ UNCHANGED <<lease, final, rel, scanVars, guardVars, workVars, count>>

\* The wait ends, cancelling what is left; tasks that outlive it keep the guard.
SchedStopped ==
    /\ co = "schedWait"
    /\ \E S \in SUBSET Active :
          /\ Cancelled(S)
          /\ shutdown' = {w \in Active : pc'[w] # "idle"}
    /\ runner' = FALSE /\ guarding' = FALSE
    /\ held' = GuardAfter(users, shutdown', FALSE)
    /\ co' = "scanStop"
    /\ UNCHANGED <<lease, final, rel, scanVars, users, releasing, ran, count>>

\* _release_instance_guard_after_shutdown.
DeferredGuardRelease ==
    /\ releasing /\ SchedLockFree
    /\ held' = IF shutdown = {} THEN GuardAfter(users, shutdown, guarding) ELSE held
    /\ releasing' = FALSE
    /\ UNCHANGED <<leaseVars, scanVars, guarding, users, runner, shutdown, workVars, count>>

-----------------------------------------------------------------------------
(* The scanner as a service.                                               *)

Marked(x, idle) == IF ~x.started /\ ~x.stopping /\ ~x.guard /\ idle
                   THEN [x EXCEPT !.quiet = TRUE] ELSE x

ScannerStart ==
    /\ co = "scanStart"
    /\ IF scanner.closed \/ scanner.stopping
       THEN co' = "schedStop" /\ UNCHANGED scanner
       ELSE /\ co' = "schedStart"
            /\ scanner' = IF scanner.started THEN scanner
                          ELSE [scanner EXCEPT !.guard = TRUE, !.started = TRUE, !.quiet = FALSE]
    /\ UNCHANGED <<lease, final, rel, scan, guardVars, workVars, count>>

\* An operation creates a scan; the manager need not be started.
CreateScan ==
    /\ co # "down" /\ ~scanner.closed /\ scan = "none" /\ count.scans < MaxScans
    /\ scanner.guard \/ lease
    /\ scanner' = [scanner EXCEPT !.guard = TRUE]
    /\ scan' = "running"
    /\ count' = [count EXCEPT !.scans = @ + 1]
    /\ UNCHANGED <<leaseVars, guardVars, workVars>>

ScanEnds ==
    /\ scan # "none"
    /\ scan' = "none"
    /\ scanner' = Marked(scanner, TRUE)
    /\ UNCHANGED <<leaseVars, guardVars, workVars, count>>

\* begin_stop: for good, or a rollback that leaves the scanner open.
ScannerStop ==
    /\ co = "scanStop"
    /\ LET open == [scanner EXCEPT !.closed = @ \/ final]
       IN  CASE scanner.stopping -> /\ scanner' = open /\ co' = "release" /\ UNCHANGED scan
             [] ~scanner.stopping /\ ~scanner.started /\ ~scanner.guard /\ scan = "none" ->
                    /\ scanner' = [open EXCEPT !.quiet = TRUE] /\ co' = "release" /\ UNCHANGED scan
             [] OTHER -> /\ scanner' = [open EXCEPT !.stopping = TRUE, !.quiet = FALSE]
                         /\ scan' = IF scan = "none" THEN "none" ELSE "old"
                         /\ co' = "scanWait"
    /\ UNCHANGED <<lease, final, rel, guardVars, workVars, count>>

\* finish_stop, by the coordinator or by the deferred stop.
ScannerStopped ==
    /\ scanner.stopping /\ scan # "old"
    /\ scanner' = Marked([scanner EXCEPT !.started = FALSE, !.guard = FALSE, !.stopping = FALSE],
                         scan = "none")
    /\ co' = IF co = "scanWait" THEN "release" ELSE co
    /\ UNCHANGED <<lease, final, rel, scan, guardVars, workVars, count>>

\* The bounded wait for scans is over; the rest of the stop is deferred.
ScanWaitTimesOut ==
    /\ co = "scanWait" /\ scan = "old"
    /\ co' = "release"
    /\ UNCHANGED <<lease, final, rel, scanVars, guardVars, workVars, count>>

-----------------------------------------------------------------------------
(* The coordinator.                                                        *)

CoLockFree == rel.pc # "releasing"

Quiescent == SchedQuiet /\ scanner.quiet

\* The standby loop acquires the lease and activates the services.
Acquire ==
    /\ co = "poll" /\ ~final /\ ~lease /\ CoLockFree
    /\ lease' = TRUE
    /\ co' = "scanStart"
    /\ UNCHANGED <<final, rel, scanVars, guardVars, workVars, count>>

\* Stop for good: the services are stopped if the lease is ours.
Shutdown ==
    /\ co = "poll" /\ CoLockFree
    /\ final' = TRUE
    /\ co' = IF lease THEN "schedStop" ELSE "off"
    /\ UNCHANGED <<lease, rel, scanVars, guardVars, workVars, count>>

AtRest == IF final THEN "off" ELSE "poll"

\* _release_or_defer_leadership.
ReleaseOrDefer ==
    /\ co = "release"
    /\ CASE rel.pc # "none" -> co' = AtRest /\ UNCHANGED rel
         [] rel.pc = "none" /\ Quiescent -> co' = "releasing" /\ UNCHANGED rel
         [] OTHER -> co' = AtRest /\ rel' = [NoRelease EXCEPT !.pc = "wait"]
    /\ UNCHANGED <<lease, final, scanVars, guardVars, workVars, count>>

Release ==
    /\ co = "releasing"
    /\ lease' = FALSE
    /\ co' = AtRest
    /\ UNCHANGED <<final, rel, scanVars, guardVars, workVars, count>>

\* The deferred release sees each service quiescent once.
QuietSeen ==
    /\ rel.pc = "wait"
    /\ \/ ~rel.sched /\ SchedQuiet    /\ rel' = [rel EXCEPT !.sched = TRUE]
       \/ ~rel.scan  /\ scanner.quiet /\ rel' = [rel EXCEPT !.scan = TRUE]
       \/ rel.sched /\ rel.scan /\ rel' = [rel EXCEPT !.pc = "lock"]
    /\ UNCHANGED <<lease, co, final, scanVars, guardVars, workVars, count>>

\* Under the coordinator's lock it looks again, and gives up if it must.
DeferredCheck ==
    /\ rel.pc = "lock" /\ co \in Resting
    /\ rel' = IF Quiescent THEN [rel EXCEPT !.pc = "releasing"] ELSE NoRelease
    /\ UNCHANGED <<lease, co, final, scanVars, guardVars, workVars, count>>

DeferredRelease ==
    /\ rel.pc = "releasing"
    /\ lease' = FALSE
    /\ rel' = NoRelease
    /\ UNCHANGED <<co, final, scanVars, guardVars, workVars, count>>

\* The process dies; rows and receipts remain.
Crash ==
    /\ co # "down" /\ count.crashes < MaxCrashes
    /\ count' = [count EXCEPT !.crashes = @ + 1]
    /\ lease' = FALSE /\ co' = "down" /\ final' = FALSE /\ rel' = NoRelease
    /\ scanner' = [started |-> FALSE, guard |-> FALSE, stopping |-> FALSE,
                   closed |-> FALSE, quiet |-> TRUE]
    /\ scan' = "none"
    /\ held' = FALSE /\ guarding' = FALSE /\ users' = 0
    /\ runner' = FALSE /\ shutdown' = {} /\ releasing' = FALSE
    /\ pc' = [w \in Works |-> "idle"]
    /\ orphan' = {}
    /\ UNCHANGED <<row, receipt, ran>>

Boot ==
    /\ co = "down"
    /\ co' = "poll"
    /\ UNCHANGED <<lease, final, rel, scanVars, guardVars, workVars, count>>

-----------------------------------------------------------------------------
RequestStep(m) == \/ Submit(m) \/ Find(m) \/ BeginUse(m) \/ ReconcileRequests(m) \/ Reserve(m)
                  \/ BeginRun(m) \/ Attach(m) \/ EndRun(m) \/ FinishReceipt(m) \/ EndUse(m)
WorkStep(w)    == Insert(w) \/ Work(w) \/ Record(w) \/ OrphanInserts(w)
SchedStep      == \/ LoopRuns \/ SchedStart \/ SchedReconcile \/ SchedStartFails
                  \/ SchedStop \/ SchedStopped \/ DeferredGuardRelease
ScanStep       == \/ ScannerStart \/ CreateScan \/ ScanEnds \/ ScannerStop \/ ScannerStopped
                  \/ ScanWaitTimesOut
CoordStep      == \/ Acquire \/ Shutdown \/ ReleaseOrDefer \/ Release \/ QuietSeen
                  \/ DeferredCheck \/ DeferredRelease \/ Crash \/ Boot

Next ==
    \/ \E m \in Requests : RequestStep(m)
    \/ \E w \in Works : WorkStep(w)
    \/ SchedStep \/ ScanStep \/ CoordStep

Spec == Init /\ [][Next]_vars

-----------------------------------------------------------------------------
(* What must hold.                                                         *)

\* However often a request is submitted, and whatever crashes between, its task
\* is executed at most once.
RequestRunsOnce == \A m \in Requests : ran[m] <= 1

\* No reconciliation takes a live execution for an orphan: while a work is
\* executed its row stays running, and the receipt of a live request open.
LiveWorkKept ==
    /\ \A w \in Works : pc[w] \in {"attach", "work", "record"} => row[w].st = "running"
    /\ \A m \in Requests : pc[m] \in {"run", "insert", "attach", "work", "record"} => OpenReceipt(m)

\* The scheduler's guard is held while anything of the scheduler works,
\* whichever of its loop, its manual runs or a stop ends first.
GuardCoversWork ==
    (\E m \in Requests : pc[m] \in AtGuard) \/ pc[AutoTask] # "idle" => held

\* A row in progress belongs to a work that will close it, to the thread that
\* inserted it, or to a process that is gone.
RowHasOwner ==
    \A w \in Works : row[w].st = "running" /\ row[w].by = Now =>
        pc[w] \in {"attach", "work", "record"} \/ w \in orphan

\* The lease is held while a scan or a task of the scheduler runs.
LeaseOutlivesWork ==
    (scan # "none" \/ \E w \in Works : pc[w] \in {"attach", "work", "record"}) => lease
-----------------------------------------------------------------------------
(* What the clients of the manual requests are promised.                   *)

RequestsSeen == INSTANCE RequestLedger WITH
                    answer    <- receipt,
                    executing <- {m \in Requests : pc[m] = "work"},
                    runs      <- ran

\* Every behaviour of the runtime, as the clients of its requests see it, is one
\* of the ledger: a receipt never goes back, completed and failed answers come
\* from an execution that has returned, and what is called interrupted neither
\* executes nor will, whoever reconciles, cancels, crashes or stops meanwhile.
ImplementsRequestLedger == RequestsSeen!Spec
=============================================================================
