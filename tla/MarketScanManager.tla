-------------------------- MODULE MarketScanManager --------------------------
(***************************************************************************)
(* The processes that drive the store of MarketScanStore: the runtime      *)
(* lease, the lifecycle lock and flags of the scan manager, the background *)
(* task of each scan, the worker threads its database calls run on, the    *)
(* HTTP requests and scheduled ticks that create and cancel scans, the     *)
(* activation of a process and its rollback, and the orderly and the       *)
(* forced end of a process.                                                *)
(*                                                                         *)
(* A database call runs on a worker thread and the coroutine that awaits   *)
(* it resumes afterwards; the commit and the resumption are one action.    *)
(* Cancelling the coroutine does not stop a thread that has begun: its     *)
(* write stays outstanding, in `late', and commits whenever it gets to.    *)
(***************************************************************************)
EXTENDS MarketScanStore

CONSTANTS
    Procs,        \* server processes sharing the database file
    NoProc,       \* nobody
    Faults,       \* kinds of failure that may occur, see below
    MaxFaults,    \* bound on the failures of one behaviour
    MaxLate,      \* bound on the writes outstanding when one more is abandoned
    CreateKinds,  \* full-market kinds a user asks for, at most two
    AutoSettings, \* values market_scan_auto_enabled may have
    PoolStale,    \* whether a stock pool may come from the stale fallback
    Scores        \* outcomes a share may have

\* "crash": a process is killed; "persist": a terminal write fails for good
\* after its retries; "activation": the reconciliation of a take-over raises, or
\* the scheduler raises or refuses when it is started; "window": a request is
\* served after the begin_stop of a rollback and before the lease is given up.
FaultKinds == {"crash", "persist", "activation", "window"}

ASSUME ManagerAssumption ==
    /\ NoProc \notin Procs
    /\ Faults \subseteq FaultKinds
    /\ MaxFaults \in Nat
    /\ MaxLate \in Nat
    /\ CreateKinds \subseteq Kinds \ {"refresh"}
    /\ AutoSettings \subseteq BOOLEAN
    /\ PoolStale \subseteq BOOLEAN
    /\ Scores \subseteq Outcome

VARIABLES
    leader,   \* holder of the flock on the runtime-leader lock file
    coord,    \* what RuntimeCoordinator of each process is doing
    life,     \* the flags of each MarketScanLifecycle
    op,       \* the operation inside `async with lifecycle.lock'
    stop,     \* progress of MarketScanManager._stop
    task,     \* the asyncio task of each run, in the process that launched it
    late,     \* writes on worker threads whose task no longer awaits them
    failed,   \* MarketScanTerminalRecovery._failed_run_ids
    waits,    \* cancel_scan requests that gather the cancelled task
    auto,     \* market_scan_auto_enabled, the same for every process
    faults,   \* failures so far
    hist      \* what has happened, for the properties; no guard reads it

managerVars == <<leader, coord, life, op, stop, task, late, failed, waits, auto,
                 faults, hist>>
vars        == <<storeVars, managerVars>>

(* hist is a history variable with four fields:                            *)
(*   intruded  processes that served an operation between the begin_stop   *)
(*             of a rollback and the release of the lease after it         *)
(*   adrift    runs whose INSERT outlived the tick that awaited it         *)
(*   undone    runs whose task a rollback, or the end of the event loop,   *)
(*             cancelled while the manager was open                        *)
(*   usurped   active runs a reconciliation interrupted under their task   *)
NoHistory == [intruded |-> {}, adrift |-> {}, undone |-> {}, usurped |-> {}]

-----------------------------------------------------------------------------
(* Shapes of the state.                                                    *)

\* A process on standby takes the lease over, starts its scanner ("activating")
\* and then its scheduler ("starting").  A failed activation is rolled back and
\* the lease yielded; a shutdown closes the services and releases the lease, and
\* one that finds an activation or a rollback under way lets the rollback end
\* first ("folding").
Up == {"standby", "activating", "starting", "active", "rolling", "yielding",
       "folding", "closing", "releasing"}

Undecided  == [st |-> "none", auth |-> FALSE]
Verdict(s) == [st |-> s, auth |-> FALSE]

NoTask == [pc |-> "none", proc |-> NoProc, want |-> Undecided]
NoOp   == [kind |-> "none", pc |-> "idle", run |-> NoRun]
NoStop == [pc |-> "none", runs |-> {}]

FreshLife == [closed |-> FALSE, acquired |-> FALSE, started |-> FALSE,
              stopping |-> FALSE, quiet |-> TRUE]

Live(r)    == task[r].pc # "none"
TasksOf(p) == {r \in Runs : Live(r) /\ task[r].proc = p}

\* The places where a task awaits a write of its own.
Writing == {"attach", "start", "pool", "seed", "save", "finish"}
Working == Writing \cup {"decide"}
Ending  == {"fail", "wind"}

Write(r, call, tracked) ==
    [proc |-> task[r].proc, run |-> r, call |-> call,
     want |-> task[r].want, tracked |-> tracked]

\* Calls of an operation or of an activation: no run is known to them yet.
Unbound(p, call) ==
    [proc |-> p, run |-> NoRun, call |-> call, want |-> Undecided, tracked |-> FALSE]
UnboundCalls == {"insert", "reconcile", "orphans"}

ManagerTypeOK ==
    /\ TypeOK
    /\ leader \in Procs \cup {NoProc}
    /\ coord \in [Procs -> Up \cup {"stopped"}]
    /\ life \in [Procs -> [closed : BOOLEAN, acquired : BOOLEAN, started : BOOLEAN,
                           stopping : BOOLEAN, quiet : BOOLEAN]]
    /\ \A p \in Procs :
          /\ op[p].kind \in {"none", "start", "create", "tick", "cancel", "claim"}
          /\ op[p].pc \in {"idle", "reconcile", "recover", "mark", "insert", "launch",
                           "request", "cancelLocal"}
          /\ op[p].run \in Runs \cup {NoRun}
          /\ stop[p].pc \in {"none", "scheduler", "begin", "wait", "leave"}
          /\ stop[p].runs \subseteq Runs
          /\ failed[p] \subseteq Runs
    /\ \A r \in Runs :
          /\ task[r].pc \in Working \cup Ending \cup {"none", "new"}
          /\ task[r].proc \in Procs \cup {NoProc}
          /\ task[r].want.st \in Terminal \cup {"none"}
    /\ \A w \in late : w.proc \in Procs /\ IF w.call \in UnboundCalls
                                           THEN w.run = NoRun
                                           ELSE w.run \in Runs /\ w.call \in Writing
    /\ waits \subseteq Procs \X Runs
    /\ auto \in BOOLEAN
    /\ hist \in [intruded : SUBSET Procs, adrift : SUBSET Runs,
                 undone : SUBSET Runs, usurped : SUBSET Runs]
    /\ faults \in 0..MaxFaults

ManagerInit ==
    /\ Init
    /\ leader = NoProc
    /\ coord  = [p \in Procs |-> "standby"]
    /\ life   = [p \in Procs |-> FreshLife]
    /\ op     = [p \in Procs |-> NoOp]
    /\ stop   = [p \in Procs |-> NoStop]
    /\ task   = [r \in Runs |-> NoTask]
    /\ late   = {}
    /\ failed = [p \in Procs |-> {}]
    /\ waits  = {}
    /\ auto \in AutoSettings
    /\ faults = 0
    /\ hist   = NoHistory

CanFail(fault) == fault \in Faults /\ faults < MaxFaults

\* _mark_quiescent_if_idle, for the tasks t and the flags l of a process.
Quieted(p, l, t) ==
    IF /\ ~l.started /\ ~l.stopping /\ ~l.acquired
       /\ \A r \in Runs : t[r].proc # p
    THEN [l EXCEPT !.quiet = TRUE] ELSE l

\* owns_instance_guard
Owns(p) == ~life[p].closed /\ life[p].acquired /\ leader = p

-----------------------------------------------------------------------------
(* A terminal write awaited by somebody who keeps the score: it commits,   *)
(* or it is refused or lost and the run is remembered for recovery.        *)

Rejected(r, want) ==
    IsActive(r) /\ ~TerminalStatusValid(result[r], stalePool[r], want.st)

Persisted(p, r, want) ==
    /\ FinishRun(r, want.st, want.auth)
    /\ failed' = [failed EXCEPT ![p] = @ \ {r}]
    /\ UNCHANGED faults

\* Seeded fault: the run is not remembered.
NotPersisted_Forgotten(p, r, want) ==
    /\ \/ /\ Rejected(r, want)
          /\ UNCHANGED faults
       \/ /\ CanFail("persist")
          /\ faults' = faults + 1
    /\ UNCHANGED <<storeVars, failed>>

NotPersisted(p, r, want) ==
    /\ \/ /\ Rejected(r, want)
          /\ UNCHANGED faults
       \/ /\ CanFail("persist")
          /\ faults' = faults + 1
    /\ failed' = [failed EXCEPT ![p] = @ \cup {r}]
    /\ UNCHANGED storeVars

TrackedFinish(p, r, want) == Persisted(p, r, want) \/ NotPersisted(p, r, want)

\* _recover_terminal_persistence_failures: every remembered run without a local
\* task is interrupted if it is still active, and then forgotten.
Lost(p) == failed[p] \ TasksOf(p)

Recover(p) ==
    IF ~Owns(p) \/ Lost(p) = {}
    THEN UNCHANGED <<storeVars, failed, faults>>
    ELSE \/ /\ \E r \in Lost(p) : IsActive(r) /\ FinishRun(r, "interrupted", FALSE)
            /\ failed' = [failed EXCEPT ![p] = @ \ Lost(p)]
            /\ UNCHANGED faults
         \/ /\ \A r \in Lost(p) : ~IsActive(r)
            /\ failed' = [failed EXCEPT ![p] = @ \ Lost(p)]
            /\ UNCHANGED <<storeVars, faults>>
         \/ /\ CanFail("persist")
            /\ faults' = faults + 1
            /\ UNCHANGED <<storeVars, failed>>

-----------------------------------------------------------------------------
(* task.cancel().  A task that has not started never runs; one that awaits *)
(* a call or computes goes on to write its own end, shielded; one that is  *)
(* cancelled there too leaves that write to a detached coroutine, which    *)
(* still keeps the score; one that was recording a failure is gone.        *)

\* Seeded fault: a shutdown is taken for the user's wish.
AfterCancel_NeverInterrupted(t, closed) ==
    IF t.pc \in Working
    THEN [t EXCEPT !.pc = "wind", !.want = Verdict("cancelled")]
    ELSE NoTask

AfterCancel(t, closed) ==
    IF t.pc \in Working
    THEN [t EXCEPT !.pc = "wind",
                   !.want = Verdict(IF closed THEN "interrupted" ELSE "cancelled")]
    ELSE NoTask

\* A call that a worker thread had not begun is dropped; one it had begun is not.
Abandonable(S) == {Write(r, task[r].pc, FALSE) : r \in {q \in S : task[q].pc \in Writing}}
                  \cup {Write(r, "finish", FALSE) : r \in {q \in S : task[q].pc = "fail"}}
Detached(S)    == {Write(r, "finish", TRUE) : r \in {q \in S : task[q].pc = "wind"}}

Abandon(calls, detached) ==
    \E begun \in SUBSET calls :
        /\ late' = late \cup begun \cup detached
        /\ begun = {} \/ Cardinality(late') <= MaxLate

CancelTasks(S, closed) ==
    /\ task' = [r \in Runs |-> IF r \in S THEN AfterCancel(task[r], closed) ELSE task[r]]
    /\ Abandon(Abandonable(S), Detached(S))

-----------------------------------------------------------------------------
(* Operations under lifecycle.lock.                                        *)

\* The begin_stop of a rollback is over and the lease not yet given up.
RollbackWindow(p) ==
    /\ coord[p] \in {"rolling", "yielding", "folding", "releasing"}
    /\ stop[p].pc \in {"none", "wait", "leave"}

Serving(p) ==
    IF RollbackWindow(p)
    THEN /\ CanFail("window")
         /\ faults' = faults + 1
         /\ hist' = [hist EXCEPT !.intruded = @ \cup {p}]
    ELSE UNCHANGED <<faults, hist>>

\* Seeded fault: a closed manager still serves requests.
Enter_WhileClosed(p, what, pc) ==
    /\ coord[p] \in Up
    /\ op[p] = NoOp
    /\ \/ /\ life[p].acquired
          /\ op' = [op EXCEPT ![p] = [kind |-> what, pc |-> pc, run |-> NoRun]]
          /\ UNCHANGED life
       \/ /\ ~life[p].acquired
          /\ leader = p
          /\ op' = [op EXCEPT ![p] = [kind |-> what, pc |-> "reconcile", run |-> NoRun]]
          /\ life' = [life EXCEPT ![p].acquired = TRUE]
    /\ Serving(p)
    /\ UNCHANGED <<storeVars, leader, coord, stop, task, late, failed, waits, auto>>

\* Seeded fault: ownership is reconciled at every operation.
Enter_AlwaysReconciles(p, what, pc) ==
    /\ coord[p] \in Up
    /\ op[p] = NoOp
    /\ ~life[p].closed
    /\ leader = p
    /\ op' = [op EXCEPT ![p] = [kind |-> what, pc |-> "reconcile", run |-> NoRun]]
    /\ life' = [life EXCEPT ![p].acquired = TRUE]
    /\ Serving(p)
    /\ UNCHANGED <<storeVars, leader, coord, stop, task, late, failed, waits, auto>>

\* ensure_instance_guard, at the head of every operation: the ownership of a
\* process that has just obtained it is reconciled before anything else.  One that
\* holds it already does not ask for the lease again.
Enter(p, what, pc) ==
    /\ coord[p] \in Up
    /\ op[p] = NoOp
    /\ ~life[p].closed
    /\ \/ /\ life[p].acquired
          /\ op' = [op EXCEPT ![p] = [kind |-> what, pc |-> pc, run |-> NoRun]]
          /\ UNCHANGED life
       \/ /\ ~life[p].acquired
          /\ leader = p
          /\ op' = [op EXCEPT ![p] = [kind |-> what, pc |-> "reconcile", run |-> NoRun]]
          /\ life' = [life EXCEPT ![p].acquired = TRUE]
    /\ Serving(p)
    /\ UNCHANGED <<storeVars, leader, coord, stop, task, late, failed, waits, auto>>

\* A request or a scheduled claim with nothing to do would take the lock and
\* give it back: those are left out.
BeginStart(p)  == /\ coord[p] = "activating" /\ ~life[p].started /\ ~life[p].stopping
                  /\ Enter(p, "start", "mark")
BeginCreate(p) == (NoActiveRun \/ Lost(p) # {}) /\ Enter(p, "create", "recover")
BeginCancel(p) == ~NoActiveRun /\ Enter(p, "cancel", "recover")

\* scheduled_tick: it first claims the ownership and later creates or retries a
\* scan, each under the lock, and does neither unless automatic scans are on.
BeginClaim(p) == auto /\ coord[p] = "active" /\ Lost(p) # {} /\ Enter(p, "claim", "recover")
BeginTick(p)  == auto /\ coord[p] = "active" /\ NoActiveRun /\ Enter(p, "tick", "recover")

Leave(p) == op' = [op EXCEPT ![p] = NoOp]

\* The scans a reconciliation ends although they have a task, or an operation about
\* to launch it.
Usurped == {r \in Runs : IsActive(r) /\ (\/ Live(r)
                                        \/ \E p \in Procs : op[p].pc = "launch" /\ op[p].run = r)}

OpReconcile(p) ==
    /\ op[p].pc = "reconcile"
    /\ ReconcileIncompleteRuns
    /\ op' = [op EXCEPT ![p].pc = IF op[p].kind = "start" THEN "mark" ELSE "recover"]
    /\ hist' = [hist EXCEPT !.usurped = @ \cup Usurped]
    /\ UNCHANGED <<leader, coord, life, stop, task, late, failed, waits, auto, faults>>

OpRecover(p) ==
    /\ op[p].pc = "recover"
    /\ Recover(p)
    /\ op' = [op EXCEPT ![p] =
                CASE op[p].kind \in {"create", "tick"} -> [@ EXCEPT !.pc = "insert"]
                  [] op[p].kind = "cancel"             -> [@ EXCEPT !.pc = "request"]
                  [] OTHER                             -> NoOp]
    /\ UNCHANGED <<leader, coord, life, stop, task, late, waits, auto, hist>>

\* MarketScanLifecycle.start
OpMark(p) ==
    /\ op[p].pc = "mark"
    /\ life' = [life EXCEPT ![p].started = TRUE, ![p].quiet = FALSE]
    /\ Leave(p)
    /\ UNCHANGED <<storeVars, leader, coord, stop, task, late, failed, waits, auto,
                   faults, hist>>

\* The INSERT of a full-market scan, of a retry or of a quick refresh.
Insert(r) ==
    \/ \E k \in CreateKinds : CreateRun(r, k)
    \/ \E src \in Runs : PrepareRetry(src, r)
    \/ \E src \in Runs, leaders \in SUBSET Symbols : PrepareTop100Refresh(src, r, leaders)

OpInsert(p) ==
    /\ op[p].pc = "insert"
    /\ \E r \in Runs : /\ Insert(r)
                       /\ op[p].kind = "tick" => kind'[r] # "refresh"
                       /\ op' = [op EXCEPT ![p].pc = "launch", ![p].run = r]
    /\ UNCHANGED <<leader, coord, life, stop, task, late, failed, waits, auto, faults, hist>>

\* The operation resumes after its INSERT and launches the task of the run.
OpLaunch(p) ==
    /\ op[p].pc = "launch"
    /\ task' = [task EXCEPT ![op[p].run] = [NoTask EXCEPT !.pc = "new", !.proc = p]]
    /\ Leave(p)
    /\ UNCHANGED <<storeVars, leader, coord, life, stop, late, failed, waits, auto,
                   faults, hist>>

OpRequest(p) ==
    /\ op[p].pc = "request"
    /\ \E r \in Runs :
          /\ RequestCancel(r)
          /\ op' = [op EXCEPT ![p].pc = "cancelLocal", ![p].run = r]
    /\ UNCHANGED <<leader, coord, life, stop, task, late, failed, waits, auto, faults, hist>>

\* cancel_local; the request then gives the lock back and gathers the task.
OpCancelLocal(p) ==
    /\ op[p].pc = "cancelLocal"
    /\ CancelTasks({op[p].run} \cap TasksOf(p), life[p].closed)
    /\ life' = [life EXCEPT ![p] = Quieted(p, @, task')]
    /\ waits' = waits \cup {<<p, op[p].run>>}
    /\ Leave(p)
    /\ UNCHANGED <<storeVars, leader, coord, stop, failed, auto, faults, hist>>

\* The request is refused or finds that somebody else was faster.
OpRefused(p) ==
    /\ \/ op[p].pc = "insert"
       \/ (op[p].pc = "request" /\ NoActiveRun)
    /\ Leave(p)
    /\ UNCHANGED <<storeVars, leader, coord, life, stop, task, late, failed,
                   waits, auto, faults, hist>>

\* Seeded fault: a task that never ran is trusted to have written its end.
CancelSettles_Trusting(p, r) ==
    /\ <<p, r>> \in waits
    /\ r \notin TasksOf(p)
    /\ waits' = waits \ {<<p, r>>}
    /\ UNCHANGED <<storeVars, leader, coord, life, op, stop, task, late, failed, auto,
                   faults, hist>>

\* The rest of cancel_scan, after its task has ended and without the lock.
CancelSettles(p, r) ==
    /\ <<p, r>> \in waits
    /\ r \notin TasksOf(p)
    /\ waits' = waits \ {<<p, r>>}
    /\ IF status[r] = "cancelling"
       THEN TrackedFinish(p, r, Verdict("cancelled"))
       ELSE UNCHANGED <<storeVars, failed, faults>>
    /\ UNCHANGED <<leader, coord, life, op, stop, task, late, auto, hist>>

-----------------------------------------------------------------------------
(* _execute_run, the background task of a scan.                            *)

Goto(r, pc) == task' = [task EXCEPT ![r].pc = pc]

\* The task returns and _task_done forgets it.
Ends(r) ==
    /\ task' = [task EXCEPT ![r] = NoTask]
    /\ life' = [life EXCEPT ![task[r].proc] = Quieted(task[r].proc, @, task')]

TaskCommon == UNCHANGED <<leader, coord, op, stop, late, waits, auto, hist>>
TaskLocal  == TaskCommon /\ UNCHANGED <<life, failed, faults>>

TaskBegins(r) ==
    /\ task[r].pc = "new"
    /\ Goto(r, "attach")
    /\ UNCHANGED storeVars /\ TaskLocal

TaskAttaches(r) ==
    /\ task[r].pc = "attach"
    /\ CreateAndAttachTaskRun(r)
    /\ Goto(r, "start")
    /\ TaskLocal

\* A refresh brings its shares with it; any other scan needs the stock pool.
TaskStarts(r) ==
    /\ task[r].pc = "start"
    /\ StartRun(r)
    /\ Goto(r, IF kind[r] = "refresh" /\ Pending(result[r]) # {} THEN "save" ELSE "pool")
    /\ TaskLocal

TaskRecordsPool(r) ==
    /\ task[r].pc = "pool"
    /\ \E stale \in PoolStale : RecordStockPoolSource(r, stale)
    /\ Goto(r, IF Pending(result[r]) # {} THEN "save" ELSE "seed")
    /\ TaskLocal

TaskSeeds(r) ==
    /\ task[r].pc = "seed"
    /\ SeedResults(r)
    /\ Goto(r, "save")
    /\ TaskLocal

TaskSaves(r) ==
    /\ task[r].pc = "save"
    /\ \E batch \in SUBSET Symbols :
          /\ \E outcome \in [batch -> Scores] : SaveResultBatch(r, batch, outcome)
          /\ Goto(r, IF Pending(result[r]) = batch THEN "decide" ELSE "save")
    /\ TaskLocal

\* completion_status, for an assessment of the score distribution and with or
\* without a coverage or freshness blocker.
CompletionStatus(rows, stale, assessment, blocked) ==
    IF ~Processed(rows) \/ blocked \/ assessment = "failed" \/ Successes(rows) = {}
    THEN "failed"
    ELSE IF ~CleanSuccess(rows, stale) \/ assessment = "degraded"
         THEN "degraded" ELSE "success"

Assessments == {"pass", "degraded", "failed", "not-evaluated"}

TaskDecides(r) ==
    /\ task[r].pc = "decide"
    /\ \E assessment \in Assessments, blocked \in BOOLEAN :
          LET st == CompletionStatus(result[r], stalePool[r], assessment, blocked)
          IN  task' = [task EXCEPT ![r].pc   = "finish",
                                   ![r].want = [st |-> st,
                                                auth |-> st \in Published
                                                         /\ assessment = "pass"]]
    /\ UNCHANGED storeVars /\ TaskLocal

\* A provider or database error, a budget or the publication window ends the
\* work; within the terminal write only the publication window does.
TaskRaises(r) ==
    /\ \/ task[r].pc \in Working \ {"finish"}
       \/ (task[r].pc = "finish" /\ task[r].want.st \in Published)
    /\ task' = [task EXCEPT ![r].pc = "fail", ![r].want = Verdict("failed")]
    /\ UNCHANGED storeVars /\ TaskLocal

\* The three terminal writes of a task: completed, failed, cancelled or
\* interrupted.  Whatever becomes of the write, the task ends.
TaskFinishes(r) ==
    /\ task[r].pc \in {"finish"} \cup Ending
    /\ TrackedFinish(task[r].proc, r, task[r].want)
    /\ Ends(r)
    /\ TaskCommon

\* A call that nobody awaits gets to the database, or is refused there; an INSERT
\* may also be refused for the scan it would build on.
LateGuard(w) ==
    CASE w.call = "attach" -> status[w.run] = "queued" /\ taskRow[w.run] = "none"
      [] w.call = "start"  -> status[w.run] = "queued"
      [] w.call = "pool"   -> status[w.run] \in {"queued", "running"}
      [] w.call = "seed"   -> status[w.run] = "running"
      [] w.call = "save"   -> status[w.run] = "running" /\ Pending(result[w.run]) # {}
      [] w.call = "finish" -> ~Rejected(w.run, w.want)
      [] w.call = "insert" -> FALSE
      [] OTHER             -> TRUE

LateCommit(w) ==
    \/ /\ \/ w.call = "attach"  /\ CreateAndAttachTaskRun(w.run)
          \/ w.call = "start"   /\ StartRun(w.run)
          \/ w.call = "pool"    /\ \E stale \in PoolStale : RecordStockPoolSource(w.run, stale)
          \/ w.call = "seed"    /\ SeedResults(w.run)
          \/ w.call = "save"    /\ \E batch \in SUBSET Symbols :
                                      \E outcome \in [batch -> Scores] :
                                         SaveResultBatch(w.run, batch, outcome)
          \/ w.call = "finish"  /\ FinishRun(w.run, w.want.st, w.want.auth)
          \/ w.call = "orphans" /\ ReconcileOrphanedTaskRuns
       /\ UNCHANGED hist
    \/ /\ w.call = "insert"
       /\ \E r \in Runs : Insert(r) /\ hist' = [hist EXCEPT !.adrift = @ \cup {r}]
    \/ /\ w.call = "reconcile"
       /\ ReconcileIncompleteRuns
       /\ hist' = [hist EXCEPT !.usurped = @ \cup Usurped]

LateWrite(w) ==
    /\ late' = late \ {w}
    /\ IF w.tracked
       THEN TrackedFinish(w.proc, w.run, w.want) /\ UNCHANGED hist
       ELSE /\ \/ LateCommit(w)
               \/ ~LateGuard(w) /\ UNCHANGED <<storeVars, hist>>
            /\ UNCHANGED <<failed, faults>>
    /\ UNCHANGED <<leader, coord, life, op, stop, task, waits, auto>>

-----------------------------------------------------------------------------
(* Leadership: RuntimeCoordinator takes the lease over, activates the      *)
(* scanner and then the scheduler, and rolls a failed activation back.     *)

TakeLease(p) ==
    /\ coord[p] = "standby"
    /\ leader = NoProc
    /\ leader' = p
    /\ coord' = [coord EXCEPT ![p] = "activating"]
    /\ UNCHANGED <<storeVars, life, op, stop, task, late, failed, waits, auto, faults, hist>>

\* The rest of MarketScanManager.start, without the lock.
ScannerStarted(p) ==
    /\ coord[p] = "activating"
    /\ life[p].started
    /\ Recover(p)
    /\ coord' = [coord EXCEPT ![p] = "starting"]
    /\ UNCHANGED <<leader, life, op, stop, task, late, waits, auto, hist>>

\* SchedulerService.start, or nothing when the scheduler is disabled.
Activate(p) ==
    /\ coord[p] = "starting"
    /\ ReconcileOrphanedTaskRuns \/ UNCHANGED storeVars
    /\ coord' = [coord EXCEPT ![p] = "active"]
    /\ UNCHANGED <<leader, life, op, stop, task, late, failed, waits, auto, faults, hist>>

StopFrom(p, state) ==
    /\ coord' = [coord EXCEPT ![p] = state]
    /\ stop'  = [stop EXCEPT ![p].pc = "scheduler"]

\* The reconciliation of a fresh owner raises: the guard is given back, and a
\* start is rolled back.
ReconcileFails(p) ==
    /\ op[p].pc = "reconcile"
    /\ CanFail("activation")
    /\ faults' = faults + 1
    /\ life' = [life EXCEPT ![p].acquired = FALSE]
    /\ Leave(p)
    /\ IF op[p].kind = "start" THEN StopFrom(p, "rolling") ELSE UNCHANGED <<coord, stop>>
    /\ UNCHANGED <<storeVars, leader, task, late, failed, waits, auto, hist>>

\* SchedulerService.start raises, or finds manual work in its way and declines.
SchedulerFails(p) ==
    /\ coord[p] = "starting"
    /\ CanFail("activation")
    /\ faults' = faults + 1
    /\ StopFrom(p, "rolling")
    /\ UNCHANGED <<storeVars, leader, life, op, task, late, failed, waits, auto, hist>>

\* The writes a cancelled operation, or a cancelled activation, leaves to a
\* worker thread that has begun them.
Recoveries(p) ==
    IF Owns(p) THEN {[Unbound(p, "finish") EXCEPT !.run = r, !.want = Verdict("interrupted"),
                                                  !.tracked = TRUE] : r \in Lost(p)}
               ELSE {}

LeftByTick(p) ==
    CASE op[p].pc = "recover" -> Recoveries(p)
      [] op[p].pc = "insert"  -> {Unbound(p, "insert")}
      [] OTHER                -> {}

Reconciling(p) == op[p].kind = "start" /\ op[p].pc = "reconcile"

LeftByActivation(p) ==
    CASE coord[p] = "starting" -> {Unbound(p, "orphans")}
      [] Reconciling(p)        -> {Unbound(p, "reconcile")}
      [] life[p].started       -> Recoveries(p)
      [] OTHER                 -> {}

\* A shutdown cancels the activation it finds under way.
ShutdownActivation(p) ==
    /\ coord[p] \in {"activating", "starting"}
    /\ op[p].pc # "mark"
    /\ Abandon(LeftByActivation(p), {})
    /\ IF Reconciling(p)
       THEN Leave(p) /\ life' = [life EXCEPT ![p].acquired = FALSE]
       ELSE UNCHANGED <<op, life>>
    /\ StopFrom(p, "folding")
    /\ UNCHANGED <<storeVars, leader, task, failed, waits, auto, faults, hist>>

Shutdown(p) ==
    /\ \/ coord[p] = "active" /\ StopFrom(p, "closing")
       \/ /\ coord[p] \in {"standby", "rolling", "yielding"}
          /\ coord' = [coord EXCEPT ![p] = CASE @ = "standby" -> "stopped"
                                             [] @ = "rolling" -> "folding"
                                             [] OTHER         -> "releasing"]
          /\ UNCHANGED stop
    /\ UNCHANGED <<storeVars, leader, life, op, task, late, failed, waits, auto, faults, hist>>

-----------------------------------------------------------------------------
(* _stop_services: the scheduler first, then MarketScanManager._stop, which *)
(* closes the manager in a shutdown and leaves it open in a rollback.       *)

\* SchedulerService.stop cancels a tick that has not ended by itself.
TickCancelled(p) ==
    /\ stop[p].pc = "scheduler"
    /\ op[p].kind \in {"tick", "claim"}
    /\ Abandon(LeftByTick(p), {})
    /\ hist' = IF op[p].pc = "launch" THEN [hist EXCEPT !.adrift = @ \cup {op[p].run}]
                                      ELSE hist
    /\ Leave(p)
    /\ UNCHANGED <<storeVars, leader, coord, life, stop, task, failed, waits, auto, faults>>

\* The scheduler is stopped; MarketScanManager._stop starts with the recovery.
StopRecovers(p) ==
    /\ stop[p].pc = "scheduler"
    /\ op[p].kind \notin {"tick", "claim"}
    /\ Recover(p)
    /\ stop' = [stop EXCEPT ![p].pc = "begin"]
    /\ UNCHANGED <<leader, coord, life, op, task, late, waits, auto, hist>>

Idle(p) == ~life[p].started /\ ~life[p].acquired /\ TasksOf(p) = {}

\* begin_stop: nothing to stop, or every task is cancelled and remembered.
StopBegins(p) ==
    /\ stop[p].pc = "begin"
    /\ op[p] = NoOp
    /\ LET closed == life[p].closed \/ coord[p] = "closing"
       IN  IF Idle(p)
           THEN /\ life' = [life EXCEPT ![p].closed = closed, ![p].quiet = TRUE]
                /\ stop' = [stop EXCEPT ![p] = NoStop]
                /\ UNCHANGED <<task, late, hist>>
           ELSE /\ life' = [life EXCEPT ![p].closed = closed, ![p].stopping = TRUE,
                                        ![p].quiet = FALSE]
                /\ CancelTasks(TasksOf(p), closed)
                /\ stop' = [stop EXCEPT ![p] = [pc |-> "wait", runs |-> TasksOf(p)]]
                /\ hist' = IF closed THEN hist
                           ELSE [hist EXCEPT !.undone = @ \cup TasksOf(p)]
    /\ UNCHANGED <<storeVars, leader, coord, op, failed, waits, auto, faults>>

\* _finish_stop: every task of the snapshot has ended, and a run one of them
\* left active is interrupted here.
StopSettles(p) ==
    /\ stop[p].pc = "wait"
    /\ stop[p].runs \cap TasksOf(p) = {}
    /\ IF \E r \in stop[p].runs : IsActive(r)
       THEN \E r \in stop[p].runs :
              IsActive(r) /\ TrackedFinish(p, r, Verdict("interrupted"))
       ELSE UNCHANGED <<storeVars, failed, faults>>
    /\ stop' = [stop EXCEPT ![p] = [pc |-> "leave", runs |-> {}]]
    /\ UNCHANGED <<leader, coord, life, op, task, late, waits, auto, hist>>

\* Seeded fault: finish_stop reopens the manager instead of giving the guard up.
StopEnds_Reopens(p) ==
    /\ stop[p].pc = "leave"
    /\ op[p] = NoOp
    /\ stop' = [stop EXCEPT ![p] = NoStop]
    /\ life' = [life EXCEPT ![p] =
                  Quieted(p, [@ EXCEPT !.started = FALSE, !.closed = FALSE,
                                       !.stopping = FALSE], task)]
    /\ UNCHANGED <<storeVars, leader, coord, op, task, late, failed, waits, auto,
                   faults, hist>>

\* finish_stop
StopEnds(p) ==
    /\ stop[p].pc = "leave"
    /\ op[p] = NoOp
    /\ stop' = [stop EXCEPT ![p] = NoStop]
    /\ life' = [life EXCEPT ![p] =
                  Quieted(p, [@ EXCEPT !.started = FALSE, !.acquired = FALSE,
                                       !.stopping = FALSE], task)]
    /\ UNCHANGED <<storeVars, leader, coord, op, task, late, failed, waits, auto,
                   faults, hist>>

\* The final stop after a rollback that has not brought the services to rest: a
\* second _stop, or one that finds the rollback's still waiting for its tasks and
\* closes the manager under it.
FinalStop(p) ==
    /\ coord[p] = "folding"
    /\ \/ /\ stop[p] = NoStop
          /\ ~life[p].quiet
          /\ StopFrom(p, "closing")
          /\ UNCHANGED <<storeVars, failed, faults, life>>
       \/ /\ stop[p].pc \in {"wait", "leave"}
          /\ op[p] = NoOp
          /\ Recover(p)
          /\ life' = [life EXCEPT ![p].closed = TRUE]
          /\ coord' = [coord EXCEPT ![p] = "closing"]
          /\ UNCHANGED stop
    /\ UNCHANGED <<leader, op, task, late, waits, auto, hist>>

\* The services are seen quiescent, and only then is the lease given up, on a
\* worker thread.
ReleaseLease(p) ==
    /\ coord[p] \in {"closing", "rolling", "folding"}
    /\ stop[p] = NoStop
    /\ life[p].quiet
    /\ coord' = [coord EXCEPT ![p] = IF @ = "rolling" THEN "yielding" ELSE "releasing"]
    /\ UNCHANGED <<storeVars, leader, life, op, stop, task, late, failed, waits, auto,
                   faults, hist>>

LeaseReleased(p) ==
    /\ coord[p] \in {"releasing", "yielding"}
    /\ leader' = NoProc
    /\ coord' = [coord EXCEPT ![p] = IF @ = "yielding" THEN "standby" ELSE "stopped"]
    /\ UNCHANGED <<storeVars, life, op, stop, task, late, failed, waits, auto, faults, hist>>

-----------------------------------------------------------------------------
(* The end of a process.                                                   *)

\* The memory of a process is gone, the threads and the flock with it.  What comes
\* up again, whenever it does, is a process on standby.
Vanish(p) ==
    /\ coord'  = [coord EXCEPT ![p] = "standby"]
    /\ leader' = IF leader = p THEN NoProc ELSE leader
    /\ life'   = [life EXCEPT ![p] = FreshLife]
    /\ op'     = [op EXCEPT ![p] = NoOp]
    /\ stop'   = [stop EXCEPT ![p] = NoStop]
    /\ task'   = [r \in Runs |-> IF task[r].proc = p THEN NoTask ELSE task[r]]
    /\ late'   = {w \in late : w.proc # p}
    /\ failed' = [failed EXCEPT ![p] = {}]
    /\ waits'  = {w \in waits : w[1] # p}
    /\ UNCHANGED <<storeVars, auto, hist>>

Crash(p) ==
    /\ coord[p] \in Up
    /\ CanFail("crash")
    /\ faults' = faults + 1
    /\ Vanish(p)

\* The event loop cancels what is left when it ends: a scan that was launched in
\* a rollback and not stopped since.
LoopEnds(p) ==
    /\ coord[p] = "stopped"
    /\ \E r \in TasksOf(p) : task[r].pc # "wind"
    /\ CancelTasks(TasksOf(p), life[p].closed)
    /\ hist' = [hist EXCEPT !.undone = @ \cup TasksOf(p)]
    /\ UNCHANGED <<storeVars, leader, coord, life, op, stop, failed, waits, auto, faults>>

\* The interpreter joins its worker threads before it exits.
Exit(p) ==
    /\ coord[p] = "stopped"
    /\ TasksOf(p) = {}
    /\ \A w \in late : w.proc # p
    /\ UNCHANGED faults
    /\ Vanish(p)

-----------------------------------------------------------------------------
TaskStep(r) ==
    \/ TaskBegins(r) \/ TaskAttaches(r) \/ TaskStarts(r) \/ TaskRecordsPool(r)
    \/ TaskSeeds(r) \/ TaskSaves(r) \/ TaskDecides(r) \/ TaskRaises(r)
    \/ TaskFinishes(r)

OpStep(p) ==
    \/ OpReconcile(p) \/ OpRecover(p) \/ OpMark(p) \/ OpInsert(p) \/ OpLaunch(p)
    \/ OpRequest(p) \/ OpCancelLocal(p) \/ OpRefused(p)

RequestStep(p) == BeginCreate(p) \/ BeginCancel(p) \/ BeginClaim(p) \/ BeginTick(p)

StopStep(p) ==
    \/ TickCancelled(p) \/ StopRecovers(p) \/ StopBegins(p)
    \/ StopSettles(p) \/ StopEnds(p) \/ FinalStop(p)

LeaseStep(p) ==
    \/ TakeLease(p) \/ BeginStart(p) \/ ScannerStarted(p) \/ Activate(p)
    \/ ReconcileFails(p) \/ SchedulerFails(p)
    \/ Shutdown(p) \/ ShutdownActivation(p) \/ ReleaseLease(p) \/ LeaseReleased(p)
    \/ Crash(p) \/ LoopEnds(p) \/ Exit(p)

ManagerNext ==
    \/ \E r \in Runs : TaskStep(r)
    \/ \E w \in late : LateWrite(w)
    \/ \E p \in Procs : \/ RequestStep(p) \/ OpStep(p) \/ StopStep(p) \/ LeaseStep(p)
                        \/ \E r \in Runs : CancelSettles(p, r)

ManagerSpec == ManagerInit /\ [][ManagerNext]_vars

(* The event loop runs every coroutine that is ready and a worker thread   *)
(* runs every call (weak fairness); asyncio.Lock serves its waiters in     *)
(* order, so an operation that keeps asking for it gets it (strong         *)
(* fairness); the standby loop keeps polling, an operator having restarted *)
(* the process where it was down.  The scheduled claim is fair only where `auto'    *)
(* enables it: then trading days come and its tick asks again, otherwise   *)
(* nothing stands for it.  Nobody is bound to ask for scans, cancellations *)
(* or a shutdown, and nothing has to fail.                                 *)
Fairness ==
    /\ \A r \in Runs : WF_vars(TaskStep(r))
    /\ WF_vars(\E w \in late : LateWrite(w))
    /\ \A p \in Procs :
          /\ WF_vars(OpStep(p))
          /\ WF_vars(\E r \in Runs : CancelSettles(p, r))
          /\ SF_vars(BeginClaim(p) \/ BeginStart(p))
          /\ SF_vars(StopStep(p))
          /\ WF_vars(TakeLease(p)) /\ WF_vars(ScannerStarted(p)) /\ WF_vars(Activate(p))
          /\ WF_vars(ReleaseLease(p)) /\ WF_vars(LeaseReleased(p))
          /\ WF_vars(LoopEnds(p)) /\ WF_vars(Exit(p))

FairManagerSpec == ManagerSpec /\ Fairness

-----------------------------------------------------------------------------
(* Safety.  A rollback leaves the manager open while it gives the lease    *)
(* up.  The properties below say what holds of a process as long as it has *)
(* served nothing in that window, and which scans pay for it otherwise.    *)

\* A background task of a scan runs only in the process that holds the runtime
\* lease, through crashes, shutdowns and rollbacks; a process that let a request
\* into the window of its rollback is the only exception.
LeaseCoversTasks ==
    \A r \in Runs : Live(r) => leader = task[r].proc \/ task[r].proc \in hist.intruded

\* A process that reconciles what it took over finds no scan that still has a
\* task, its own or another process's, unless one of the two let a request into
\* the window of its rollback.
TakeoverFindsNoTask ==
    \A p \in Procs, r \in Runs :
        op[p].pc = "reconcile" /\ Live(r) => {p, task[r].proc} \cap hist.intruded # {}

\* One scan at a time computes: MarketScanExecutor keeps the back-pressure and
\* the stage timings of the scan in progress in fields of the one instance all
\* scans share, and resets them when the next scan begins.  Only a scan that a
\* reconciliation ended under its task may compute beside another one, as long as
\* nothing was served in the window of a rollback.
OneScanComputes ==
    hist.intruded = {} =>
    \A r1, r2 \in Runs :
        task[r1].pc \in Working /\ task[r2].pc \in Working /\ r1 # r2
        => {r1, r2} \cap hist.usurped # {}

\* An active run always has somebody who will end it: in the process with the
\* lease the operation about to launch it, its task, a detached terminal write, a
\* cancel request, a stop or the recovery list; or else the next process to
\* reconcile.
WillEnd(p, r) ==
    \/ r \in TasksOf(p) \/ r \in failed[p] \/ <<p, r>> \in waits
    \/ op[p].pc \in {"launch", "cancelLocal"} /\ op[p].run = r
    \/ stop[p].pc = "wait" /\ r \in stop[p].runs
    \/ \E w \in late : w.proc = p /\ w.run = r /\ w.tracked

\* The exception is a run whose INSERT outlived the tick that awaited it: nobody
\* has launched it, and it stays queued.
ActiveRunHasOwner ==
    hist.intruded = {} =>
    \A r \in Runs : IsActive(r) =>
        \/ leader = NoProc
        \/ ~life[leader].acquired \/ op[leader].pc = "reconcile"
        \/ WillEnd(leader, r)
        \/ r \in hist.adrift /\ status[r] = "queued"

\* A scan recorded as cancelled is one a user asked to cancel, or one whose task a
\* rollback or the end of the event loop cancelled while the manager was open; a
\* shutdown, a crash or a lost write is recorded as an interruption.
CancelledOnlyOnRequest ==
    \A r \in Runs : status[r] = "cancelled" => cancelAsked[r] \/ r \in hist.undone

\* The lease is kept until the old tasks and their worker threads are still.
LeaseCoversWork ==
    /\ LeaseCoversTasks
    /\ \A w \in late : w.run # NoRun => leader = w.proc \/ w.proc \in hist.intruded

\* A cancellation that was accepted wins over a success that arrives late.
CancelWinsOverLateSuccess ==
    [][\A r \in Runs : status[r] = "cancelling" => status'[r] \notin Published]_vars

\* What the publication decision calls a finished run, the store accepts.
DecisionIsAccepted ==
    \A r \in Runs : task[r].pc = "finish" => ~Rejected(r, task[r].want)

(* Liveness.                                                               *)

\* A run whose terminal write was lost, in a process that ticks for nothing.
WaitsForRequest(r) == ~auto /\ \E p \in Procs : r \in failed[p]

\* Every scan ends, or is one that nobody launched, or waits on the recovery list
\* of a process whose automatic scans are off; unless from some time on no process
\* becomes active, each being stopped before it does.
EveryScanEnds ==
    []<>(\E p \in Procs : coord[p] = "active") =>
    \A r \in Runs :
        IsActive(r) ~> \/ IsTerminal(r) \/ r \in hist.adrift \/ WaitsForRequest(r)
                      \/ hist.intruded # {}

\* A shutdown gives the lease up in the end, whatever the scans were doing, and so
\* does one that has to wait for a rollback.
ShutdownReleasesLease ==
    \A p \in Procs : coord[p] \in {"folding", "closing"} ~> leader # p
=============================================================================
