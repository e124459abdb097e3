----------------------- MODULE MarketScanManagerProofs -----------------------
(***************************************************************************)
(* Proofs about MarketScanManager, for every set of processes, of runs and *)
(* of shares, whatever fails and whatever a rollback lets in: the          *)
(* processes use the store as MarketScanStore says it may be used, a scan  *)
(* is worked on only under the runtime lease and only by one task, and no  *)
(* scan is left without somebody who will end it.                          *)
(*                                                                         *)
(* The inductive invariant has four layers, each resting on the ones       *)
(* before: LeaseInv relates the lease, the flags and the tasks of a        *)
(* process; VerdictInv says that whoever is about to end a run knows how;  *)
(* OrderInv says which tasks still work on an active run and which only    *)
(* write an end; ManagerInv adds the store and the owner of an active run. *)
(* The first exempts the processes that served something in the window of  *)
(* a rollback, the last two hold as long as there is none.                 *)
(***************************************************************************)
EXTENDS MarketScanManager, MarketScanStoreProofs

-----------------------------------------------------------------------------
(* The invariant.                                                          *)

VerdictType == [st : Terminal \cup {"none"}, auth : BOOLEAN]
TaskType    == [pc   : Working \cup Ending \cup {"none", "new"},
                proc : Procs \cup {NoProc},
                want : VerdictType]
WriteType   == [proc : Procs, run : Runs \cup {NoRun}, call : Writing \cup UnboundCalls,
                want : VerdictType, tracked : BOOLEAN]
LifeType    == [closed : BOOLEAN, acquired : BOOLEAN, started : BOOLEAN,
                stopping : BOOLEAN, quiet : BOOLEAN]
OpKinds     == {"none", "start", "create", "tick", "cancel", "claim"}
OpType      == [kind : OpKinds,
                pc   : {"idle", "reconcile", "recover", "mark", "insert", "launch",
                        "request", "cancelLocal"},
                run  : Runs \cup {NoRun}]
StopType    == [pc   : {"none", "scheduler", "begin", "wait", "leave"},
                runs : SUBSET Runs]
HistType    == [intruded : SUBSET Procs, adrift : SUBSET Runs,
                undone : SUBSET Runs, usurped : SUBSET Runs]

\* The operations and the writes that know their run name one.
RunsNamed(o)  == o.pc \in {"launch", "cancelLocal"} => o.run \in Runs
Bound(w)      == /\ w.call \in UnboundCalls <=> w.run = NoRun
                 /\ w.tracked => w.run # NoRun

ProcessTypes ==
    /\ leader \in Procs \cup {NoProc}
    /\ coord  \in [Procs -> Up \cup {"stopped"}]
    /\ life   \in [Procs -> LifeType]
    /\ op     \in [Procs -> OpType]
    /\ \A p \in Procs : RunsNamed(op[p])
    /\ stop   \in [Procs -> StopType]
    /\ task   \in [Runs -> TaskType]
    /\ late   \in SUBSET WriteType
    /\ \A w \in late : Bound(w)
    /\ failed \in [Procs -> SUBSET Runs]
    /\ waits  \in SUBSET (Procs \X Runs)
    /\ auto   \in BOOLEAN
    /\ faults \in 0..MaxFaults
    /\ hist   \in HistType

\* The states of a coordinator that has the lease, and those of a stop.
Held     == Up \ {"standby"}
Stopping == {"rolling", "folding", "closing"}

\* The flags of a process follow its way through the lease, whatever it serves
\* meanwhile.
Phases(p) ==
    /\ leader = p <=> coord[p] \in Held
    /\ stop[p].pc # "none" => coord[p] \in Stopping
    /\ stop[p].pc # "wait" => stop[p].runs = {}
    /\ coord[p] = "closing" /\ stop[p].pc \notin {"scheduler", "begin"} => life[p].closed
    /\ coord[p] \in {"starting", "active"} => life[p].started
    /\ life[p].started => life[p].acquired
    /\ op[p].pc # "idle" => life[p].acquired
    /\ op[p].pc = "reconcile" => ~life[p].started
    /\ Reconciling(p) => coord[p] = "activating"
    /\ op[p].kind \in {"tick", "claim"} => op[p].pc \in {"recover", "insert", "launch"}

\* A process that served nothing in the window of a rollback has the scan guard
\* only under the lease and tasks only under the guard, and has given both up when
\* a stop is over.
Guarded(p) ==
    /\ life[p].acquired => leader = p
    /\ TasksOf(p) # {} => life[p].acquired
    /\ stop[p].pc \in {"wait", "leave"} => op[p].pc = "idle" /\ TasksOf(p) \subseteq stop[p].runs
    /\ coord[p] \in {"yielding", "releasing"} => ~life[p].acquired
    /\ coord[p] \in Stopping /\ stop[p].pc = "none" => ~life[p].acquired

PhasesAgree   == \A p \in Procs : Phases(p)
TasksOwned    == \A r \in Runs : task[r].pc = "none" <=> task[r].proc = NoProc
TasksGuarded  == \A p \in Procs \ hist.intruded : Guarded(p)

LeaseInv == ProcessTypes /\ PhasesAgree /\ TasksOwned /\ TasksGuarded /\ TakeoverFindsNoTask

\* A cancellation of the run has been accepted, or the run has ended.
CancelAccepted(r) == status[r] = "cancelling" \/ IsTerminal(r)

\* The end of the run is left to somebody other than a working task: a detached
\* write, a cancel request, the recovery list or a stop.
Settles(r) ==
    \/ \E w \in late : w.run = r
    \/ \E x \in waits : x[2] = r
    \/ \E p \in Procs : r \in failed[p] \/ r \in stop[p].runs

\* An operation has inserted the run and is about to launch its task.
Launching(r) == \E p \in Procs : op[p].pc = "launch" /\ op[p].run = r

WantOK(want, r) ==
    /\ want.auth => want.st \in Published
    /\ want.st = "cancelled" => CancelAccepted(r) \/ r \in hist.undone

\* Nobody works on a run, or is to end one, that has not been inserted.
RunsKnown ==
    \A r \in Runs : Live(r) \/ Settles(r) \/ Launching(r) \/ r \in hist.adrift
                    => status[r] # "absent"

\* Whoever is about to end a run knows how, and says that it was cancelled only
\* if its cancellation has been accepted or a rollback undid its task.
VerdictsSound ==
    /\ \A r \in Runs :
          /\ WantOK(task[r].want, r)
          /\ task[r].pc \in Ending \cup {"finish"} => task[r].want.st \in Terminal
    /\ \A w \in late :
          /\ w.run # NoRun => WantOK(w.want, w.run)
          /\ w.call = "finish" => w.want.st \in Terminal
          /\ w.tracked => w.call = "finish"

CancelsSound ==
    /\ \A x \in waits : CancelAccepted(x[2])
    /\ \A p \in Procs : op[p].pc = "cancelLocal" => CancelAccepted(op[p].run)
    /\ \A r \in Runs :
          /\ status[r] = "cancelling" => cancelAsked[r]
          /\ status[r] = "cancelled"  => cancelAsked[r] \/ r \in hist.undone

VerdictInv == RunsKnown /\ VerdictsSound /\ CancelsSound

\* No process has served anything in the window of a rollback.
Peace == hist.intruded = {}

\* A task works, or is launched, only for an active run or for one that a
\* reconciliation ended under it.
WorkersActive ==
    \A r \in Runs : task[r].pc \in Working \cup {"new"} \/ Launching(r)
                    => IsActive(r) \/ r \in hist.usurped

\* A run whose end is left to somebody else has no working task and gets none.
SettlersWait ==
    \A r \in Runs : Settles(r) => task[r].pc \in Ending \cup {"none"} /\ ~Launching(r)

LaunchesWait ==
    \A r \in Runs : Launching(r) => task[r].pc = "none" /\ (IsActive(r) => status[r] = "queued")

\* A run nobody launched never gets a task, nor a write but one to end it.
AdriftStill ==
    \A r \in hist.adrift :
        ~Live(r) /\ ~Launching(r) /\ \A w \in late : w.run = r => w.call = "finish"

OrderInv == Peace => WorkersActive /\ SettlersWait /\ LaunchesWait /\ AdriftStill

ManagerInv == StoreInv /\ LeaseInv /\ VerdictInv /\ OrderInv /\ ActiveRunHasOwner

-----------------------------------------------------------------------------
(* The processes use the store as it may be used: every step is one call   *)
(* of the store or none.                                                   *)

\* A terminal write somebody keeps the score of is a finish or changes nothing.
LEMMA TrackedFinishIsFinish ==
    ASSUME NEW p \in Procs, NEW r \in Runs, NEW want \in VerdictType,
           want.st \in Terminal, want.auth => want.st \in Published,
           TrackedFinish(p, r, want)
    PROVE  [Next]_storeVars
<1>1. CASE Persisted(p, r, want)
  <2>1. FinishRun(r, want.st, want.auth) /\ want.auth \in BOOLEAN
    BY <1>1 DEF Persisted, VerdictType
  <2> QED BY <2>1 DEF Finish, Next
<1>2. CASE NotPersisted(p, r, want)
  BY <1>2 DEF NotPersisted
<1> QED BY <1>1, <1>2 DEF TrackedFinish

LEMMA RecoverIsFinish ==
    ASSUME NEW p \in Procs, ProcessTypes, Recover(p)
    PROVE  [Next]_storeVars
<1>1. \A r \in Lost(p) : r \in Runs
  BY DEF Lost, ProcessTypes
<1>2. ASSUME NEW r \in Runs, FinishRun(r, "interrupted", FALSE)
      PROVE  Next
  BY <1>2 DEF Finish, Next, Terminal
<1> QED BY <1>1, <1>2 DEF Recover

LEMMA InsertIsCreate ==
    ASSUME NEW r \in Runs, Insert(r)
    PROVE  Next
  BY ManagerAssumption DEF Insert, Create, Next

LEMMA LateCommitIsCall ==
    ASSUME NEW w \in late, ProcessTypes, VerdictsSound, LateCommit(w)
    PROVE  Next
<1>1. w \in WriteType /\ Bound(w)
  BY DEF ProcessTypes
<1>2. CASE w.call \in UnboundCalls
  BY <1>2, InsertIsCreate DEF LateCommit, UnboundCalls, Next
<1>3. CASE w.call \notin UnboundCalls
  <2>1. w.run \in Runs /\ w.want.auth \in BOOLEAN
    BY <1>1, <1>3 DEF WriteType, VerdictType, Bound
  <2>2. CASE w.call = "finish" /\ FinishRun(w.run, w.want.st, w.want.auth)
    <3>1. w.want.st \in Terminal /\ (w.want.auth => w.want.st \in Published)
      BY <2>1, <2>2, NoRunAssumption DEF VerdictsSound, WantOK
    <3> QED BY <2>1, <2>2, <3>1 DEF Finish, Next
  <2>3. CASE \E batch \in SUBSET Symbols : \E outcome \in [batch -> Scores] :
                SaveResultBatch(w.run, batch, outcome)
    <3>0. PICK batch \in SUBSET Symbols :
             \E outcome \in [batch -> Scores] : SaveResultBatch(w.run, batch, outcome)
      BY <2>3
    <3>1. PICK outcome \in [batch -> Scores] : SaveResultBatch(w.run, batch, outcome)
      BY <3>0
    <3>2. outcome \in [batch -> Outcome]
      BY ManagerAssumption
    <3> QED BY <2>1, <3>1, <3>2 DEF Progress, Next
  <2>4. ASSUME \/ CreateAndAttachTaskRun(w.run) \/ StartRun(w.run) \/ SeedResults(w.run)
               \/ \E stale \in PoolStale : RecordStockPoolSource(w.run, stale)
        PROVE  Next
    BY <2>1, <2>4, ManagerAssumption DEF Progress, Next
  <2> QED BY <1>3, <2>2, <2>3, <2>4 DEF LateCommit, UnboundCalls
<1> QED BY <1>2, <1>3

LEMMA TaskStepIsCall ==
    ASSUME NEW r \in Runs, ProcessTypes, VerdictsSound, TasksOwned, TaskStep(r)
    PROVE  [Next]_storeVars
<1>1. CASE TaskAttaches(r) \/ TaskStarts(r) \/ TaskRecordsPool(r) \/ TaskSeeds(r)
  BY <1>1, ManagerAssumption
     DEF TaskAttaches, TaskStarts, TaskRecordsPool, TaskSeeds, Progress, Next
<1>2. CASE TaskSaves(r)
  <2>0. PICK batch \in SUBSET Symbols :
           \E outcome \in [batch -> Scores] : SaveResultBatch(r, batch, outcome)
    BY <1>2 DEF TaskSaves
  <2>1. PICK outcome \in [batch -> Scores] : SaveResultBatch(r, batch, outcome)
    BY <2>0
  <2>2. outcome \in [batch -> Outcome]
    BY ManagerAssumption
  <2> QED BY <2>1, <2>2 DEF Progress, Next
<1>3. CASE TaskFinishes(r)
  <2>1. TrackedFinish(task[r].proc, r, task[r].want) /\ task[r].pc \in {"finish"} \cup Ending
    BY <1>3 DEF TaskFinishes
  <2>2. task[r].want \in VerdictType /\ task[r].proc \in Procs \cup {NoProc}
    BY DEF ProcessTypes, TaskType
  <2>3. task[r].proc \in Procs
    BY <2>1, <2>2 DEF TasksOwned, Ending
  <2>4. task[r].want.st \in Terminal /\ (task[r].want.auth => task[r].want.st \in Published)
    BY <2>1 DEF VerdictsSound, WantOK
  <2> QED BY <2>1, <2>2, <2>3, <2>4, TrackedFinishIsFinish
<1>4. CASE TaskBegins(r) \/ TaskDecides(r) \/ TaskRaises(r)
  BY <1>4 DEF TaskBegins, TaskDecides, TaskRaises
<1> QED BY <1>1, <1>2, <1>3, <1>4 DEF TaskStep

LEMMA OpStepIsCall ==
    ASSUME NEW p \in Procs, ProcessTypes, OpStep(p)
    PROVE  [Next]_storeVars
<1>1. CASE OpReconcile(p)
  BY <1>1 DEF OpReconcile, Next
<1>2. CASE OpRecover(p)
  BY <1>2, RecoverIsFinish DEF OpRecover
<1>3. CASE OpInsert(p)
  BY <1>3, InsertIsCreate DEF OpInsert
<1>4. CASE OpRequest(p)
  BY <1>4 DEF OpRequest, Progress, Next
<1>5. CASE OpMark(p) \/ OpLaunch(p) \/ OpCancelLocal(p) \/ OpRefused(p)
  BY <1>5 DEF OpMark, OpLaunch, OpCancelLocal, OpRefused
<1> QED BY <1>1, <1>2, <1>3, <1>4, <1>5 DEF OpStep

LEMMA StopStepIsCall ==
    ASSUME NEW p \in Procs, ProcessTypes, StopStep(p)
    PROVE  [Next]_storeVars
<1>1. CASE StopRecovers(p)
  BY <1>1, RecoverIsFinish DEF StopRecovers
<1>2. CASE StopSettles(p)
  <2>1. Verdict("interrupted") \in VerdictType
    BY DEF Verdict, VerdictType, Terminal
  <2>2. Verdict("interrupted").st \in Terminal /\ ~Verdict("interrupted").auth
    BY DEF Verdict, Terminal
  <2>3. stop[p].runs \subseteq Runs
    BY DEF ProcessTypes, StopType
  <2> QED BY <1>2, <2>1, <2>2, <2>3, TrackedFinishIsFinish DEF StopSettles
<1>3. CASE TickCancelled(p) \/ StopBegins(p) \/ StopEnds(p)
  BY <1>3 DEF TickCancelled, StopBegins, StopEnds
<1>4. CASE FinalStop(p)
  BY <1>4, RecoverIsFinish DEF FinalStop
<1> QED BY <1>1, <1>2, <1>3, <1>4 DEF StopStep

LEMMA LeaseStepIsCall ==
    ASSUME NEW p \in Procs, ProcessTypes, LeaseStep(p)
    PROVE  [Next]_storeVars
<1>1. CASE ScannerStarted(p)
  BY <1>1, RecoverIsFinish DEF ScannerStarted
<1>2. CASE Activate(p)
  BY <1>2 DEF Activate, Next
<1>3. CASE Crash(p) \/ Exit(p)
  BY <1>3 DEF Crash, Exit, Vanish
<1>4. CASE BeginStart(p)
  BY <1>4 DEF BeginStart, Enter
<1>5. CASE \/ TakeLease(p) \/ ReconcileFails(p) \/ SchedulerFails(p) \/ Shutdown(p)
           \/ ShutdownActivation(p) \/ ReleaseLease(p) \/ LeaseReleased(p) \/ LoopEnds(p)
  BY <1>5 DEF TakeLease, ReconcileFails, SchedulerFails, Shutdown, ShutdownActivation,
              ReleaseLease, LeaseReleased, LoopEnds
<1> QED BY <1>1, <1>2, <1>3, <1>4, <1>5 DEF LeaseStep

LEMMA CancelSettlesIsCall ==
    ASSUME NEW p \in Procs, NEW r \in Runs, CancelSettles(p, r)
    PROVE  [Next]_storeVars
<1>1. Verdict("cancelled") \in VerdictType
  BY DEF Verdict, VerdictType, Terminal
<1>2. Verdict("cancelled").st \in Terminal /\ ~Verdict("cancelled").auth
  BY DEF Verdict, Terminal
<1> QED BY <1>1, <1>2, TrackedFinishIsFinish DEF CancelSettles

LEMMA LateWriteIsCall ==
    ASSUME NEW w \in late, ProcessTypes, VerdictsSound, LateWrite(w)
    PROVE  [Next]_storeVars
<1>1. w \in WriteType /\ Bound(w)
  BY DEF ProcessTypes
<1>2. CASE w.tracked
  <2>0. w.call = "finish" /\ w.want.st \in Terminal
    BY <1>2 DEF VerdictsSound
  <2>1. w.want \in VerdictType /\ w.proc \in Procs /\ w.run \in Runs
    BY <1>1, <2>0 DEF WriteType, Bound, UnboundCalls
  <2>2. w.want.auth => w.want.st \in Published
    BY <2>1, NoRunAssumption DEF VerdictsSound, WantOK
  <2> QED BY <1>2, <2>0, <2>1, <2>2, TrackedFinishIsFinish DEF LateWrite
<1>3. CASE ~w.tracked
  BY <1>3, LateCommitIsCall DEF LateWrite
<1> QED BY <1>2, <1>3

LEMMA StepIsCall ==
    ASSUME ProcessTypes, TasksOwned, VerdictsSound, [ManagerNext]_vars
    PROVE  [Next]_storeVars
<1>1. ASSUME NEW p \in Procs, RequestStep(p)
      PROVE  UNCHANGED storeVars
  BY <1>1 DEF RequestStep, BeginCreate, BeginCancel, BeginClaim, BeginTick, Enter
<1>2. CASE UNCHANGED vars
  BY <1>2 DEF vars
<1> QED
  BY <1>1, <1>2, TaskStepIsCall, OpStepIsCall, StopStepIsCall, LeaseStepIsCall,
     CancelSettlesIsCall, LateWriteIsCall DEF ManagerNext

-----------------------------------------------------------------------------
(* What the helpers do to the flags and the tasks of a process.            *)

LEMMA Empties ==
    /\ NoTask \in TaskType /\ NoTask.pc = "none" /\ NoTask.proc = NoProc
    /\ NoTask.want = Undecided
    /\ NoOp \in OpType /\ NoOp.pc = "idle" /\ NoOp.kind = "none" /\ RunsNamed(NoOp)
    /\ NoStop \in StopType /\ NoStop.pc = "none" /\ NoStop.runs = {}
    /\ FreshLife \in LifeType /\ ~FreshLife.closed /\ ~FreshLife.acquired /\ ~FreshLife.started
  BY DEF NoTask, TaskType, Undecided, VerdictType, NoOp, OpType, OpKinds, RunsNamed,
         NoStop, StopType, FreshLife, LifeType

LEMMA Verdicts ==
    ASSUME NEW st \in Terminal
    PROVE  Verdict(st) \in VerdictType /\ Verdict(st).st = st /\ ~Verdict(st).auth
  BY DEF Verdict, VerdictType

\* Becoming quiet is all that Quieted does, and it asks for no task.
LEMMA QuietedIs ==
    ASSUME NEW p \in Procs, NEW l \in LifeType, NEW t
    PROVE  /\ Quieted(p, l, t) \in LifeType
           /\ Quieted(p, l, t).closed = l.closed
           /\ Quieted(p, l, t).acquired = l.acquired
           /\ Quieted(p, l, t).started = l.started
<1>1. CASE Quieted(p, l, t) = l
  BY <1>1
<1>2. CASE Quieted(p, l, t) = [l EXCEPT !.quiet = TRUE]
  BY <1>2 DEF LifeType
<1> QED BY <1>1, <1>2 DEF Quieted

\* A cancelled task goes on to write its end, or is gone.
LEMMA AfterCancelIs ==
    ASSUME NEW t \in TaskType, NEW closed \in BOOLEAN
    PROVE  /\ AfterCancel(t, closed) \in TaskType
           /\ \/ AfterCancel(t, closed) = NoTask
              \/ /\ t.pc \in Working
                 /\ AfterCancel(t, closed).pc = "wind"
                 /\ AfterCancel(t, closed).proc = t.proc
                 /\ ~AfterCancel(t, closed).want.auth
                 /\ AfterCancel(t, closed).want.st =
                       (IF closed THEN "interrupted" ELSE "cancelled")
<1>1. CASE t.pc \in Working
  <2>1. AfterCancel(t, closed) =
           [pc |-> "wind", proc |-> t.proc,
            want |-> [st |-> IF closed THEN "interrupted" ELSE "cancelled", auth |-> FALSE]]
    BY <1>1 DEF AfterCancel, Verdict, TaskType
  <2> QED BY <1>1, <2>1 DEF TaskType, VerdictType, Ending, Terminal
<1>2. CASE t.pc \notin Working
  BY <1>2, Empties DEF AfterCancel
<1> QED BY <1>1, <1>2

\* Cancelling the tasks of S touches no other task; the writes it leaves behind
\* are writes of those tasks, and a tracked one is a terminal write that was
\* under way.
LEMMA CancelTasksIs ==
    ASSUME ProcessTypes, NEW S \in SUBSET Runs, NEW closed \in BOOLEAN,
           \A r \in S : task[r].proc \in Procs,
           CancelTasks(S, closed)
    PROVE  /\ task' \in [Runs -> TaskType]
           /\ late' \in SUBSET WriteType
           /\ \A w \in late' : Bound(w)
           /\ \A r \in Runs \ S : task'[r] = task[r]
           /\ \A r \in S : task'[r] = AfterCancel(task[r], closed)
           /\ late \subseteq late'
           /\ \A w \in late' \ late :
                 /\ w.run \in S /\ w.proc = task[w.run].proc /\ w.want = task[w.run].want
                 /\ \/ w.call = task[w.run].pc /\ task[w.run].pc \in Writing /\ ~w.tracked
                    \/ w.call = "finish" /\ task[w.run].pc = "fail" /\ ~w.tracked
                    \/ w.call = "finish" /\ task[w.run].pc = "wind" /\ w.tracked
           /\ \A r \in S : task[r].pc = "wind" =>
                 \E w \in late' : w.run = r /\ w.proc = task[r].proc /\ w.tracked
<1>0. /\ task \in [Runs -> TaskType] /\ late \in SUBSET WriteType
      /\ \A w \in late : Bound(w)
  BY DEF ProcessTypes
<1>1. task' = [r \in Runs |-> IF r \in S THEN AfterCancel(task[r], closed) ELSE task[r]]
  BY DEF CancelTasks
<1>2. task' \in [Runs -> TaskType]
  BY <1>0, <1>1, AfterCancelIs
<1>3. PICK begun \in SUBSET Abandonable(S) : late' = late \cup begun \cup Detached(S)
  BY DEF CancelTasks, Abandon
<1>4. ASSUME NEW w \in Abandonable(S)
      PROVE  /\ w \in WriteType /\ Bound(w)
             /\ w.run \in S /\ w.proc = task[w.run].proc /\ w.want = task[w.run].want
             /\ \/ w.call = task[w.run].pc /\ task[w.run].pc \in Writing /\ ~w.tracked
                \/ w.call = "finish" /\ task[w.run].pc = "fail" /\ ~w.tracked
  <2>1. ASSUME NEW r \in S, task[r].pc \in Writing, w = Write(r, task[r].pc, FALSE)
        PROVE  /\ w \in WriteType /\ Bound(w)
               /\ w.run \in S /\ w.proc = task[w.run].proc /\ w.want = task[w.run].want
               /\ w.call = task[w.run].pc /\ task[w.run].pc \in Writing /\ ~w.tracked
    BY <1>0, <2>1, NoRunAssumption
       DEF Write, WriteType, TaskType, Bound, Writing, UnboundCalls
  <2>2. ASSUME NEW r \in S, task[r].pc = "fail", w = Write(r, "finish", FALSE)
        PROVE  /\ w \in WriteType /\ Bound(w)
               /\ w.run \in S /\ w.proc = task[w.run].proc /\ w.want = task[w.run].want
               /\ w.call = "finish" /\ task[w.run].pc = "fail" /\ ~w.tracked
    BY <1>0, <2>2, NoRunAssumption
       DEF Write, WriteType, TaskType, Writing, Bound, UnboundCalls
  <2> QED BY <2>1, <2>2 DEF Abandonable
<1>5. ASSUME NEW w \in Detached(S)
      PROVE  /\ w \in WriteType /\ Bound(w)
             /\ w.run \in S /\ w.proc = task[w.run].proc /\ w.want = task[w.run].want
             /\ w.call = "finish" /\ task[w.run].pc = "wind" /\ w.tracked
  <2>1. PICK r \in S : task[r].pc = "wind" /\ w = Write(r, "finish", TRUE)
    BY DEF Detached
  <2> QED BY <1>0, <2>1, NoRunAssumption
          DEF Write, WriteType, TaskType, Writing, Bound, UnboundCalls
<1>6. ASSUME NEW r \in S, task[r].pc = "wind"
      PROVE  \E w \in late' : w.run = r /\ w.proc = task[r].proc /\ w.tracked
  <2>1. Write(r, "finish", TRUE) \in late'
    BY <1>3, <1>6 DEF Detached
  <2> QED BY <2>1 DEF Write
<1>7. late' \in SUBSET WriteType /\ \A w \in late' : Bound(w)
  BY <1>0, <1>3, <1>4, <1>5
<1>8. \A w \in late' \ late : w \in Abandonable(S) \/ w \in Detached(S)
  BY <1>3
<1>9. \A w \in late' \ late :
         /\ w.run \in S /\ w.proc = task[w.run].proc /\ w.want = task[w.run].want
         /\ \/ w.call = task[w.run].pc /\ task[w.run].pc \in Writing /\ ~w.tracked
            \/ w.call = "finish" /\ task[w.run].pc = "fail" /\ ~w.tracked
            \/ w.call = "finish" /\ task[w.run].pc = "wind" /\ w.tracked
  BY <1>4, <1>5, <1>8
<1> QED BY <1>0, <1>1, <1>2, <1>3, <1>6, <1>7, <1>9

\* What a cancelled tick or activation may leave to a worker thread: a call that
\* knows no run, or the end of a run the process remembers as lost.
Left(p, w) ==
    \/ w.call \in UnboundCalls /\ w.run = NoRun /\ ~w.tracked
    \/ /\ w.call = "finish" /\ w.run \in Lost(p) /\ w.tracked
       /\ w.want = Verdict("interrupted")

LEMMA LeftIs ==
    ASSUME ProcessTypes, NEW p \in Procs, NEW w \in LeftByTick(p) \cup LeftByActivation(p)
    PROVE  w \in WriteType /\ Bound(w) /\ w.proc = p /\ Left(p, w)
<1>0. Lost(p) \subseteq Runs
  BY DEF Lost, ProcessTypes
<1>1. ASSUME NEW call \in UnboundCalls, w = Unbound(p, call)
      PROVE  w \in WriteType /\ Bound(w) /\ w.proc = p /\ Left(p, w)
  BY <1>1 DEF Unbound, WriteType, Bound, Left, Undecided, VerdictType
<1>2. ASSUME NEW r \in Lost(p),
             w = [Unbound(p, "finish") EXCEPT !.run = r, !.want = Verdict("interrupted"),
                                              !.tracked = TRUE]
      PROVE  w \in WriteType /\ Bound(w) /\ w.proc = p /\ Left(p, w)
  <2>1. w = [proc |-> p, run |-> r, call |-> "finish", want |-> Verdict("interrupted"),
             tracked |-> TRUE]
    BY <1>2 DEF Unbound
  <2>2. Verdict("interrupted") \in VerdictType
    BY DEF Verdict, VerdictType, Terminal
  <2> QED BY <1>0, <2>1, <2>2, NoRunAssumption DEF WriteType, Bound, Left, Writing, UnboundCalls
<1>3. w \in Recoveries(p) \/ \E call \in UnboundCalls : w = Unbound(p, call)
  BY DEF LeftByTick, LeftByActivation, UnboundCalls
<1>4. w \in Recoveries(p) =>
         \E r \in Lost(p) :
            w = [Unbound(p, "finish") EXCEPT !.run = r, !.want = Verdict("interrupted"),
                                             !.tracked = TRUE]
  BY DEF Recoveries
<1> QED BY <1>1, <1>2, <1>3, <1>4

\* What is abandoned without a task.
LEMMA AbandonIs ==
    ASSUME ProcessTypes, NEW p \in Procs,
           Abandon(LeftByTick(p), {}) \/ Abandon(LeftByActivation(p), {})
    PROVE  /\ late \subseteq late'
           /\ late' \in SUBSET WriteType
           /\ \A w \in late' : Bound(w)
           /\ \A w \in late' \ late : w.proc = p /\ Left(p, w)
<1>0. late \in SUBSET WriteType /\ \A w \in late : Bound(w)
  BY DEF ProcessTypes
<1>1. PICK begun \in SUBSET (LeftByTick(p) \cup LeftByActivation(p)) : late' = late \cup begun
  BY DEF Abandon
<1>2. \A w \in begun : w \in WriteType /\ Bound(w) /\ w.proc = p /\ Left(p, w)
  BY LeftIs
<1> QED BY <1>0, <1>1, <1>2

\* A stop begins.
LEMMA StopFromIs ==
    ASSUME ProcessTypes, NEW p \in Procs, NEW state, StopFrom(p, state)
    PROVE  /\ stop' \in [Procs -> StopType]
           /\ \A q \in Procs \ {p} : stop'[q] = stop[q] /\ coord'[q] = coord[q]
           /\ stop'[p].pc = "scheduler" /\ stop'[p].runs = stop[p].runs
           /\ coord'[p] = state
           /\ state \in Up => coord' \in [Procs -> Up \cup {"stopped"}]
<1>0. stop \in [Procs -> StopType] /\ coord \in [Procs -> Up \cup {"stopped"}]
  BY DEF ProcessTypes
<1>1. stop' = [stop EXCEPT ![p] = [stop[p] EXCEPT !.pc = "scheduler"]]
  BY DEF StopFrom
<1>2. coord' = [coord EXCEPT ![p] = state]
  BY DEF StopFrom
<1>3. /\ [stop[p] EXCEPT !.pc = "scheduler"] \in StopType
      /\ [stop[p] EXCEPT !.pc = "scheduler"].pc = "scheduler"
      /\ [stop[p] EXCEPT !.pc = "scheduler"].runs = stop[p].runs
  BY <1>0 DEF StopType
<1> QED BY <1>0, <1>1, <1>2, <1>3

\* One operation is set, or given up.
LEMMA OpSet ==
    ASSUME ProcessTypes, NEW p \in Procs, NEW o \in OpType, RunsNamed(o),
           op' = [op EXCEPT ![p] = o]
    PROVE  /\ op' \in [Procs -> OpType]
           /\ \A q \in Procs : RunsNamed(op'[q])
           /\ op'[p] = o /\ \A q \in Procs \ {p} : op'[q] = op[q]
  BY DEF ProcessTypes

LEMMA LeaveIs ==
    ASSUME ProcessTypes, NEW p \in Procs, Leave(p)
    PROVE  /\ op' \in [Procs -> OpType]
           /\ \A q \in Procs : RunsNamed(op'[q])
           /\ op'[p] = NoOp /\ \A q \in Procs \ {p} : op'[q] = op[q]
  BY Empties, OpSet DEF Leave

\* One process changes its flags.
LEMMA LifeSet ==
    ASSUME ProcessTypes, NEW p \in Procs, NEW l \in LifeType, life' = [life EXCEPT ![p] = l]
    PROVE  /\ life' \in [Procs -> LifeType]
           /\ life'[p] = l /\ \A q \in Procs \ {p} : life'[q] = life[q]
  BY DEF ProcessTypes

-----------------------------------------------------------------------------
(* Types.                                                                  *)

\* The history only grows.
HistGrows ==
    /\ hist' \in HistType
    /\ hist.intruded \subseteq hist'.intruded /\ hist.adrift  \subseteq hist'.adrift
    /\ hist.undone   \subseteq hist'.undone   /\ hist.usurped \subseteq hist'.usurped

LEMMA HistAdds ==
    ASSUME hist \in HistType, NEW P \in SUBSET Procs, NEW R \in SUBSET Runs
    PROVE  /\ hist' = hist => HistGrows
           /\ hist' = [hist EXCEPT !.intruded = @ \cup P] =>
                 /\ HistGrows /\ hist'.intruded = hist.intruded \cup P
                 /\ hist'.adrift = hist.adrift /\ hist'.undone = hist.undone
                 /\ hist'.usurped = hist.usurped
           /\ hist' = [hist EXCEPT !.adrift = @ \cup R] =>
                 /\ HistGrows /\ hist'.intruded = hist.intruded
                 /\ hist'.adrift = hist.adrift \cup R /\ hist'.undone = hist.undone
                 /\ hist'.usurped = hist.usurped
           /\ hist' = [hist EXCEPT !.undone = @ \cup R] =>
                 /\ HistGrows /\ hist'.intruded = hist.intruded
                 /\ hist'.adrift = hist.adrift /\ hist'.undone = hist.undone \cup R
                 /\ hist'.usurped = hist.usurped
           /\ hist' = [hist EXCEPT !.usurped = @ \cup R] =>
                 /\ HistGrows /\ hist'.intruded = hist.intruded
                 /\ hist'.adrift = hist.adrift /\ hist'.undone = hist.undone
                 /\ hist'.usurped = hist.usurped \cup R
<1>1. CASE hist' = hist
  BY <1>1 DEF HistGrows, HistType
<1>2. CASE hist' = [hist EXCEPT !.intruded = @ \cup P]
  BY <1>2 DEF HistGrows, HistType
<1>3. CASE hist' = [hist EXCEPT !.adrift = @ \cup R]
  BY <1>3 DEF HistGrows, HistType
<1>4. CASE hist' = [hist EXCEPT !.undone = @ \cup R]
  BY <1>4 DEF HistGrows, HistType
<1>5. CASE hist' = [hist EXCEPT !.usurped = @ \cup R]
  BY <1>5 DEF HistGrows, HistType
<1> QED BY <1>1, <1>2, <1>3, <1>4, <1>5

LEMMA RecoverTypes ==
    ASSUME ProcessTypes, NEW p \in Procs, Recover(p)
    PROVE  failed' \in [Procs -> SUBSET Runs] /\ faults' \in 0..MaxFaults
<1>1. failed \in [Procs -> SUBSET Runs] /\ faults \in 0..MaxFaults
  BY DEF ProcessTypes
<1>2. failed' = failed \/ failed' = [failed EXCEPT ![p] = failed[p] \ Lost(p)]
  BY DEF Recover
<1>3. faults' = faults \/ (faults < MaxFaults /\ faults' = faults + 1)
  BY DEF Recover, CanFail
<1>4. failed' \in [Procs -> SUBSET Runs]
  BY <1>1, <1>2
<1>5. faults' \in 0..MaxFaults
  BY <1>1, <1>3, ManagerAssumption
<1> QED BY <1>4, <1>5

LEMMA TrackedTypes ==
    ASSUME ProcessTypes, NEW p \in Procs, NEW r \in Runs, NEW want,
           TrackedFinish(p, r, want)
    PROVE  failed' \in [Procs -> SUBSET Runs] /\ faults' \in 0..MaxFaults
  BY ManagerAssumption DEF ProcessTypes, TrackedFinish, Persisted, NotPersisted, CanFail

LEMMA FaultTypes ==
    ASSUME ProcessTypes, NEW fault, CanFail(fault), faults' = faults + 1
    PROVE  faults' \in 0..MaxFaults
  BY ManagerAssumption DEF ProcessTypes, CanFail

LEMMA EndsTypes ==
    ASSUME ProcessTypes, NEW r \in Runs, task[r].proc \in Procs, Ends(r)
    PROVE  life' \in [Procs -> LifeType] /\ task' \in [Runs -> TaskType]
  BY Empties, QuietedIs DEF ProcessTypes, Ends

LEMMA TaskTypes ==
    ASSUME ProcessTypes, TasksOwned, NEW r \in Runs, TaskStep(r)
    PROVE  ProcessTypes'
<1>0. /\ UNCHANGED <<leader, coord, op, stop, late, waits, auto, hist>>
      /\ TaskFinishes(r) \/ UNCHANGED <<life, failed, faults>>
  BY DEF TaskStep, TaskBegins, TaskAttaches, TaskStarts, TaskRecordsPool, TaskSeeds,
         TaskSaves, TaskDecides, TaskRaises, TaskFinishes, TaskLocal, TaskCommon
<1>t. task \in [Runs -> TaskType] /\ task[r] \in TaskType
  BY DEF ProcessTypes
<1>g. ASSUME UNCHANGED <<life, failed, faults>>, task' \in [Runs -> TaskType]
      PROVE  ProcessTypes'
  BY <1>0, <1>g DEF ProcessTypes
<1>1. ASSUME NEW pc \in Working \cup Ending, Goto(r, pc)
      PROVE  task' \in [Runs -> TaskType]
  <2>1. [task[r] EXCEPT !.pc = pc] \in TaskType
    BY <1>t DEF TaskType
  <2>2. task' = [task EXCEPT ![r] = [task[r] EXCEPT !.pc = pc]]
    BY <1>1 DEF Goto
  <2> QED BY <1>t, <2>1, <2>2
<1>2. CASE \/ TaskBegins(r) \/ TaskAttaches(r) \/ TaskStarts(r) \/ TaskRecordsPool(r)
           \/ TaskSeeds(r) \/ TaskSaves(r)
  <2>1. \E pc \in Working \cup Ending : Goto(r, pc)
    BY <1>2 DEF TaskBegins, TaskAttaches, TaskStarts, TaskRecordsPool, TaskSeeds,
                TaskSaves, Working, Writing
  <2>2. UNCHANGED <<life, failed, faults>>
    BY <1>2 DEF TaskBegins, TaskAttaches, TaskStarts, TaskRecordsPool, TaskSeeds,
                TaskSaves, TaskLocal
  <2> QED BY <1>1, <1>g, <2>1, <2>2
<1>3. CASE TaskDecides(r)
  <2>1. PICK assessment \in Assessments, blocked \in BOOLEAN :
          LET st == CompletionStatus(result[r], stalePool[r], assessment, blocked)
          IN  task' = [task EXCEPT ![r].pc   = "finish",
                                   ![r].want = [st |-> st,
                                                auth |-> st \in Published
                                                         /\ assessment = "pass"]]
    BY <1>3 DEF TaskDecides
  <2> DEFINE st == CompletionStatus(result[r], stalePool[r], assessment, blocked)
             verdict == [st |-> st, auth |-> st \in Published /\ assessment = "pass"]
  <2>2. st \in Terminal
    BY DEF CompletionStatus, Terminal, Published
  <2>3. verdict \in VerdictType
    BY <2>2 DEF VerdictType
  <2>4. [task[r] EXCEPT !.pc = "finish", !.want = verdict] \in TaskType
    BY <1>t, <2>3 DEF TaskType, Working, Writing
  <2>5. task' = [task EXCEPT ![r] = [task[r] EXCEPT !.pc = "finish", !.want = verdict]]
    BY <1>t, <2>1
  <2>6. UNCHANGED <<life, failed, faults>>
    BY <1>3 DEF TaskDecides, TaskLocal
  <2>7. task' \in [Runs -> TaskType]
    BY <1>t, <2>4, <2>5
  <2> QED BY <1>g, <2>6, <2>7
<1>4. CASE TaskRaises(r)
  <2>1. Verdict("failed") \in VerdictType
    BY Verdicts DEF Terminal
  <2>2. [task[r] EXCEPT !.pc = "fail", !.want = Verdict("failed")] \in TaskType
    BY <1>t, <2>1 DEF TaskType, Ending
  <2>3. task' = [task EXCEPT ![r] = [task[r] EXCEPT !.pc = "fail", !.want = Verdict("failed")]]
    BY <1>4, <1>t DEF TaskRaises
  <2>4. UNCHANGED <<life, failed, faults>>
    BY <1>4 DEF TaskRaises, TaskLocal
  <2>5. task' \in [Runs -> TaskType]
    BY <1>t, <2>2, <2>3
  <2> QED BY <1>g, <2>4, <2>5
<1>5. CASE TaskFinishes(r)
  <2>1. task[r].proc \in Procs
    BY <1>5, <1>t DEF TaskFinishes, TasksOwned, TaskType, Ending
  <2>2. failed' \in [Procs -> SUBSET Runs] /\ faults' \in 0..MaxFaults
    BY <1>5, <2>1, TrackedTypes DEF TaskFinishes
  <2>3. life' \in [Procs -> LifeType] /\ task' \in [Runs -> TaskType]
    BY <1>5, <2>1, EndsTypes DEF TaskFinishes
  <2> QED BY <1>0, <2>2, <2>3 DEF ProcessTypes
<1> QED BY <1>2, <1>3, <1>4, <1>5 DEF TaskStep

\* What Enter changes: an operation begins, in reconciliation if the process has
\* just obtained the scan guard; in the window of a rollback it intrudes.
LEMMA EnterIs ==
    ASSUME ProcessTypes, NEW p \in Procs, NEW what \in OpKinds \ {"none"},
           NEW pc \in {"mark", "recover"}, Enter(p, what, pc)
    PROVE  /\ UNCHANGED <<storeVars, leader, coord, stop, task, late, failed, waits, auto>>
           /\ op[p] = NoOp /\ ~life[p].closed /\ coord[p] \in Up
           /\ op' \in [Procs -> OpType] /\ life' \in [Procs -> LifeType]
           /\ \A q \in Procs : RunsNamed(op'[q])
           /\ faults' \in 0..MaxFaults
           /\ \A q \in Procs \ {p} : op'[q] = op[q] /\ life'[q] = life[q]
           /\ op'[p].kind = what
           /\ \/ life[p].acquired /\ life' = life /\ op'[p].pc = pc
              \/ /\ ~life[p].acquired /\ leader = p /\ op'[p].pc = "reconcile"
                 /\ life'[p].acquired /\ life'[p].closed = life[p].closed
                 /\ life'[p].started = life[p].started
           /\ HistGrows
           /\ hist'.intruded \subseteq hist.intruded \cup {p}
           /\ RollbackWindow(p) => p \in hist'.intruded
           /\ hist'.adrift = hist.adrift /\ hist'.undone = hist.undone
           /\ hist'.usurped = hist.usurped
<1>0. /\ UNCHANGED <<storeVars, leader, coord, stop, task, late, failed, waits, auto>>
      /\ op[p] = NoOp /\ ~life[p].closed /\ coord[p] \in Up
  BY DEF Enter
<1>1. /\ op \in [Procs -> OpType] /\ life \in [Procs -> LifeType] /\ life[p] \in LifeType
      /\ hist \in HistType /\ faults \in 0..MaxFaults
      /\ \A q \in Procs : RunsNamed(op[q])
  BY DEF ProcessTypes
<1>h. /\ HistGrows /\ faults' \in 0..MaxFaults
      /\ hist'.intruded \subseteq hist.intruded \cup {p}
      /\ RollbackWindow(p) => p \in hist'.intruded
      /\ hist'.adrift = hist.adrift /\ hist'.undone = hist.undone
      /\ hist'.usurped = hist.usurped
  <2>1. {p} \in SUBSET Procs /\ {} \in SUBSET Runs /\ Serving(p)
    BY DEF Enter
  <2>2. CASE RollbackWindow(p)
    <3>1. /\ CanFail("window") /\ faults' = faults + 1
          /\ hist' = [hist EXCEPT !.intruded = @ \cup {p}]
      BY <2>1, <2>2 DEF Serving
    <3>2. /\ HistGrows /\ hist'.intruded = hist.intruded \cup {p}
          /\ hist'.adrift = hist.adrift /\ hist'.undone = hist.undone
          /\ hist'.usurped = hist.usurped
      BY <1>1, <2>1, <3>1, HistAdds
    <3>3. faults' \in 0..MaxFaults
      BY <3>1, FaultTypes
    <3> QED BY <3>2, <3>3
  <2>3. CASE ~RollbackWindow(p)
    <3>1. faults' = faults /\ hist' = hist
      BY <2>1, <2>3 DEF Serving
    <3>2. HistGrows
      BY <1>1, <2>1, <3>1, HistAdds
    <3> QED BY <1>1, <2>3, <3>1, <3>2
  <2> QED BY <2>2, <2>3
<1>2. CASE life[p].acquired
  <2> DEFINE o == [kind |-> what, pc |-> pc, run |-> NoRun]
  <2>1. op' = [op EXCEPT ![p] = o] /\ life' = life
    BY <1>2 DEF Enter
  <2>2. o \in OpType /\ RunsNamed(o) /\ o.kind = what /\ o.pc = pc
    BY DEF OpType, RunsNamed
  <2> HIDE DEF o
  <2>3. /\ op' \in [Procs -> OpType] /\ op'[p] = o
        /\ \A q \in Procs : RunsNamed(op'[q])
        /\ \A q \in Procs \ {p} : op'[q] = op[q]
    BY <2>1, <2>2, OpSet
  <2> QED BY <1>0, <1>1, <1>h, <1>2, <2>1, <2>2, <2>3
<1>3. CASE ~life[p].acquired
  <2> DEFINE o == [kind |-> what, pc |-> "reconcile", run |-> NoRun]
             l == [life[p] EXCEPT !.acquired = TRUE]
  <2>1. leader = p /\ op' = [op EXCEPT ![p] = o] /\ life' = [life EXCEPT ![p] = l]
    BY <1>3 DEF Enter
  <2>2. o \in OpType /\ RunsNamed(o) /\ o.kind = what /\ o.pc = "reconcile"
    BY DEF OpType, RunsNamed
  <2>3. l \in LifeType /\ l.acquired /\ l.closed = life[p].closed /\ l.started = life[p].started
    BY <1>1 DEF LifeType
  <2> HIDE DEF o, l
  <2>4. /\ op' \in [Procs -> OpType] /\ op'[p] = o
        /\ \A q \in Procs : RunsNamed(op'[q])
        /\ \A q \in Procs \ {p} : op'[q] = op[q]
    BY <2>1, <2>2, OpSet
  <2>5. /\ life' \in [Procs -> LifeType] /\ life'[p] = l
        /\ \A q \in Procs \ {p} : life'[q] = life[q]
    BY <2>1, <2>3, LifeSet
  <2> QED BY <1>0, <1>h, <1>3, <2>1, <2>2, <2>3, <2>4, <2>5
<1> QED BY <1>2, <1>3

\* The operations that begin with Enter, and where.
LEMMA Entering ==
    ASSUME NEW p \in Procs, RequestStep(p) \/ BeginStart(p)
    PROVE  \E what \in OpKinds \ {"none"}, pc \in {"mark", "recover"} :
              /\ Enter(p, what, pc)
              /\ what = "start" => coord[p] = "activating" /\ ~life[p].started
              /\ what \in {"tick", "claim"} => coord[p] = "active" /\ pc = "recover"
  BY DEF RequestStep, BeginStart, BeginCreate, BeginCancel, BeginClaim, BeginTick, OpKinds

LEMMA RequestTypes ==
    ASSUME ProcessTypes, NEW p \in Procs, RequestStep(p) \/ BeginStart(p)
    PROVE  ProcessTypes'
<1>1. PICK what \in OpKinds \ {"none"}, pc \in {"mark", "recover"} : Enter(p, what, pc)
  BY Entering
<1> QED BY <1>1, EnterIs DEF ProcessTypes, HistGrows

\* The moves of an operation.
LEMMA OpMoves ==
    ASSUME ProcessTypes, NEW p \in Procs, NEW o, op[p] \in OpType,
           \/ \E pc \in {"mark", "recover", "insert", "request"} : o = [op[p] EXCEPT !.pc = pc]
           \/ \E pc \in {"launch", "cancelLocal"}, r \in Runs :
                 o = [op[p] EXCEPT !.pc = pc, !.run = r]
    PROVE  o \in OpType /\ RunsNamed(o) /\ o.kind = op[p].kind
<1>1. ASSUME NEW pc \in {"mark", "recover", "insert", "request"}, o = [op[p] EXCEPT !.pc = pc]
      PROVE  o \in OpType /\ RunsNamed(o) /\ o.kind = op[p].kind
  BY <1>1 DEF OpType, RunsNamed
<1>2. ASSUME NEW pc \in {"launch", "cancelLocal"}, NEW r \in Runs,
             o = [op[p] EXCEPT !.pc = pc, !.run = r]
      PROVE  o \in OpType /\ RunsNamed(o) /\ o.kind = op[p].kind
  BY <1>2 DEF OpType, RunsNamed
<1> QED BY <1>1, <1>2


LEMMA OpTypes ==
    ASSUME ProcessTypes, NEW p \in Procs, OpStep(p)
    PROVE  ProcessTypes'
<1> DEFINE OpTyped == op' \in [Procs -> OpType] /\ \A q \in Procs : RunsNamed(op'[q])
<1>t. op[p] \in OpType /\ life[p] \in LifeType /\ RunsNamed(op[p])
  BY DEF ProcessTypes
<1>l. Leave(p) => OpTyped
  BY LeaveIs
<1>m. ASSUME NEW pc \in {"mark", "recover", "insert", "request"},
             op' = [op EXCEPT ![p] = [op[p] EXCEPT !.pc = pc]]
      PROVE  OpTyped
  <2> DEFINE o == [op[p] EXCEPT !.pc = pc]
  <2>1. o \in OpType /\ RunsNamed(o)
    BY <1>t, OpMoves
  <2>2. op' = [op EXCEPT ![p] = o]
    BY <1>m
  <2> HIDE DEF o
  <2> QED BY <2>1, <2>2, OpSet
<1>r. ASSUME NEW pc \in {"launch", "cancelLocal"}, NEW r \in Runs,
             op' = [op EXCEPT ![p] = [op[p] EXCEPT !.pc = pc, !.run = r]]
      PROVE  OpTyped
  <2> DEFINE o == [op[p] EXCEPT !.pc = pc, !.run = r]
  <2>1. o \in OpType /\ RunsNamed(o)
    BY <1>t, OpMoves
  <2>2. op' = [op EXCEPT ![p] = o]
    BY <1>r
  <2> HIDE DEF o
  <2> QED BY <2>1, <2>2, OpSet
<1>1. CASE OpReconcile(p)
  <2>1. \E pc \in {"mark", "recover"} : op' = [op EXCEPT ![p] = [op[p] EXCEPT !.pc = pc]]
    BY <1>1, <1>t DEF OpReconcile
  <2>2. OpTyped
    BY <1>m, <2>1
  <2>3. Usurped \in SUBSET Runs
    BY DEF Usurped
  <2>4. hist' \in HistType
    BY <1>1, <2>3, HistAdds DEF OpReconcile, ProcessTypes, HistGrows
  <2> QED BY <1>1, <2>2, <2>4 DEF OpReconcile, ProcessTypes
<1>2. CASE OpRecover(p)
  <2>1. \/ \E pc \in {"insert", "request"} : op' = [op EXCEPT ![p] = [op[p] EXCEPT !.pc = pc]]
        \/ Leave(p)
    BY <1>2 DEF OpRecover, Leave
  <2>2. OpTyped
    BY <1>l, <1>m, <2>1
  <2>3. failed' \in [Procs -> SUBSET Runs] /\ faults' \in 0..MaxFaults
    BY <1>2, RecoverTypes DEF OpRecover
  <2> QED BY <1>2, <2>2, <2>3 DEF OpRecover, ProcessTypes
<1>3. CASE OpMark(p)
  <2> DEFINE l == [life[p] EXCEPT !.started = TRUE, !.quiet = FALSE]
  <2>1. life' = [life EXCEPT ![p] = l]
    BY <1>3 DEF OpMark
  <2>2. l \in LifeType
    BY <1>t DEF LifeType
  <2> HIDE DEF l
  <2>3. life' \in [Procs -> LifeType]
    BY <2>1, <2>2, LifeSet
  <2> QED BY <1>3, <1>l, <2>3 DEF OpMark, ProcessTypes
<1>4. CASE OpInsert(p)
  <2>1. PICK r \in Runs : op' = [op EXCEPT ![p].pc = "launch", ![p].run = r]
    BY <1>4 DEF OpInsert
  <2>2. op' = [op EXCEPT ![p] = [op[p] EXCEPT !.pc = "launch", !.run = r]]
    BY <2>1 DEF ProcessTypes
  <2>3. OpTyped
    BY <1>r, <2>2
  <2> QED BY <1>4, <2>3 DEF OpInsert, ProcessTypes
<1>5. CASE OpLaunch(p)
  <2>1. [NoTask EXCEPT !.pc = "new", !.proc = p] \in TaskType
    BY DEF NoTask, TaskType, Undecided, VerdictType
  <2>2. task' \in [Runs -> TaskType]
    BY <1>5, <2>1 DEF OpLaunch, ProcessTypes
  <2> QED BY <1>5, <1>l, <2>2 DEF OpLaunch, ProcessTypes
<1>6. CASE OpRequest(p)
  <2>1. PICK r \in Runs : op' = [op EXCEPT ![p].pc = "cancelLocal", ![p].run = r]
    BY <1>6 DEF OpRequest
  <2>2. op' = [op EXCEPT ![p] = [op[p] EXCEPT !.pc = "cancelLocal", !.run = r]]
    BY <2>1 DEF ProcessTypes
  <2>3. OpTyped
    BY <1>r, <2>2
  <2> QED BY <1>6, <2>3 DEF OpRequest, ProcessTypes
<1>7. CASE OpCancelLocal(p)
  <2> DEFINE S == {op[p].run} \cap TasksOf(p)
  <2>1. S \in SUBSET Runs /\ \A r \in S : task[r].proc \in Procs
    BY DEF TasksOf
  <2>2. life[p].closed \in BOOLEAN /\ op[p].run \in Runs
    BY <1>t, <1>7 DEF LifeType, OpCancelLocal, RunsNamed
  <2>3. CancelTasks(S, life[p].closed)
    BY <1>7 DEF OpCancelLocal
  <2> HIDE DEF S
  <2>4. task' \in [Runs -> TaskType] /\ late' \in SUBSET WriteType /\ \A w \in late' : Bound(w)
    BY <2>1, <2>2, <2>3, CancelTasksIs
  <2>5. life' \in [Procs -> LifeType]
    <3>1. Quieted(p, life[p], task') \in LifeType
      BY <1>t, QuietedIs
    <3>2. life' = [life EXCEPT ![p] = Quieted(p, life[p], task')]
      BY <1>7 DEF OpCancelLocal
    <3> QED BY <3>1, <3>2, LifeSet
  <2>6. waits' \in SUBSET (Procs \X Runs)
    BY <1>7, <2>2 DEF OpCancelLocal, ProcessTypes
  <2>7. OpTyped /\ UNCHANGED <<leader, coord, stop, failed, auto, faults, hist>>
    BY <1>7, <1>l DEF OpCancelLocal
  <2> QED BY <2>4, <2>5, <2>6, <2>7 DEF ProcessTypes
<1>8. CASE OpRefused(p)
  BY <1>8, <1>l DEF OpRefused, ProcessTypes
<1> QED BY <1>1, <1>2, <1>3, <1>4, <1>5, <1>6, <1>7, <1>8 DEF OpStep

\* What one process sets of its stop.
LEMMA StopSet ==
    ASSUME ProcessTypes, NEW p \in Procs, NEW s \in StopType, stop' = [stop EXCEPT ![p] = s]
    PROVE  /\ stop' \in [Procs -> StopType]
           /\ stop'[p] = s /\ \A q \in Procs \ {p} : stop'[q] = stop[q]
  BY DEF ProcessTypes

\* What begin_stop changes, when there is something to stop and when there is not.
LEMMA StopBeginsIs ==
    ASSUME ProcessTypes, NEW p \in Procs, StopBegins(p)
    PROVE  /\ UNCHANGED <<storeVars, leader, coord, op, failed, waits, auto, faults>>
           /\ stop[p].pc = "begin" /\ op[p] = NoOp
           /\ stop' \in [Procs -> StopType] /\ life' \in [Procs -> LifeType]
           /\ \A q \in Procs \ {p} : life'[q] = life[q] /\ stop'[q] = stop[q]
           /\ life'[p].closed = (life[p].closed \/ coord[p] = "closing")
           /\ life'[p].acquired = life[p].acquired /\ life'[p].started = life[p].started
           /\ \/ /\ Idle(p) /\ stop'[p] = NoStop /\ UNCHANGED <<task, late, hist>>
              \/ /\ ~Idle(p) /\ CancelTasks(TasksOf(p), life'[p].closed)
                 /\ stop'[p] = [pc |-> "wait", runs |-> TasksOf(p)]
                 /\ HistGrows /\ hist'.intruded = hist.intruded
                 /\ hist'.adrift = hist.adrift /\ hist'.usurped = hist.usurped
                 /\ ~life'[p].closed => TasksOf(p) \subseteq hist'.undone
<1> DEFINE closed == life[p].closed \/ coord[p] = "closing"
<1>0. /\ UNCHANGED <<storeVars, leader, coord, op, failed, waits, auto, faults>>
      /\ stop[p].pc = "begin" /\ op[p] = NoOp
  BY DEF StopBegins
<1>t. life[p] \in LifeType /\ hist \in HistType /\ TasksOf(p) \in SUBSET Runs
  BY DEF ProcessTypes, TasksOf
<1>c. closed \in BOOLEAN
  BY <1>t DEF LifeType
<1>1. CASE Idle(p)
  <2> DEFINE l == [life[p] EXCEPT !.closed = closed, !.quiet = TRUE]
  <2>1. /\ life' = [life EXCEPT ![p] = l] /\ stop' = [stop EXCEPT ![p] = NoStop]
        /\ UNCHANGED <<task, late, hist>>
    BY <1>1 DEF StopBegins
  <2>2. /\ l \in LifeType /\ l.closed = closed /\ l.acquired = life[p].acquired
        /\ l.started = life[p].started
    BY <1>t, <1>c DEF LifeType
  <2> HIDE DEF l
  <2>3. life' \in [Procs -> LifeType] /\ life'[p] = l /\ \A q \in Procs \ {p} : life'[q] = life[q]
    BY <2>1, <2>2, LifeSet
  <2>4. /\ stop' \in [Procs -> StopType] /\ stop'[p] = NoStop
        /\ \A q \in Procs \ {p} : stop'[q] = stop[q]
    BY <2>1, Empties, StopSet
  <2> QED BY <1>0, <1>1, <2>1, <2>2, <2>3, <2>4
<1>2. CASE ~Idle(p)
  <2> DEFINE l == [life[p] EXCEPT !.closed = closed, !.stopping = TRUE, !.quiet = FALSE]
             s == [pc |-> "wait", runs |-> TasksOf(p)]
  <2>1. /\ life' = [life EXCEPT ![p] = l] /\ stop' = [stop EXCEPT ![p] = s]
        /\ CancelTasks(TasksOf(p), closed)
        /\ hist' = IF closed THEN hist ELSE [hist EXCEPT !.undone = @ \cup TasksOf(p)]
    BY <1>2 DEF StopBegins
  <2>2. /\ l \in LifeType /\ l.closed = closed /\ l.acquired = life[p].acquired
        /\ l.started = life[p].started
    BY <1>t, <1>c DEF LifeType
  <2>3. s \in StopType
    BY <1>t DEF StopType
  <2> HIDE DEF l
  <2>4. life' \in [Procs -> LifeType] /\ life'[p] = l /\ \A q \in Procs \ {p} : life'[q] = life[q]
    BY <2>1, <2>2, LifeSet
  <2>5. /\ stop' \in [Procs -> StopType] /\ stop'[p] = s
        /\ \A q \in Procs \ {p} : stop'[q] = stop[q]
    BY <2>1, <2>3, StopSet
  <2>6. {} \in SUBSET Procs
    OBVIOUS
  <2>7. /\ HistGrows /\ hist'.intruded = hist.intruded
        /\ hist'.adrift = hist.adrift /\ hist'.usurped = hist.usurped
        /\ ~closed => hist'.undone = hist.undone \cup TasksOf(p)
    BY <1>t, <2>1, <2>6, HistAdds
  <2>8. CancelTasks(TasksOf(p), life'[p].closed)
    BY <2>1, <2>2, <2>4
  <2>9. /\ life'[p].closed = closed /\ life'[p].acquired = life[p].acquired
        /\ life'[p].started = life[p].started
    BY <2>2, <2>4
  <2> QED BY <1>0, <1>2, <2>4, <2>5, <2>7, <2>8, <2>9
<1> QED BY <1>1, <1>2

LEMMA StopTypes ==
    ASSUME ProcessTypes, NEW p \in Procs, StopStep(p)
    PROVE  ProcessTypes'
<1>t. /\ stop[p] \in StopType /\ life[p] \in LifeType /\ op[p] \in OpType /\ hist \in HistType
      /\ RunsNamed(op[p])
  BY DEF ProcessTypes
<1>s. ASSUME NEW pc \in {"begin"}
      PROVE  [stop[p] EXCEPT !.pc = pc] \in StopType
  BY <1>t DEF StopType
<1>1. CASE TickCancelled(p)
  <2>1. /\ late' \in SUBSET WriteType /\ \A w \in late' : Bound(w)
    BY <1>1, AbandonIs DEF TickCancelled
  <2>2. op' \in [Procs -> OpType] /\ \A q \in Procs : RunsNamed(op'[q])
    BY <1>1, LeaveIs DEF TickCancelled
  <2>3. hist' \in HistType
    <3>1. CASE op[p].pc = "launch"
      <4>1. {op[p].run} \in SUBSET Runs /\ {} \in SUBSET Procs
        BY <1>t, <3>1 DEF RunsNamed
      <4>2. hist' = [hist EXCEPT !.adrift = @ \cup {op[p].run}]
        BY <1>1, <3>1 DEF TickCancelled
      <4> QED BY <1>t, <4>1, <4>2, HistAdds DEF HistGrows
    <3>2. CASE op[p].pc # "launch"
      BY <1>1, <1>t, <3>2 DEF TickCancelled
    <3> QED BY <3>1, <3>2
  <2> QED BY <1>1, <2>1, <2>2, <2>3 DEF TickCancelled, ProcessTypes
<1>2. CASE StopRecovers(p)
  <2>1. stop' = [stop EXCEPT ![p] = [stop[p] EXCEPT !.pc = "begin"]]
    BY <1>2 DEF StopRecovers
  <2>2. stop' \in [Procs -> StopType]
    BY <1>s, <2>1, StopSet
  <2>3. failed' \in [Procs -> SUBSET Runs] /\ faults' \in 0..MaxFaults
    BY <1>2, RecoverTypes DEF StopRecovers
  <2> QED BY <1>2, <2>2, <2>3 DEF StopRecovers, ProcessTypes
<1>3. CASE StopBegins(p)
  <2>1. life'[p].closed \in BOOLEAN
    BY <1>3, StopBeginsIs DEF LifeType
  <2>2. TasksOf(p) \in SUBSET Runs /\ \A r \in TasksOf(p) : task[r].proc \in Procs
    BY DEF TasksOf
  <2>3. /\ UNCHANGED <<leader, coord, op, failed, waits, auto, faults>>
        /\ stop' \in [Procs -> StopType] /\ life' \in [Procs -> LifeType]
    BY <1>3, StopBeginsIs
  <2>4. CASE UNCHANGED <<task, late, hist>>
    BY <2>3, <2>4 DEF ProcessTypes
  <2>5. CASE CancelTasks(TasksOf(p), life'[p].closed) /\ HistGrows
    <3>1. task' \in [Runs -> TaskType] /\ late' \in SUBSET WriteType /\ \A w \in late' : Bound(w)
      BY <2>1, <2>2, <2>5, CancelTasksIs
    <3> QED BY <2>3, <2>5, <3>1 DEF ProcessTypes, HistGrows
  <2> QED BY <1>3, <2>4, <2>5, StopBeginsIs
<1>4. CASE StopSettles(p)
  <2>1. [pc |-> "leave", runs |-> {}] \in StopType
    BY DEF StopType
  <2>2. stop' \in [Procs -> StopType]
    BY <1>4, <2>1, StopSet DEF StopSettles
  <2>3. stop[p].runs \subseteq Runs
    BY <1>t DEF StopType
  <2>4. \/ \E r \in Runs : TrackedFinish(p, r, Verdict("interrupted"))
        \/ UNCHANGED <<failed, faults>>
    BY <1>4, <2>3 DEF StopSettles
  <2>5. failed' \in [Procs -> SUBSET Runs] /\ faults' \in 0..MaxFaults
    BY <2>4, TrackedTypes DEF ProcessTypes
  <2> QED BY <1>4, <2>2, <2>5 DEF StopSettles, ProcessTypes
<1>5. CASE StopEnds(p)
  <2> DEFINE l == [life[p] EXCEPT !.started = FALSE, !.acquired = FALSE, !.stopping = FALSE]
  <2>1. l \in LifeType
    BY <1>t DEF LifeType
  <2>2. life' = [life EXCEPT ![p] = Quieted(p, l, task)]
    BY <1>5 DEF StopEnds
  <2> HIDE DEF l
  <2>3. Quieted(p, l, task) \in LifeType
    BY <2>1, QuietedIs
  <2>4. life' \in [Procs -> LifeType]
    BY <2>2, <2>3, LifeSet
  <2>5. stop' \in [Procs -> StopType]
    BY <1>5, Empties, StopSet DEF StopEnds
  <2> QED BY <1>5, <2>4, <2>5 DEF StopEnds, ProcessTypes
<1>6. CASE FinalStop(p)
  <2>1. CASE StopFrom(p, "closing") /\ UNCHANGED <<failed, faults, life>>
    BY <1>6, <2>1, StopFromIs DEF FinalStop, ProcessTypes, Up
  <2>2. CASE /\ Recover(p) /\ UNCHANGED stop
             /\ life' = [life EXCEPT ![p].closed = TRUE]
             /\ coord' = [coord EXCEPT ![p] = "closing"]
    <3>1. failed' \in [Procs -> SUBSET Runs] /\ faults' \in 0..MaxFaults
      BY <2>2, RecoverTypes
    <3>2. [life[p] EXCEPT !.closed = TRUE] \in LifeType
      BY <1>t DEF LifeType
    <3>3. life' \in [Procs -> LifeType]
      BY <2>2, <3>2, LifeSet
    <3>4. coord' \in [Procs -> Up \cup {"stopped"}]
      BY <2>2 DEF ProcessTypes, Up
    <3> QED BY <1>6, <2>2, <3>1, <3>3, <3>4 DEF FinalStop, ProcessTypes
  <2> QED BY <1>6, <2>1, <2>2 DEF FinalStop
<1> QED BY <1>1, <1>2, <1>3, <1>4, <1>5, <1>6 DEF StopStep

\* A process that vanishes leaves well-formed emptiness behind.
LEMMA VanishIs ==
    ASSUME ProcessTypes, NEW p \in Procs, Vanish(p)
    PROVE  /\ coord' \in [Procs -> Up \cup {"stopped"}]
           /\ leader' = IF leader = p THEN NoProc ELSE leader
           /\ life' \in [Procs -> LifeType]
           /\ op' \in [Procs -> OpType] /\ \A q \in Procs : RunsNamed(op'[q])
           /\ stop' \in [Procs -> StopType]
           /\ task' \in [Runs -> TaskType]
           /\ late' \subseteq late
           /\ failed' \in [Procs -> SUBSET Runs]
           /\ waits' \subseteq waits
           /\ \A q \in Procs \ {p} : /\ coord'[q] = coord[q] /\ life'[q] = life[q]
                                     /\ op'[q] = op[q] /\ stop'[q] = stop[q]
                                     /\ failed'[q] = failed[q]
           /\ coord'[p] = "standby" /\ life'[p] = FreshLife /\ op'[p] = NoOp
           /\ stop'[p] = NoStop /\ failed'[p] = {}
           /\ \A r \in Runs : task'[r] = IF task[r].proc = p THEN NoTask ELSE task[r]
           /\ \A w \in late : w.proc # p => w \in late'
           /\ \A x \in waits : x[1] # p => x \in waits'
           /\ UNCHANGED <<storeVars, auto, hist>>
<1> USE DEF ProcessTypes
<1>3. /\ coord' = [coord EXCEPT ![p] = "standby"]
      /\ leader' = IF leader = p THEN NoProc ELSE leader
      /\ UNCHANGED <<storeVars, auto, hist>>
  BY DEF Vanish
<1>4. /\ life' = [life EXCEPT ![p] = FreshLife] /\ op' = [op EXCEPT ![p] = NoOp]
      /\ stop' = [stop EXCEPT ![p] = NoStop] /\ failed' = [failed EXCEPT ![p] = {}]
  BY DEF Vanish
<1>5. task' = [r \in Runs |-> IF task[r].proc = p THEN NoTask ELSE task[r]]
  BY DEF Vanish
<1>6. late' = {w \in late : w.proc # p} /\ waits' = {w \in waits : w[1] # p}
  BY DEF Vanish
<1>7. task' \in [Runs -> TaskType]
      /\ \A r \in Runs : task'[r] = IF task[r].proc = p THEN NoTask ELSE task[r]
  BY <1>5, Empties
<1>8. /\ late' \subseteq late /\ waits' \subseteq waits
      /\ \A w \in late : w.proc # p => w \in late'
      /\ \A x \in waits : x[1] # p => x \in waits'
  BY <1>6
<1>9. /\ life' \in [Procs -> LifeType] /\ op' \in [Procs -> OpType]
      /\ stop' \in [Procs -> StopType] /\ failed' \in [Procs -> SUBSET Runs]
      /\ \A q \in Procs : RunsNamed(op'[q])
  BY <1>4, Empties
<1>10. coord' \in [Procs -> Up \cup {"stopped"}]
  BY <1>3 DEF Up
<1>11. /\ \A q \in Procs \ {p} : /\ coord'[q] = coord[q] /\ life'[q] = life[q]
                                 /\ op'[q] = op[q] /\ stop'[q] = stop[q]
                                 /\ failed'[q] = failed[q]
       /\ coord'[p] = "standby" /\ life'[p] = FreshLife /\ op'[p] = NoOp
       /\ stop'[p] = NoStop /\ failed'[p] = {}
  BY <1>3, <1>4
<1> QED BY <1>3, <1>7, <1>8, <1>9, <1>10, <1>11

\* What a failed reconciliation gives back, and a shutdown that cancels one.
LEMMA GivenUp ==
    ASSUME ProcessTypes, NEW p \in Procs, life' = [life EXCEPT ![p].acquired = FALSE]
    PROVE  /\ life' \in [Procs -> LifeType]
           /\ \A q \in Procs \ {p} : life'[q] = life[q]
           /\ ~life'[p].acquired /\ life'[p].started = life[p].started
           /\ life'[p].closed = life[p].closed
<1> DEFINE l == [life[p] EXCEPT !.acquired = FALSE]
<1>1. l \in LifeType /\ ~l.acquired /\ l.started = life[p].started /\ l.closed = life[p].closed
  BY DEF ProcessTypes, LifeType
<1>2. life' = [life EXCEPT ![p] = l]
  OBVIOUS
<1> HIDE DEF l
<1> QED BY <1>1, <1>2, LifeSet

\* The end of the event loop cancels every task left.
LEMMA LoopEndsIs ==
    ASSUME ProcessTypes, NEW p \in Procs, LoopEnds(p)
    PROVE  /\ UNCHANGED <<storeVars, leader, coord, life, op, stop, failed, waits, auto, faults>>
           /\ TasksOf(p) \in SUBSET Runs /\ \A r \in TasksOf(p) : task[r].proc \in Procs
           /\ life[p].closed \in BOOLEAN /\ CancelTasks(TasksOf(p), life[p].closed)
           /\ HistGrows /\ hist'.intruded = hist.intruded /\ hist'.adrift = hist.adrift
           /\ hist'.undone = hist.undone \cup TasksOf(p) /\ hist'.usurped = hist.usurped
           /\ coord[p] = "stopped" /\ TasksOf(p) # {}
<1>1. TasksOf(p) \in SUBSET Runs /\ \A r \in TasksOf(p) : task[r].proc \in Procs
  BY DEF TasksOf
<1>2. life[p].closed \in BOOLEAN /\ hist \in HistType
  BY DEF ProcessTypes, LifeType
<1>3. {} \in SUBSET Procs /\ hist' = [hist EXCEPT !.undone = @ \cup TasksOf(p)]
  BY DEF LoopEnds
<1>4. /\ HistGrows /\ hist'.intruded = hist.intruded /\ hist'.adrift = hist.adrift
      /\ hist'.undone = hist.undone \cup TasksOf(p) /\ hist'.usurped = hist.usurped
  BY <1>1, <1>2, <1>3, HistAdds
<1>5. /\ UNCHANGED <<storeVars, leader, coord, life, op, stop, failed, waits, auto, faults>>
      /\ CancelTasks(TasksOf(p), life[p].closed)
      /\ coord[p] = "stopped" /\ TasksOf(p) # {}
  BY DEF LoopEnds
<1> QED BY <1>1, <1>2, <1>4, <1>5

LEMMA LeaseTypes ==
    ASSUME ProcessTypes, NEW p \in Procs, LeaseStep(p)
    PROVE  ProcessTypes'
<1>t. /\ stop[p] \in StopType /\ life[p] \in LifeType /\ op[p] \in OpType /\ hist \in HistType
  BY DEF ProcessTypes
<1>1. CASE BeginStart(p)
  BY <1>1, RequestTypes
<1>2. CASE Crash(p) \/ Exit(p)
  <2>1. faults' \in 0..MaxFaults
    BY <1>2, ManagerAssumption DEF Crash, Exit, CanFail, ProcessTypes
  <2>2. Vanish(p)
    BY <1>2 DEF Crash, Exit
  <2>3. /\ late' \in SUBSET WriteType /\ waits' \in SUBSET (Procs \X Runs)
        /\ \A w \in late' : Bound(w)
    BY <2>2, VanishIs DEF ProcessTypes
  <2>4. leader' \in Procs \cup {NoProc} /\ auto' \in BOOLEAN /\ hist' \in HistType
    BY <2>2, VanishIs DEF ProcessTypes
  <2> QED BY <2>1, <2>2, <2>3, <2>4, VanishIs DEF ProcessTypes
<1>3. CASE ScannerStarted(p)
  <2>1. failed' \in [Procs -> SUBSET Runs] /\ faults' \in 0..MaxFaults
    BY <1>3, RecoverTypes DEF ScannerStarted
  <2> QED BY <1>3, <2>1 DEF ScannerStarted, ProcessTypes, Up
<1>4. CASE Activate(p) \/ TakeLease(p) \/ ReleaseLease(p) \/ LeaseReleased(p)
  BY <1>4 DEF Activate, TakeLease, ReleaseLease, LeaseReleased, ProcessTypes, Up
<1>5. CASE ReconcileFails(p)
  <2>1. faults' \in 0..MaxFaults
    BY <1>5, FaultTypes DEF ReconcileFails
  <2>2. life' \in [Procs -> LifeType]
    BY <1>5, GivenUp DEF ReconcileFails
  <2>3. op' \in [Procs -> OpType] /\ \A q \in Procs : RunsNamed(op'[q])
    BY <1>5, LeaveIs DEF ReconcileFails
  <2>4. stop' \in [Procs -> StopType] /\ coord' \in [Procs -> Up \cup {"stopped"}]
    BY <1>5, StopFromIs DEF ReconcileFails, Up, ProcessTypes
  <2> QED BY <1>5, <2>1, <2>2, <2>3, <2>4 DEF ReconcileFails, ProcessTypes
<1>6. CASE SchedulerFails(p)
  <2>1. faults' \in 0..MaxFaults
    BY <1>6, FaultTypes DEF SchedulerFails
  <2>2. stop' \in [Procs -> StopType] /\ coord' \in [Procs -> Up \cup {"stopped"}]
    BY <1>6, StopFromIs DEF SchedulerFails, Up
  <2> QED BY <1>6, <2>1, <2>2 DEF SchedulerFails, ProcessTypes
<1>7. CASE Shutdown(p)
  <2>1. CASE StopFrom(p, "closing")
    <3>1. stop' \in [Procs -> StopType] /\ coord' \in [Procs -> Up \cup {"stopped"}]
      BY <2>1, StopFromIs DEF Up
    <3> QED BY <1>7, <3>1 DEF Shutdown, ProcessTypes
  <2>2. CASE ~StopFrom(p, "closing")
    <3>1. stop' = stop /\ coord' \in [Procs -> Up \cup {"stopped"}]
      BY <1>7, <2>2 DEF Shutdown, ProcessTypes, Up
    <3> QED BY <1>7, <3>1 DEF Shutdown, ProcessTypes
  <2> QED BY <2>1, <2>2
<1>8. CASE ShutdownActivation(p)
  <2>1. late' \in SUBSET WriteType /\ \A w \in late' : Bound(w)
    BY <1>8, AbandonIs DEF ShutdownActivation
  <2>2. stop' \in [Procs -> StopType] /\ coord' \in [Procs -> Up \cup {"stopped"}]
    BY <1>8, StopFromIs DEF ShutdownActivation, Up
  <2>3. /\ life' \in [Procs -> LifeType] /\ op' \in [Procs -> OpType]
        /\ \A q \in Procs : RunsNamed(op'[q])
    BY <1>8, LeaveIs, GivenUp DEF ShutdownActivation, ProcessTypes
  <2> QED BY <1>8, <2>1, <2>2, <2>3 DEF ShutdownActivation, ProcessTypes
<1>9. CASE LoopEnds(p)
  <2>1. task' \in [Runs -> TaskType] /\ late' \in SUBSET WriteType /\ \A w \in late' : Bound(w)
    BY <1>9, LoopEndsIs, CancelTasksIs
  <2>2. /\ UNCHANGED <<leader, coord, life, op, stop, failed, waits, auto, faults>>
        /\ hist' \in HistType
    BY <1>9, LoopEndsIs DEF HistGrows
  <2> QED BY <2>1, <2>2 DEF ProcessTypes
<1> QED BY <1>1, <1>2, <1>3, <1>4, <1>5, <1>6, <1>7, <1>8, <1>9 DEF LeaseStep

\* What a late write adds to the history.
LEMMA LateWriteIs ==
    ASSUME ProcessTypes, NEW w \in late, LateWrite(w)
    PROVE  /\ UNCHANGED <<leader, coord, life, op, stop, task, waits, auto>>
           /\ late' = late \ {w}
           /\ HistGrows /\ hist'.intruded = hist.intruded /\ hist'.undone = hist.undone
           /\ w.call # "insert" => hist'.adrift = hist.adrift
           /\ w.call # "reconcile" => hist'.usurped = hist.usurped
<1>t. hist \in HistType /\ {} \in SUBSET Procs /\ Usurped \in SUBSET Runs
  BY DEF ProcessTypes, Usurped
<1>0. UNCHANGED <<leader, coord, life, op, stop, task, waits, auto>> /\ late' = late \ {w}
  BY DEF LateWrite
<1>1. CASE UNCHANGED hist
  BY <1>0, <1>1, <1>t, HistAdds
<1>2. CASE w.call = "insert" /\ \E r \in Runs : hist' = [hist EXCEPT !.adrift = @ \cup {r}]
  <2>1. PICK r \in Runs : hist' = [hist EXCEPT !.adrift = @ \cup {r}]
    BY <1>2
  <2>2. {r} \in SUBSET Runs
    OBVIOUS
  <2> QED BY <1>0, <1>2, <1>t, <2>1, <2>2, HistAdds
<1>3. CASE w.call = "reconcile" /\ hist' = [hist EXCEPT !.usurped = @ \cup Usurped]
  BY <1>0, <1>3, <1>t, HistAdds
<1> QED BY <1>1, <1>2, <1>3 DEF LateWrite, LateCommit

LEMMA OtherTypes ==
    ASSUME ProcessTypes, NEW p \in Procs,
           (\E w \in late : LateWrite(w)) \/ (\E r \in Runs : CancelSettles(p, r))
    PROVE  ProcessTypes'
<1>1. ASSUME NEW w \in late, LateWrite(w)
      PROVE  ProcessTypes'
  <2>1. w \in WriteType /\ Bound(w)
    BY DEF ProcessTypes
  <2>2. failed' \in [Procs -> SUBSET Runs] /\ faults' \in 0..MaxFaults
    <3>1. CASE w.tracked
      <4>1. w.proc \in Procs /\ w.run \in Runs
        BY <2>1, <3>1 DEF WriteType, Bound
      <4> QED BY <1>1, <3>1, <4>1, TrackedTypes DEF LateWrite
    <3>2. CASE ~w.tracked
      BY <1>1, <3>2 DEF LateWrite, ProcessTypes
    <3> QED BY <3>1, <3>2
  <2>3. late' \in SUBSET WriteType /\ \A x \in late' : Bound(x)
    BY <1>1, LateWriteIs DEF ProcessTypes
  <2>4. hist' \in HistType /\ UNCHANGED <<leader, coord, life, op, stop, task, waits, auto>>
    BY <1>1, LateWriteIs DEF HistGrows
  <2> QED BY <2>2, <2>3, <2>4 DEF ProcessTypes
<1>2. ASSUME NEW r \in Runs, CancelSettles(p, r)
      PROVE  ProcessTypes'
  <2>1. failed' \in [Procs -> SUBSET Runs] /\ faults' \in 0..MaxFaults
    BY <1>2, TrackedTypes DEF CancelSettles, ProcessTypes
  <2>2. waits' \in SUBSET (Procs \X Runs)
    BY <1>2 DEF CancelSettles, ProcessTypes
  <2> QED BY <1>2, <2>1, <2>2 DEF CancelSettles, ProcessTypes
<1> QED BY <1>1, <1>2

LEMMA TypesStep ==
    ASSUME ProcessTypes, TasksOwned, [ManagerNext]_vars
    PROVE  ProcessTypes'
<1>1. CASE UNCHANGED vars
  BY <1>1 DEF vars, managerVars, ProcessTypes
<1>2. ASSUME NEW w \in late, LateWrite(w)
      PROVE  ProcessTypes'
  <2>1. w.proc \in Procs
    BY DEF ProcessTypes, WriteType
  <2> QED BY <1>2, <2>1, OtherTypes
<1> QED
  BY <1>1, <1>2, TaskTypes, RequestTypes, OpTypes, StopTypes, LeaseTypes, OtherTypes
     DEF ManagerNext

-----------------------------------------------------------------------------
(* The lease.  A step is a step of one process: it leaves the others what  *)
(* they have, and at most ends tasks of theirs.                            *)

\* No task appears or changes hands.
TasksShrink ==
    \A r \in Runs : /\ task'[r].pc = "none" <=> task'[r].proc = NoProc
                    /\ Live(r)' => Live(r) /\ task'[r].proc = task[r].proc

Untouched(q) ==
    /\ coord'[q] = coord[q] /\ op'[q] = op[q] /\ stop'[q] = stop[q]
    /\ life'[q].closed = life[q].closed /\ life'[q].acquired = life[q].acquired
    /\ life'[q].started = life[q].started
    /\ leader' = q <=> leader = q
    /\ TasksOf(q)' \subseteq TasksOf(q)

LEMMA UntouchedKeeps ==
    ASSUME LeaseInv, HistGrows, NEW q \in Procs, Untouched(q)
    PROVE  Phases(q)' /\ (q \notin hist'.intruded => Guarded(q)')
<1>1. Phases(q)'
  BY DEF LeaseInv, PhasesAgree, Phases, Untouched, Reconciling
<1>2. q \notin hist'.intruded => Guarded(q)'
  <2>1. q \notin hist'.intruded => Guarded(q)
    BY DEF LeaseInv, TasksGuarded, HistGrows
  <2> QED BY <2>1 DEF Guarded, Untouched
<1> QED BY <1>1, <1>2

\* So a step need only be looked at where it happens.
LEMMA LeaseLocal ==
    ASSUME LeaseInv, ProcessTypes', HistGrows, NEW p \in Procs,
           \A q \in Procs \ {p} : Untouched(q),
           Phases(p)', p \notin hist'.intruded => Guarded(p)',
           TasksOwned', TakeoverFindsNoTask'
    PROVE  LeaseInv'
<1>1. \A q \in Procs : Phases(q)' /\ (q \notin hist'.intruded => Guarded(q)')
  BY UntouchedKeeps
<1> QED BY <1>1 DEF LeaseInv, PhasesAgree, TasksGuarded

LEMMA ShrinkKeeps ==
    ASSUME LeaseInv, HistGrows, TasksShrink,
           \A q \in Procs : op'[q].pc = "reconcile" => op[q].pc = "reconcile"
    PROVE  /\ TasksOwned' /\ TakeoverFindsNoTask'
           /\ \A q \in Procs : TasksOf(q)' \subseteq TasksOf(q)
<1>1. TasksOwned'
  BY DEF TasksOwned, TasksShrink
<1>2. TakeoverFindsNoTask'
  BY DEF LeaseInv, TakeoverFindsNoTask, TasksShrink, HistGrows
<1>3. \A q \in Procs : TasksOf(q)' \subseteq TasksOf(q)
  BY DEF TasksShrink, TasksOf
<1> QED BY <1>1, <1>2, <1>3

LEMMA SameTasks ==
    ASSUME TasksOwned, task' = task
    PROVE  TasksShrink
  BY DEF TasksOwned, TasksShrink, Live

\* Every step of a task but its last only moves it on.
LEMMA TaskGoesOn ==
    ASSUME ProcessTypes, NEW r \in Runs, TaskStep(r), ~TaskFinishes(r)
    PROVE  /\ UNCHANGED <<life, failed, faults>>
           /\ \A q \in Runs \ {r} : task'[q] = task[q]
           /\ task[r].pc \in Working \cup {"new"}
           /\ task'[r].pc \in Working \cup {"fail"}
           /\ task'[r].proc = task[r].proc
<1>0. task \in [Runs -> TaskType] /\ task[r] \in TaskType
  BY DEF ProcessTypes
<1>1. /\ UNCHANGED <<life, failed, faults>> /\ \A q \in Runs \ {r} : task'[q] = task[q]
      /\ task[r].pc \in Working \cup {"new"}
  BY <1>0 DEF TaskStep, TaskBegins, TaskAttaches, TaskStarts, TaskRecordsPool, TaskSeeds,
              TaskSaves, TaskDecides, TaskRaises, TaskLocal, Goto, Working, Writing
<1>2. ASSUME NEW pc \in Working, Goto(r, pc)
      PROVE  task'[r].proc = task[r].proc /\ task'[r].pc \in Working \cup {"fail"}
  <2>1. task'[r] = [task[r] EXCEPT !.pc = pc]
    BY <1>0, <1>2 DEF Goto
  <2> QED BY <1>0, <2>1 DEF TaskType
<1>3. CASE TaskDecides(r)
  <2>1. PICK want : task' = [task EXCEPT ![r].pc = "finish", ![r].want = want]
    BY <1>3 DEF TaskDecides
  <2>2. task'[r] = [task[r] EXCEPT !.pc = "finish", !.want = want]
    BY <1>0, <2>1
  <2> QED BY <1>0, <1>1, <2>2 DEF TaskType, Working, Writing
<1>4. CASE TaskRaises(r)
  <2>1. task'[r] = [task[r] EXCEPT !.pc = "fail", !.want = Verdict("failed")]
    BY <1>0, <1>4 DEF TaskRaises
  <2> QED BY <1>0, <1>1, <2>1 DEF TaskType
<1>5. CASE \E pc \in Working : Goto(r, pc)
  BY <1>1, <1>2, <1>5
<1> QED BY <1>3, <1>4, <1>5
        DEF TaskStep, TaskBegins, TaskAttaches, TaskStarts, TaskRecordsPool, TaskSeeds,
            TaskSaves, Working, Writing

\* Its last step ends it.
LEMMA TaskGone ==
    ASSUME ProcessTypes, TasksOwned, NEW r \in Runs, TaskFinishes(r)
    PROVE  /\ task[r].pc \in {"finish"} \cup Ending /\ task[r].proc \in Procs
           /\ task' = [task EXCEPT ![r] = NoTask]
           /\ task'[r] = NoTask /\ \A q \in Runs \ {r} : task'[q] = task[q]
           /\ life' \in [Procs -> LifeType]
           /\ \A q \in Procs : /\ life'[q].closed = life[q].closed
                               /\ life'[q].acquired = life[q].acquired
                               /\ life'[q].started = life[q].started
<1>0. task \in [Runs -> TaskType] /\ task[r] \in TaskType /\ life \in [Procs -> LifeType]
  BY DEF ProcessTypes
<1>1. task' = [task EXCEPT ![r] = NoTask] /\ task[r].pc \in {"finish"} \cup Ending
  BY DEF TaskFinishes, Ends
<1>2. task[r].proc \in Procs
  BY <1>0, <1>1 DEF TasksOwned, TaskType, Ending
<1>3. PICK p \in Procs : p = task[r].proc
  BY <1>2
<1>4. life' = [life EXCEPT ![p] = Quieted(p, life[p], task')]
  BY <1>3 DEF TaskFinishes, Ends
<1>5. life[p] \in LifeType
  BY <1>0
<1>6. /\ Quieted(p, life[p], task') \in LifeType
      /\ Quieted(p, life[p], task').closed = life[p].closed
      /\ Quieted(p, life[p], task').acquired = life[p].acquired
      /\ Quieted(p, life[p], task').started = life[p].started
  BY <1>5, QuietedIs
<1>7. /\ life' \in [Procs -> LifeType]
      /\ \A q \in Procs : /\ life'[q].closed = life[q].closed
                          /\ life'[q].acquired = life[q].acquired
                          /\ life'[q].started = life[q].started
  BY <1>0, <1>4, <1>6
<1> QED BY <1>0, <1>1, <1>2, <1>7

LEMMA TaskLease ==
    ASSUME LeaseInv, ProcessTypes', NEW r \in Runs, TaskStep(r)
    PROVE  LeaseInv'
<1>0. UNCHANGED <<leader, coord, op, stop, hist>>
  BY DEF TaskStep, TaskBegins, TaskAttaches, TaskStarts, TaskRecordsPool, TaskSeeds,
         TaskSaves, TaskDecides, TaskRaises, TaskFinishes, TaskLocal, TaskCommon
<1>h. HistGrows
  BY <1>0 DEF HistGrows, LeaseInv, ProcessTypes
<1>1. /\ TasksShrink
      /\ \A q \in Procs : /\ life'[q].closed = life[q].closed
                          /\ life'[q].acquired = life[q].acquired
                          /\ life'[q].started = life[q].started
  <2>1. CASE TaskFinishes(r)
    BY <2>1, TaskGone, Empties DEF TasksShrink, Live, LeaseInv, TasksOwned
  <2>2. CASE ~TaskFinishes(r)
    <3>1. /\ UNCHANGED life /\ \A q \in Runs \ {r} : task'[q] = task[q]
          /\ task[r].pc # "none" /\ task'[r].pc # "none" /\ task'[r].proc = task[r].proc
      BY <2>2, TaskGoesOn DEF LeaseInv, Working, Writing
    <3> QED BY <3>1 DEF TasksShrink, Live, LeaseInv, TasksOwned
  <2> QED BY <2>1, <2>2
<1>2. /\ TasksOwned' /\ TakeoverFindsNoTask'
      /\ \A q \in Procs : TasksOf(q)' \subseteq TasksOf(q)
  BY <1>0, <1>1, <1>h, ShrinkKeeps
<1>3. \A q \in Procs : Untouched(q)
  BY <1>0, <1>1, <1>2 DEF Untouched
<1>4. \A q \in Procs : Phases(q)' /\ (q \notin hist'.intruded => Guarded(q)')
  BY <1>3, <1>h, UntouchedKeeps
<1> QED BY <1>2, <1>4 DEF LeaseInv, PhasesAgree, TasksGuarded

\* Cancelling tasks lets them go on or ends them.
LEMMA CancelShrinks ==
    ASSUME LeaseInv, NEW S \in SUBSET Runs, NEW closed \in BOOLEAN,
           \A r \in S : Live(r), CancelTasks(S, closed)
    PROVE  TasksShrink
<1>1. \A r \in S : task[r].proc \in Procs
  BY DEF LeaseInv, ProcessTypes, TasksOwned, TaskType, Live
<1>2. /\ \A r \in Runs \ S : task'[r] = task[r]
      /\ \A r \in S : task'[r] = AfterCancel(task[r], closed)
  BY <1>1, CancelTasksIs DEF LeaseInv
<1>4. \A r \in Runs : task[r] \in TaskType
  BY DEF LeaseInv, ProcessTypes
<1>5. \A r \in S : \/ task'[r] = NoTask
                   \/ task'[r].pc = "wind" /\ task'[r].proc = task[r].proc
  BY <1>2, <1>4, AfterCancelIs
<1> QED BY <1>1, <1>2, <1>5, Empties, ManagerAssumption DEF TasksShrink, Live, LeaseInv, TasksOwned

\* An operation begins.  The process that obtains the scan guard has the lease, so
\* a task that runs then is one of a process that intruded.
LEMMA EnterLease ==
    ASSUME LeaseInv, ProcessTypes', NEW p \in Procs, RequestStep(p) \/ BeginStart(p)
    PROVE  LeaseInv'
<1>1. PICK what \in OpKinds \ {"none"}, pc \in {"mark", "recover"} :
         /\ Enter(p, what, pc)
         /\ what = "start" => coord[p] = "activating" /\ ~life[p].started
         /\ what \in {"tick", "claim"} => coord[p] = "active" /\ pc = "recover"
  BY Entering
<1>2. /\ UNCHANGED <<leader, coord, stop, task>>
      /\ op[p] = NoOp /\ ~life[p].closed
      /\ \A q \in Procs \ {p} : op'[q] = op[q] /\ life'[q] = life[q]
      /\ op'[p].kind = what
      /\ HistGrows
      /\ RollbackWindow(p) => p \in hist'.intruded
  BY <1>1, EnterIs DEF LeaseInv
<1>3. \/ life[p].acquired /\ life' = life /\ op'[p].pc = pc
      \/ /\ ~life[p].acquired /\ leader = p /\ op'[p].pc = "reconcile"
         /\ life'[p].acquired /\ life'[p].closed = life[p].closed
         /\ life'[p].started = life[p].started
  BY <1>1, EnterIs DEF LeaseInv
<1>p. Phases(p) /\ (p \notin hist'.intruded => Guarded(p))
  BY <1>2 DEF LeaseInv, PhasesAgree, TasksGuarded, HistGrows
<1>4. life'[p].acquired /\ life'[p].closed = life[p].closed /\ life'[p].started = life[p].started
  BY <1>3
<1>s. TasksShrink
  BY <1>2, SameTasks DEF LeaseInv
<1>5. \A q \in Procs \ {p} : Untouched(q)
  BY <1>2 DEF Untouched, TasksOf, Live
<1>6. Phases(p)'
  BY <1>1, <1>2, <1>3, <1>4, <1>p DEF Phases, Reconciling
<1>7. p \notin hist'.intruded => Guarded(p)'
  <2>1. SUFFICES ASSUME p \notin hist'.intruded
                 PROVE  Guarded(p)'
    OBVIOUS
  <2>2. ~RollbackWindow(p)
    BY <1>2, <2>1
  <2>3. stop[p].pc \notin {"wait", "leave"}
    BY <1>2, <1>p, <2>2 DEF Phases, Stopping, RollbackWindow
  <2>4. coord[p] \notin {"yielding", "releasing"}
    BY <1>p, <2>2 DEF Phases, Stopping, RollbackWindow
  <2>5. ~(coord[p] \in Stopping /\ stop[p].pc = "none")
    BY <1>2, <1>p, <2>2 DEF Phases, Stopping, RollbackWindow
  <2>6. leader = p
    BY <1>3, <1>p, <2>1 DEF Guarded
  <2> QED BY <1>2, <1>4, <2>3, <2>4, <2>5, <2>6 DEF Guarded
<1>8. TasksOwned'
  BY <1>2 DEF LeaseInv, TasksOwned
<1>9. TakeoverFindsNoTask'
  <2>1. CASE op'[p].pc # "reconcile"
    <3>1. \A q \in Procs : op'[q].pc = "reconcile" => op[q].pc = "reconcile"
      BY <1>2, <2>1
    <3> QED BY <1>2, <1>s, <3>1, ShrinkKeeps
  <2>2. CASE op'[p].pc = "reconcile"
    <3>1. ~life[p].acquired /\ leader = p
      BY <1>1, <1>3, <2>2
    <3>2. ASSUME NEW r \in Runs, Live(r), task[r].proc \notin hist.intruded
          PROVE  FALSE
      <4>1. PICK q \in Procs : q = task[r].proc
        BY <3>2 DEF LeaseInv, ProcessTypes, TaskType, TasksOwned, Live
      <4>2. r \in TasksOf(q) /\ q \notin hist.intruded
        BY <3>2, <4>1 DEF TasksOf
      <4>3. Guarded(q)
        BY <4>2 DEF LeaseInv, TasksGuarded
      <4>4. life[q].acquired /\ leader = q
        BY <4>2, <4>3 DEF Guarded
      <4> QED BY <3>1, <4>4
    <3>3. \A r \in Runs : Live(r) => task[r].proc \in hist'.intruded
      BY <1>2, <3>2 DEF HistGrows
    <3>4. \A r \in Runs : Live(r)' => task'[r].proc \in hist'.intruded
      BY <1>2, <3>3 DEF Live
    <3> QED BY <3>4 DEF TakeoverFindsNoTask
  <2> QED BY <2>1, <2>2
<1> QED BY <1>2, <1>5, <1>6, <1>7, <1>8, <1>9, LeaseLocal

\* What every move of an operation leaves alone.
LEMMA OpIs ==
    ASSUME ProcessTypes, NEW p \in Procs, OpStep(p)
    PROVE  /\ UNCHANGED <<leader, coord, stop, auto>>
           /\ op[p].pc # "idle" /\ op'[p].pc # "reconcile"
           /\ \A q \in Procs \ {p} : op'[q] = op[q] /\ life'[q] = life[q]
           /\ life'[p].closed = life[p].closed /\ life'[p].acquired = life[p].acquired
           /\ life[p].started => life'[p].started
           /\ op'[p].kind \in {op[p].kind, "none"}
           /\ op'[p].kind \in {"tick", "claim"} =>
                 \/ op[p].pc \in {"reconcile", "request"}
                 \/ op'[p].pc \in {"insert", "launch"}
           /\ HistGrows /\ hist'.intruded = hist.intruded
<1>t. /\ op[p] \in OpType /\ op \in [Procs -> OpType]
      /\ life[p] \in LifeType /\ life \in [Procs -> LifeType] /\ hist \in HistType
  BY DEF ProcessTypes
<1>0. UNCHANGED <<leader, coord, stop, auto>> /\ op[p].pc # "idle"
  BY DEF OpStep, OpReconcile, OpRecover, OpMark, OpInsert, OpLaunch, OpRequest,
         OpCancelLocal, OpRefused
<1>m. ASSUME NEW pc, op' = [op EXCEPT ![p] = [op[p] EXCEPT !.pc = pc]]
      PROVE  /\ op'[p].pc = pc /\ op'[p].kind = op[p].kind
             /\ \A q \in Procs \ {p} : op'[q] = op[q]
  BY <1>t, <1>m DEF OpType
<1>l. ASSUME Leave(p)
      PROVE  op'[p] = NoOp /\ \A q \in Procs \ {p} : op'[q] = op[q]
  BY <1>l, <1>t DEF Leave
<1>1. CASE OpReconcile(p)
  <2>1. \E pc \in {"mark", "recover"} : op' = [op EXCEPT ![p] = [op[p] EXCEPT !.pc = pc]]
    BY <1>1, <1>t DEF OpReconcile
  <2>2. Usurped \in SUBSET Runs /\ {} \in SUBSET Procs
    BY DEF Usurped
  <2>3. HistGrows /\ hist'.intruded = hist.intruded
    BY <1>1, <1>t, <2>2, HistAdds DEF OpReconcile
  <2> QED BY <1>0, <1>1, <1>m, <2>1, <2>3 DEF OpReconcile
<1>2. CASE OpRecover(p)
  <2>1. \/ op' = [op EXCEPT ![p] = [op[p] EXCEPT !.pc = "insert"]]
        \/ op[p].kind = "cancel" /\ op' = [op EXCEPT ![p] = [op[p] EXCEPT !.pc = "request"]]
        \/ Leave(p)
    BY <1>2 DEF OpRecover, Leave
  <2>2. HistGrows /\ UNCHANGED <<hist, life>>
    BY <1>2, <1>t DEF OpRecover, HistGrows
  <2> QED BY <1>0, <1>m, <1>l, <2>1, <2>2, Empties
<1>3. CASE OpMark(p)
  <2> DEFINE l == [life[p] EXCEPT !.started = TRUE, !.quiet = FALSE]
  <2>1. life' = [life EXCEPT ![p] = l]
    BY <1>3 DEF OpMark
  <2>2. l \in LifeType /\ l.closed = life[p].closed /\ l.acquired = life[p].acquired /\ l.started
    BY <1>t DEF LifeType
  <2> HIDE DEF l
  <2>3. life'[p] = l /\ \A q \in Procs \ {p} : life'[q] = life[q]
    BY <2>1, <2>2, LifeSet
  <2>4. HistGrows /\ UNCHANGED hist /\ Leave(p)
    BY <1>3, <1>t DEF OpMark, HistGrows
  <2> QED BY <1>0, <1>l, <2>2, <2>3, <2>4, Empties
<1>4. CASE OpInsert(p) \/ OpRequest(p)
  <2>1. PICK pc \in {"launch", "cancelLocal"}, r \in Runs :
          /\ op' = [op EXCEPT ![p].pc = pc, ![p].run = r]
          /\ pc = "cancelLocal" => op[p].pc = "request"
    BY <1>4 DEF OpInsert, OpRequest
  <2>2. op' = [op EXCEPT ![p] = [op[p] EXCEPT !.pc = pc, !.run = r]]
    BY <1>t, <2>1
  <2>3. /\ op'[p].pc = pc /\ op'[p].kind = op[p].kind
        /\ \A q \in Procs \ {p} : op'[q] = op[q]
    BY <1>t, <2>2 DEF OpType
  <2>4. HistGrows /\ UNCHANGED <<hist, life>>
    BY <1>4, <1>t DEF OpInsert, OpRequest, HistGrows
  <2> QED BY <1>0, <2>1, <2>3, <2>4
<1>5. CASE OpCancelLocal(p)
  <2>1. life' = [life EXCEPT ![p] = Quieted(p, life[p], task')]
    BY <1>5 DEF OpCancelLocal
  <2>2. /\ Quieted(p, life[p], task') \in LifeType
        /\ Quieted(p, life[p], task').closed = life[p].closed
        /\ Quieted(p, life[p], task').acquired = life[p].acquired
        /\ Quieted(p, life[p], task').started = life[p].started
    BY <1>t, QuietedIs
  <2>3. /\ life'[p].closed = life[p].closed /\ life'[p].acquired = life[p].acquired
        /\ life'[p].started = life[p].started
        /\ \A q \in Procs \ {p} : life'[q] = life[q]
    BY <1>t, <2>1, <2>2
  <2>4. HistGrows /\ UNCHANGED hist /\ Leave(p)
    BY <1>5, <1>t DEF OpCancelLocal, HistGrows
  <2> QED BY <1>0, <1>l, <2>3, <2>4, Empties
<1>6. CASE OpLaunch(p) \/ OpRefused(p)
  <2>4. HistGrows /\ UNCHANGED <<hist, life>> /\ Leave(p)
    BY <1>6, <1>t DEF OpLaunch, OpRefused, HistGrows
  <2> QED BY <1>0, <1>l, <2>4, Empties
<1> QED BY <1>1, <1>2, <1>3, <1>4, <1>5, <1>6 DEF OpStep

\* A task launched by a process that did not intrude is launched under the lease.
LEMMA OpLease ==
    ASSUME LeaseInv, ProcessTypes', NEW p \in Procs, OpStep(p)
    PROVE  LeaseInv'
<1>1. /\ UNCHANGED <<leader, coord, stop>>
      /\ op[p].pc # "idle" /\ op'[p].pc # "reconcile"
      /\ \A q \in Procs \ {p} : op'[q] = op[q] /\ life'[q] = life[q]
      /\ life'[p].closed = life[p].closed /\ life'[p].acquired = life[p].acquired
      /\ life[p].started => life'[p].started
      /\ HistGrows /\ hist'.intruded = hist.intruded
  BY OpIs DEF LeaseInv
<1>2. /\ op'[p].kind \in {op[p].kind, "none"}
      /\ op'[p].kind \in {"tick", "claim"} =>
            \/ op[p].pc \in {"reconcile", "request"}
            \/ op'[p].pc \in {"insert", "launch"}
  BY OpIs DEF LeaseInv
<1>p. Phases(p) /\ (p \notin hist.intruded => Guarded(p))
  BY DEF LeaseInv, PhasesAgree, TasksGuarded
<1>3. life[p].acquired
  BY <1>1, <1>p DEF Phases
<1>4. Phases(p)'
  BY <1>1, <1>2, <1>3, <1>p DEF Phases, Reconciling
<1>5. p \notin hist'.intruded => Guarded(p)'
  <2>1. SUFFICES ASSUME p \notin hist.intruded
                 PROVE  Guarded(p)'
    BY <1>1
  <2> QED BY <1>1, <1>3, <1>p, <2>1 DEF Guarded
<1>6. \A q \in Procs : op'[q].pc = "reconcile" => op[q].pc = "reconcile" /\ q # p
  BY <1>1
<1>7. /\ TasksOwned' /\ TakeoverFindsNoTask'
      /\ \A q \in Procs \ {p} : TasksOf(q)' \subseteq TasksOf(q)
  <2>1. CASE OpLaunch(p)
    <3>1. PICK r \in Runs : r = op[p].run
      BY <2>1 DEF OpLaunch, LeaseInv, ProcessTypes, RunsNamed
    <3>2. /\ task'[r].pc = "new" /\ task'[r].proc = p
          /\ \A q \in Runs \ {r} : task'[q] = task[q]
      BY <2>1, <3>1 DEF OpLaunch, LeaseInv, ProcessTypes, NoTask
    <3>3. TasksOwned'
      BY <3>2, ManagerAssumption DEF LeaseInv, TasksOwned
    <3>4. \A q \in Procs \ {p} : TasksOf(q)' \subseteq TasksOf(q)
      BY <3>2 DEF TasksOf, Live
    <3>5. ASSUME NEW q \in Procs, op'[q].pc = "reconcile",
                 {q, p} \cap hist.intruded = {}
          PROVE  FALSE
      <4>1. op[q].pc = "reconcile" /\ q # p
        BY <1>6, <3>5
      <4>2. life[q].acquired /\ Guarded(q) /\ Guarded(p)
        BY <3>5, <4>1 DEF LeaseInv, PhasesAgree, Phases, TasksGuarded
      <4> QED BY <1>3, <4>1, <4>2 DEF Guarded
    <3>6. TakeoverFindsNoTask'
      <4>1. ASSUME NEW q \in Procs, NEW s \in Runs, op'[q].pc = "reconcile", Live(s)'
            PROVE  {q, task'[s].proc} \cap hist'.intruded # {}
        <5>1. CASE s = r
          BY <1>1, <3>2, <3>5, <4>1, <5>1
        <5>2. CASE s # r
          <6>1. op[q].pc = "reconcile" /\ Live(s) /\ task'[s] = task[s]
            BY <1>6, <3>2, <4>1, <5>2 DEF Live
          <6> QED BY <1>1, <6>1 DEF LeaseInv, TakeoverFindsNoTask
        <5> QED BY <5>1, <5>2
      <4> QED BY <4>1 DEF TakeoverFindsNoTask
    <3> QED BY <3>3, <3>4, <3>6
  <2>2. CASE ~OpLaunch(p)
    <3>1. TasksShrink
      <4>1. CASE OpCancelLocal(p)
        <5> DEFINE S == {op[p].run} \cap TasksOf(p)
        <5>1. S \in SUBSET Runs /\ \A r \in S : Live(r)
          BY DEF TasksOf
        <5>2. life[p].closed \in BOOLEAN
          BY DEF LifeType, LeaseInv, ProcessTypes
        <5>3. CancelTasks(S, life[p].closed)
          BY <4>1 DEF OpCancelLocal
        <5> HIDE DEF S
        <5> QED BY <5>1, <5>2, <5>3, CancelShrinks
      <4>2. CASE ~OpCancelLocal(p)
        <5>1. task' = task
          BY <2>2, <4>2 DEF OpStep, OpReconcile, OpRecover, OpMark, OpInsert, OpRequest, OpRefused
        <5> QED BY <5>1, SameTasks DEF LeaseInv
      <4> QED BY <4>1, <4>2
    <3> QED BY <1>1, <1>6, <3>1, ShrinkKeeps
  <2> QED BY <2>1, <2>2
<1>8. \A q \in Procs \ {p} : Untouched(q)
  BY <1>1, <1>7 DEF Untouched
<1> QED BY <1>1, <1>4, <1>5, <1>7, <1>8, LeaseLocal

\* A step without operations, flags or tasks: only the coordinator, the stop and the
\* lease of the process move.
LEMMA PhaseMoves ==
    ASSUME LeaseInv, ProcessTypes', NEW p \in Procs, HistGrows, hist'.intruded = hist.intruded,
           UNCHANGED <<life, op, task>>,
           \A q \in Procs \ {p} : coord'[q] = coord[q] /\ stop'[q] = stop[q],
           \A q \in Procs \ {p} : leader' = q <=> leader = q,
           Phases(p)', p \notin hist.intruded => Guarded(p)'
    PROVE  LeaseInv'
<1>1. TasksShrink
  BY SameTasks DEF LeaseInv
<1>2. /\ TasksOwned' /\ TakeoverFindsNoTask'
      /\ \A q \in Procs : TasksOf(q)' \subseteq TasksOf(q)
  BY <1>1, ShrinkKeeps
<1>3. \A q \in Procs \ {p} : Untouched(q)
  BY <1>2 DEF Untouched
<1> QED BY <1>2, <1>3, LeaseLocal

LEMMA StopLease ==
    ASSUME LeaseInv, ProcessTypes', NEW p \in Procs, StopStep(p)
    PROVE  LeaseInv'
<1>p. Phases(p) /\ (p \notin hist.intruded => Guarded(p))
  BY DEF LeaseInv, PhasesAgree, TasksGuarded
<1>t. /\ stop \in [Procs -> StopType] /\ stop[p] \in StopType
      /\ life \in [Procs -> LifeType] /\ life[p] \in LifeType /\ hist \in HistType
      /\ coord \in [Procs -> Up \cup {"stopped"}] /\ ProcessTypes
      /\ op[p] \in OpType /\ RunsNamed(op[p])
  BY DEF LeaseInv, ProcessTypes
<1>h. UNCHANGED hist => HistGrows
  BY <1>t DEF HistGrows
<1>1. CASE TickCancelled(p)
  <2>1. UNCHANGED <<leader, coord, life, stop, task>>
    BY <1>1 DEF TickCancelled
  <2>2. op'[p] = NoOp /\ \A q \in Procs \ {p} : op'[q] = op[q]
    BY <1>1, <1>t, LeaveIs DEF TickCancelled
  <2>3. HistGrows /\ hist'.intruded = hist.intruded
    <3>1. CASE op[p].pc = "launch"
      <4>1. {op[p].run} \in SUBSET Runs /\ {} \in SUBSET Procs
        BY <1>t, <3>1 DEF RunsNamed
      <4>2. hist' = [hist EXCEPT !.adrift = @ \cup {op[p].run}]
        BY <1>1, <3>1 DEF TickCancelled
      <4> QED BY <1>t, <4>1, <4>2, HistAdds
    <3>2. CASE op[p].pc # "launch"
      BY <1>1, <1>h, <3>2 DEF TickCancelled
    <3> QED BY <3>1, <3>2
  <2>4. TasksShrink
    BY <2>1, SameTasks DEF LeaseInv
  <2>5. /\ TasksOwned' /\ TakeoverFindsNoTask'
        /\ \A q \in Procs : TasksOf(q)' \subseteq TasksOf(q)
    BY <2>2, <2>3, <2>4, ShrinkKeeps, Empties
  <2>6. \A q \in Procs \ {p} : Untouched(q)
    BY <2>1, <2>2, <2>5 DEF Untouched
  <2>7. Phases(p)'
    BY <1>p, <2>1, <2>2, Empties DEF Phases, Reconciling
  <2>8. p \notin hist'.intruded => Guarded(p)'
    BY <1>p, <2>1, <2>2, <2>3, <2>5, Empties DEF Guarded
  <2> QED BY <2>3, <2>5, <2>6, <2>7, <2>8, LeaseLocal
<1>2. CASE StopRecovers(p)
  <2>1. UNCHANGED <<leader, coord, life, op, task, hist>> /\ stop[p].pc = "scheduler"
    BY <1>2 DEF StopRecovers
  <2>2. /\ stop'[p].pc = "begin" /\ stop'[p].runs = stop[p].runs
        /\ \A q \in Procs \ {p} : stop'[q] = stop[q]
    <3>1. stop' = [stop EXCEPT ![p] = [stop[p] EXCEPT !.pc = "begin"]]
      BY <1>2 DEF StopRecovers
    <3> QED BY <1>t, <3>1 DEF StopType
  <2>3. Phases(p)'
    BY <1>p, <2>1, <2>2 DEF Phases, Reconciling
  <2>4. p \notin hist.intruded => Guarded(p)'
    BY <1>p, <2>1, <2>2 DEF Guarded, TasksOf, Live
  <2> QED BY <1>h, <2>1, <2>2, <2>3, <2>4, PhaseMoves
<1>3. CASE StopBegins(p)
  <2>1. /\ UNCHANGED <<leader, coord, op>> /\ stop[p].pc = "begin" /\ op[p] = NoOp
        /\ \A q \in Procs \ {p} : life'[q] = life[q] /\ stop'[q] = stop[q]
        /\ life'[p].closed = (life[p].closed \/ coord[p] = "closing")
        /\ life'[p].acquired = life[p].acquired /\ life'[p].started = life[p].started
    BY <1>3, <1>t, StopBeginsIs
  <2>2. /\ TasksShrink /\ HistGrows /\ hist'.intruded = hist.intruded
        /\ \/ Idle(p) /\ stop'[p].pc = "none" /\ stop'[p].runs = {}
           \/ stop'[p].pc = "wait" /\ stop'[p].runs = TasksOf(p)
    <3>1. CASE Idle(p) /\ stop'[p] = NoStop /\ UNCHANGED <<task, late, hist>>
      BY <1>h, <3>1, SameTasks, Empties DEF LeaseInv
    <3>2. CASE /\ CancelTasks(TasksOf(p), life'[p].closed)
               /\ stop'[p] = [pc |-> "wait", runs |-> TasksOf(p)]
               /\ HistGrows /\ hist'.intruded = hist.intruded
      <4>1. TasksOf(p) \in SUBSET Runs /\ \A r \in TasksOf(p) : Live(r)
        BY DEF TasksOf
      <4>2. life'[p].closed \in BOOLEAN
        BY DEF ProcessTypes, LifeType
      <4>3. TasksShrink
        BY <3>2, <4>1, <4>2, CancelShrinks
      <4> QED BY <3>2, <4>3
    <3> QED BY <1>3, <1>t, <3>1, <3>2, StopBeginsIs
  <2>3. /\ TasksOwned' /\ TakeoverFindsNoTask'
        /\ \A q \in Procs : TasksOf(q)' \subseteq TasksOf(q)
    BY <2>1, <2>2, ShrinkKeeps
  <2>4. \A q \in Procs \ {p} : Untouched(q)
    BY <2>1, <2>3 DEF Untouched
  <2>5. Phases(p)'
    BY <1>p, <2>1, <2>2, Empties DEF Phases, Reconciling
  <2>6. p \notin hist'.intruded => Guarded(p)'
    <3>1. SUFFICES ASSUME p \notin hist.intruded
                   PROVE  Guarded(p)'
      BY <2>2
    <3>2. coord[p] \in Stopping
      BY <1>p, <2>1 DEF Phases
    <3>3. coord[p] \notin {"yielding", "releasing"}
      BY <3>2 DEF Stopping
    <3> QED BY <1>p, <2>1, <2>2, <2>3, <3>1, <3>3, Empties DEF Guarded, Idle
  <2> QED BY <2>2, <2>3, <2>4, <2>5, <2>6, LeaseLocal
<1>4. CASE StopSettles(p)
  <2>1. /\ UNCHANGED <<leader, coord, life, op, task, hist>> /\ stop[p].pc = "wait"
        /\ stop[p].runs \cap TasksOf(p) = {}
    BY <1>4 DEF StopSettles
  <2>2. /\ stop'[p].pc = "leave" /\ stop'[p].runs = {}
        /\ \A q \in Procs \ {p} : stop'[q] = stop[q]
    BY <1>4, <1>t DEF StopSettles
  <2>3. Phases(p)'
    BY <1>p, <2>1, <2>2 DEF Phases, Reconciling
  <2>4. p \notin hist.intruded => Guarded(p)'
    BY <1>p, <2>1, <2>2 DEF Guarded, TasksOf, Live
  <2> QED BY <1>h, <2>1, <2>2, <2>3, <2>4, PhaseMoves
<1>5. CASE StopEnds(p)
  <2> DEFINE l == [life[p] EXCEPT !.started = FALSE, !.acquired = FALSE, !.stopping = FALSE]
  <2>1. l \in LifeType /\ l.closed = life[p].closed /\ ~l.acquired /\ ~l.started
    BY <1>t DEF LifeType
  <2>2. /\ life' = [life EXCEPT ![p] = Quieted(p, l, task)] /\ stop[p].pc = "leave"
        /\ UNCHANGED <<leader, coord, op, task, hist>> /\ op[p] = NoOp
        /\ stop' = [stop EXCEPT ![p] = NoStop]
    BY <1>5 DEF StopEnds
  <2> HIDE DEF l
  <2>3. /\ life'[p].closed = life[p].closed /\ ~life'[p].acquired /\ ~life'[p].started
        /\ \A q \in Procs \ {p} : life'[q] = life[q]
    BY <1>t, <2>1, <2>2, QuietedIs
  <2>4. stop'[p].pc = "none" /\ stop'[p].runs = {} /\ \A q \in Procs \ {p} : stop'[q] = stop[q]
    BY <1>t, <2>2, Empties
  <2>5. Phases(p)'
    BY <1>p, <2>2, <2>3, <2>4, Empties DEF Phases, Reconciling, Stopping
  <2>6. TasksShrink
    BY <2>2, SameTasks DEF LeaseInv
  <2>7. /\ TasksOwned' /\ TakeoverFindsNoTask'
        /\ \A q \in Procs : TasksOf(q)' \subseteq TasksOf(q)
    BY <1>h, <2>2, <2>6, ShrinkKeeps
  <2>8. \A q \in Procs \ {p} : Untouched(q)
    BY <2>2, <2>3, <2>4, <2>7 DEF Untouched
  <2>9. p \notin hist'.intruded => Guarded(p)'
    <3>1. SUFFICES ASSUME p \notin hist.intruded
                   PROVE  Guarded(p)'
      BY <2>2
    <3>2. TasksOf(p) = {}
      BY <1>p, <2>2, <3>1 DEF Guarded, Phases
    <3>3. TasksOf(p)' = {}
      BY <2>7, <3>2
    <3> QED BY <2>3, <2>4, <3>3 DEF Guarded
  <2> QED BY <1>h, <2>2, <2>5, <2>7, <2>8, <2>9, LeaseLocal
<1>6. CASE FinalStop(p)
  <2>1. CASE stop[p] = NoStop /\ StopFrom(p, "closing") /\ UNCHANGED life
    <3>1. /\ UNCHANGED <<leader, op, task, hist>> /\ coord[p] = "folding"
      BY <1>6 DEF FinalStop
    <3>2. /\ stop'[p].pc = "scheduler" /\ stop'[p].runs = stop[p].runs
          /\ coord'[p] = "closing"
          /\ \A q \in Procs \ {p} : stop'[q] = stop[q] /\ coord'[q] = coord[q]
      BY <1>t, <2>1, StopFromIs
    <3>3. Phases(p)'
      BY <1>p, <2>1, <3>1, <3>2, Empties DEF Phases, Reconciling, Stopping, Held, Up
    <3>4. p \notin hist.intruded => Guarded(p)'
      BY <1>p, <2>1, <3>1, <3>2, Empties DEF Guarded, TasksOf, Live
    <3> QED BY <1>h, <2>1, <3>1, <3>2, <3>3, <3>4, PhaseMoves
  <2>2. CASE /\ stop[p].pc \in {"wait", "leave"} /\ op[p] = NoOp /\ UNCHANGED stop
             /\ life' = [life EXCEPT ![p].closed = TRUE]
             /\ coord' = [coord EXCEPT ![p] = "closing"]
    <3>1. /\ UNCHANGED <<leader, op, task, hist>> /\ coord[p] = "folding"
      BY <1>6 DEF FinalStop
    <3> DEFINE l == [life[p] EXCEPT !.closed = TRUE]
    <3>2. /\ l \in LifeType /\ l.closed /\ l.acquired = life[p].acquired
          /\ l.started = life[p].started
      BY <1>t DEF LifeType
    <3>3. life' = [life EXCEPT ![p] = l]
      BY <2>2
    <3> HIDE DEF l
    <3>4. /\ life'[p].closed /\ life'[p].acquired = life[p].acquired
          /\ life'[p].started = life[p].started
          /\ \A q \in Procs \ {p} : life'[q] = life[q]
      BY <1>t, <3>2, <3>3, LifeSet
    <3>5. coord'[p] = "closing" /\ \A q \in Procs \ {p} : coord'[q] = coord[q]
      BY <1>t, <2>2
    <3>6. Phases(p)'
      BY <1>p, <2>2, <3>1, <3>4, <3>5, Empties DEF Phases, Reconciling, Stopping, Held, Up
    <3>7. TasksShrink
      BY <3>1, SameTasks DEF LeaseInv
    <3>8. /\ TasksOwned' /\ TakeoverFindsNoTask'
          /\ \A q \in Procs : TasksOf(q)' \subseteq TasksOf(q)
      BY <1>h, <3>1, <3>7, ShrinkKeeps
    <3>9. p \notin hist'.intruded => Guarded(p)'
      BY <1>p, <2>2, <3>1, <3>4, <3>5, <3>8 DEF Guarded, Stopping
    <3>10. \A q \in Procs \ {p} : Untouched(q)
      BY <2>2, <3>1, <3>4, <3>5, <3>8 DEF Untouched
    <3> QED BY <1>h, <3>1, <3>6, <3>8, <3>9, <3>10, LeaseLocal
  <2> QED BY <1>6, <2>1, <2>2 DEF FinalStop
<1> QED BY <1>1, <1>2, <1>3, <1>4, <1>5, <1>6 DEF StopStep

\* The reconciliation of a fresh owner is given up: its process has neither started
\* nor, unless it intruded, a task.
LEMMA FreshOwner ==
    ASSUME LeaseInv, NEW p \in Procs, op[p].pc = "reconcile"
    PROVE  /\ ~life[p].started /\ life[p].acquired
           /\ p \notin hist.intruded => TasksOf(p) = {}
<1>1. ~life[p].started /\ life[p].acquired
  BY DEF LeaseInv, PhasesAgree, Phases
<1>2. ASSUME NEW r \in TasksOf(p)
      PROVE  p \in hist.intruded
  BY <1>2 DEF TasksOf, LeaseInv, TakeoverFindsNoTask
<1> QED BY <1>1, <1>2

LEMMA LeaseLease ==
    ASSUME LeaseInv, ProcessTypes', NEW p \in Procs, LeaseStep(p)
    PROVE  LeaseInv'
<1>p. Phases(p) /\ (p \notin hist.intruded => Guarded(p))
  BY DEF LeaseInv, PhasesAgree, TasksGuarded
<1>t. /\ stop \in [Procs -> StopType] /\ stop[p] \in StopType
      /\ life \in [Procs -> LifeType] /\ life[p] \in LifeType /\ hist \in HistType
      /\ coord \in [Procs -> Up \cup {"stopped"}] /\ ProcessTypes
      /\ op[p] \in OpType /\ op \in [Procs -> OpType]
  BY DEF LeaseInv, ProcessTypes
<1>h. UNCHANGED hist => HistGrows
  BY <1>t DEF HistGrows
<1>s. TasksOf(p)' = TasksOf(p) \/ task' # task
  BY DEF TasksOf, Live
<1>1. CASE BeginStart(p)
  BY <1>1, EnterLease
<1>2. CASE Crash(p) \/ Exit(p)
  <2>1. Vanish(p)
    BY <1>2 DEF Crash, Exit
  <2>2. /\ \A q \in Procs \ {p} : /\ coord'[q] = coord[q] /\ life'[q] = life[q]
                                  /\ op'[q] = op[q] /\ stop'[q] = stop[q]
        /\ coord'[p] = "standby" /\ life'[p] = FreshLife
        /\ op'[p] = NoOp /\ stop'[p] = NoStop
        /\ leader' = IF leader = p THEN NoProc ELSE leader
        /\ \A r \in Runs : task'[r] = IF task[r].proc = p THEN NoTask ELSE task[r]
        /\ UNCHANGED hist
    BY <1>t, <2>1, VanishIs
  <2>3. Phases(p)'
    BY <2>2, Empties, ManagerAssumption DEF Phases, Reconciling, Stopping, Held, Up
  <2>4. TasksShrink
    BY <2>2, Empties DEF TasksShrink, Live, LeaseInv, TasksOwned
  <2>5. /\ TasksOwned' /\ TakeoverFindsNoTask'
        /\ \A q \in Procs : TasksOf(q)' \subseteq TasksOf(q)
    BY <1>h, <2>2, <2>4, ShrinkKeeps, Empties
  <2>6. TasksOf(p)' = {}
    BY <2>2, Empties DEF TasksOf, Live
  <2>7. Guarded(p)'
    BY <2>2, <2>6, Empties DEF Guarded, Stopping
  <2>8. \A q \in Procs \ {p} : Untouched(q)
    BY <2>2, <2>5, ManagerAssumption DEF Untouched
  <2> QED BY <1>h, <2>2, <2>3, <2>5, <2>7, <2>8, LeaseLocal
<1>3. CASE TakeLease(p)
  <2>1. leader = NoProc /\ leader' = p /\ coord' = [coord EXCEPT ![p] = "activating"]
        /\ coord[p] = "standby" /\ UNCHANGED <<life, op, stop, task, hist>>
    BY <1>3 DEF TakeLease
  <2>2. coord'[p] = "activating" /\ \A q \in Procs \ {p} : coord'[q] = coord[q]
    BY <1>t, <2>1
  <2>3. Phases(p)'
    BY <1>p, <2>1, <2>2 DEF Phases, Reconciling, Stopping, Held, Up
  <2>4. p \notin hist.intruded => Guarded(p)'
    BY <1>p, <1>s, <2>1, <2>2 DEF Guarded, Stopping
  <2> QED BY <1>h, <2>1, <2>2, <2>3, <2>4, PhaseMoves, ManagerAssumption
<1>4. CASE ScannerStarted(p) \/ Activate(p)
  <2>1. UNCHANGED <<leader, life, op, stop, task, hist>>
    BY <1>4 DEF ScannerStarted, Activate
  <2>2. /\ \A q \in Procs \ {p} : coord'[q] = coord[q]
        /\ \/ coord[p] = "activating" /\ life[p].started /\ coord'[p] = "starting"
           \/ coord[p] = "starting" /\ coord'[p] = "active"
    BY <1>4, <1>t DEF ScannerStarted, Activate
  <2>3. Phases(p)'
    BY <1>p, <2>1, <2>2 DEF Phases, Reconciling, Stopping, Held, Up
  <2>4. p \notin hist.intruded => Guarded(p)'
    BY <1>p, <1>s, <2>1, <2>2 DEF Guarded, Stopping
  <2> QED BY <1>h, <2>1, <2>2, <2>3, <2>4, PhaseMoves
<1>5. CASE ReconcileFails(p)
  <2>1. /\ UNCHANGED <<leader, task, hist>> /\ op[p].pc = "reconcile"
    BY <1>5 DEF ReconcileFails
  <2>2. /\ ~life'[p].acquired /\ life'[p].started = life[p].started
        /\ life'[p].closed = life[p].closed
        /\ \A q \in Procs \ {p} : life'[q] = life[q]
    BY <1>5, <1>t, GivenUp DEF ReconcileFails
  <2>3. op'[p] = NoOp /\ \A q \in Procs \ {p} : op'[q] = op[q]
    BY <1>5, <1>t, LeaveIs DEF ReconcileFails
  <2>4. /\ \A q \in Procs \ {p} : coord'[q] = coord[q] /\ stop'[q] = stop[q]
        /\ \/ /\ coord[p] = "activating" /\ coord'[p] = "rolling"
              /\ stop'[p].pc = "scheduler" /\ stop'[p].runs = stop[p].runs
           \/ coord'[p] = coord[p] /\ stop'[p] = stop[p]
    <3>1. CASE op[p].kind = "start"
      <4>1. coord[p] = "activating"
        BY <1>p, <2>1, <3>1 DEF Phases, Reconciling
      <4>2. StopFrom(p, "rolling")
        BY <1>5, <3>1 DEF ReconcileFails
      <4> QED BY <1>t, <4>1, <4>2, StopFromIs
    <3>2. CASE op[p].kind # "start"
      BY <1>5, <3>2 DEF ReconcileFails
    <3> QED BY <3>1, <3>2
  <2>5. ~life[p].started /\ (p \notin hist.intruded => TasksOf(p) = {})
    BY <2>1, FreshOwner
  <2>6. Phases(p)'
    BY <1>p, <2>1, <2>2, <2>3, <2>4, <2>5, Empties
       DEF Phases, Reconciling, Stopping, Held, Up
  <2>7. TasksShrink
    BY <2>1, SameTasks DEF LeaseInv
  <2>8. /\ TasksOwned' /\ TakeoverFindsNoTask'
        /\ \A q \in Procs : TasksOf(q)' \subseteq TasksOf(q)
    BY <1>h, <2>1, <2>3, <2>7, ShrinkKeeps, Empties
  <2>9. p \notin hist'.intruded => Guarded(p)'
    BY <1>p, <1>s, <2>1, <2>2, <2>3, <2>4, <2>5, Empties DEF Guarded
  <2>10. \A q \in Procs \ {p} : Untouched(q)
    BY <2>1, <2>2, <2>3, <2>4, <2>8 DEF Untouched
  <2> QED BY <1>h, <2>1, <2>6, <2>8, <2>9, <2>10, LeaseLocal
<1>6. CASE SchedulerFails(p)
  <2>1. UNCHANGED <<leader, life, op, task, hist>> /\ coord[p] = "starting"
    BY <1>6 DEF SchedulerFails
  <2>2. /\ stop'[p].pc = "scheduler" /\ stop'[p].runs = stop[p].runs /\ coord'[p] = "rolling"
        /\ \A q \in Procs \ {p} : stop'[q] = stop[q] /\ coord'[q] = coord[q]
    BY <1>6, <1>t, StopFromIs DEF SchedulerFails
  <2>3. Phases(p)'
    BY <1>p, <2>1, <2>2 DEF Phases, Reconciling, Stopping, Held, Up
  <2>4. p \notin hist.intruded => Guarded(p)'
    BY <1>p, <1>s, <2>1, <2>2 DEF Guarded
  <2> QED BY <1>h, <2>1, <2>2, <2>3, <2>4, PhaseMoves
<1>7. CASE Shutdown(p)
  <2>1. UNCHANGED <<leader, life, op, task, hist>>
    BY <1>7 DEF Shutdown
  <2>2. CASE coord[p] = "active" /\ StopFrom(p, "closing")
    <3>1. /\ stop'[p].pc = "scheduler" /\ stop'[p].runs = stop[p].runs /\ coord'[p] = "closing"
          /\ \A q \in Procs \ {p} : stop'[q] = stop[q] /\ coord'[q] = coord[q]
      BY <1>t, <2>2, StopFromIs
    <3>2. Phases(p)'
      BY <1>p, <2>1, <2>2, <3>1 DEF Phases, Reconciling, Stopping, Held, Up
    <3>3. p \notin hist.intruded => Guarded(p)'
      BY <1>p, <1>s, <2>1, <3>1 DEF Guarded
    <3> QED BY <1>h, <2>1, <3>1, <3>2, <3>3, PhaseMoves
  <2>3. CASE /\ UNCHANGED stop /\ coord[p] \in {"standby", "rolling", "yielding"}
             /\ coord' = [coord EXCEPT ![p] = CASE coord[p] = "standby" -> "stopped"
                                                [] coord[p] = "rolling" -> "folding"
                                                [] OTHER                -> "releasing"]
    <3>1. /\ \A q \in Procs \ {p} : coord'[q] = coord[q]
          /\ \/ coord[p] = "standby" /\ coord'[p] = "stopped"
             \/ coord[p] = "rolling" /\ coord'[p] = "folding"
             \/ coord[p] = "yielding" /\ coord'[p] = "releasing"
      BY <1>t, <2>3
    <3>2. Phases(p)'
      BY <1>p, <2>1, <2>3, <3>1 DEF Phases, Reconciling, Stopping, Held, Up
    <3>3. p \notin hist.intruded => Guarded(p)'
      BY <1>p, <1>s, <2>1, <2>3, <3>1 DEF Guarded, Stopping
    <3> QED BY <1>h, <2>1, <2>3, <3>1, <3>2, <3>3, PhaseMoves
  <2> QED BY <1>7, <2>2, <2>3 DEF Shutdown
<1>8. CASE ShutdownActivation(p)
  <2>1. /\ UNCHANGED <<leader, task, hist>> /\ coord[p] \in {"activating", "starting"}
    BY <1>8 DEF ShutdownActivation
  <2>2. /\ stop'[p].pc = "scheduler" /\ stop'[p].runs = stop[p].runs /\ coord'[p] = "folding"
        /\ \A q \in Procs \ {p} : stop'[q] = stop[q] /\ coord'[q] = coord[q]
    BY <1>8, <1>t, StopFromIs DEF ShutdownActivation
  <2>3. CASE ~Reconciling(p)
    <3>1. UNCHANGED <<op, life>>
      BY <1>8, <2>3 DEF ShutdownActivation
    <3>2. Phases(p)'
      BY <1>p, <2>1, <2>2, <2>3, <3>1 DEF Phases, Reconciling, Stopping, Held, Up
    <3>3. p \notin hist.intruded => Guarded(p)'
      BY <1>p, <1>s, <2>1, <2>2, <3>1 DEF Guarded
    <3> QED BY <1>h, <2>1, <2>2, <3>1, <3>2, <3>3, PhaseMoves
  <2>4. CASE Reconciling(p)
    <3>1. op[p].pc = "reconcile" /\ Leave(p) /\ life' = [life EXCEPT ![p].acquired = FALSE]
      BY <1>8, <2>4 DEF ShutdownActivation, Reconciling
    <3>2. /\ ~life'[p].acquired /\ life'[p].started = life[p].started
          /\ life'[p].closed = life[p].closed
          /\ \A q \in Procs \ {p} : life'[q] = life[q]
      BY <1>t, <3>1, GivenUp
    <3>3. op'[p] = NoOp /\ \A q \in Procs \ {p} : op'[q] = op[q]
      BY <1>t, <3>1, LeaveIs
    <3>4. ~life[p].started /\ (p \notin hist.intruded => TasksOf(p) = {})
      BY <3>1, FreshOwner
    <3>5. Phases(p)'
      BY <1>p, <2>1, <2>2, <3>2, <3>3, <3>4, Empties
         DEF Phases, Reconciling, Stopping, Held, Up
    <3>6. TasksShrink
      BY <2>1, SameTasks DEF LeaseInv
    <3>7. /\ TasksOwned' /\ TakeoverFindsNoTask'
          /\ \A q \in Procs : TasksOf(q)' \subseteq TasksOf(q)
      BY <1>h, <2>1, <3>3, <3>6, ShrinkKeeps, Empties
    <3>8. p \notin hist'.intruded => Guarded(p)'
      BY <1>p, <1>s, <2>1, <2>2, <3>2, <3>3, <3>4, Empties DEF Guarded
    <3>9. \A q \in Procs \ {p} : Untouched(q)
      BY <2>1, <2>2, <3>2, <3>3, <3>7 DEF Untouched
    <3> QED BY <1>h, <2>1, <3>5, <3>7, <3>8, <3>9, LeaseLocal
  <2> QED BY <2>3, <2>4
<1>9. CASE ReleaseLease(p)
  <2>1. /\ UNCHANGED <<leader, life, op, stop, task, hist>>
        /\ coord[p] \in {"closing", "rolling", "folding"} /\ stop[p].pc = "none"
    BY <1>9, Empties DEF ReleaseLease
  <2>2. /\ \A q \in Procs \ {p} : coord'[q] = coord[q]
        /\ coord'[p] \in {"yielding", "releasing"}
    BY <1>9, <1>t DEF ReleaseLease
  <2>3. Phases(p)'
    BY <1>p, <2>1, <2>2 DEF Phases, Reconciling, Stopping, Held, Up
  <2>4. p \notin hist.intruded => Guarded(p)'
    BY <1>p, <1>s, <2>1, <2>2 DEF Guarded, Stopping
  <2> QED BY <1>h, <2>1, <2>2, <2>3, <2>4, PhaseMoves
<1>10. CASE LeaseReleased(p)
  <2>1. /\ UNCHANGED <<life, op, stop, task, hist>> /\ leader' = NoProc
        /\ coord[p] \in {"yielding", "releasing"}
    BY <1>10 DEF LeaseReleased
  <2>2. /\ \A q \in Procs \ {p} : coord'[q] = coord[q]
        /\ coord'[p] \in {"standby", "stopped"}
    BY <1>10, <1>t DEF LeaseReleased
  <2>3. leader = p
    BY <1>p, <2>1 DEF Phases, Held, Up
  <2>4. Phases(p)'
    BY <1>p, <2>1, <2>2, ManagerAssumption DEF Phases, Reconciling, Stopping, Held, Up
  <2>5. p \notin hist.intruded => Guarded(p)'
    BY <1>p, <1>s, <2>1, <2>2 DEF Guarded, Stopping
  <2> QED BY <1>h, <2>1, <2>2, <2>3, <2>4, <2>5, PhaseMoves, ManagerAssumption
<1>11. CASE LoopEnds(p)
  <2>1. /\ UNCHANGED <<leader, coord, life, op, stop>> /\ HistGrows
        /\ hist'.intruded = hist.intruded
        /\ CancelTasks(TasksOf(p), life[p].closed) /\ life[p].closed \in BOOLEAN
        /\ TasksOf(p) \in SUBSET Runs /\ \A r \in TasksOf(p) : Live(r)
    BY <1>11, <1>t, LoopEndsIs DEF TasksOf
  <2>2. TasksShrink
    BY <2>1, CancelShrinks
  <2>3. /\ TasksOwned' /\ TakeoverFindsNoTask'
        /\ \A q \in Procs : TasksOf(q)' \subseteq TasksOf(q)
    BY <2>1, <2>2, ShrinkKeeps
  <2>4. \A q \in Procs : Untouched(q)
    BY <2>1, <2>3 DEF Untouched
  <2>5. Phases(p)' /\ (p \notin hist'.intruded => Guarded(p)')
    BY <2>1, <2>4, UntouchedKeeps
  <2> QED BY <2>1, <2>3, <2>4, <2>5, LeaseLocal
<1> QED BY <1>1, <1>2, <1>3, <1>4, <1>5, <1>6, <1>7, <1>8, <1>9, <1>10, <1>11 DEF LeaseStep

\* The remaining steps end a run and no more.
LEMMA OtherLease ==
    ASSUME LeaseInv, ProcessTypes', HistGrows, hist'.intruded = hist.intruded,
           UNCHANGED <<leader, coord, life, op, stop, task>>
    PROVE  LeaseInv'
<1>1. TasksShrink
  BY SameTasks DEF LeaseInv
<1>2. /\ TasksOwned' /\ TakeoverFindsNoTask'
      /\ \A q \in Procs : TasksOf(q)' \subseteq TasksOf(q)
  BY <1>1, ShrinkKeeps
<1>3. \A q \in Procs : Untouched(q)
  BY <1>2 DEF Untouched
<1>4. \A q \in Procs : Phases(q)' /\ (q \notin hist'.intruded => Guarded(q)')
  BY <1>3, UntouchedKeeps
<1> QED BY <1>2, <1>4 DEF LeaseInv, PhasesAgree, TasksGuarded

LEMMA LeaseInvStep ==
    ASSUME LeaseInv, [ManagerNext]_vars
    PROVE  LeaseInv'
<1>0. ProcessTypes /\ hist \in HistType
  BY DEF LeaseInv, ProcessTypes
<1>1. ProcessTypes'
  BY TypesStep DEF LeaseInv
<1>2. ASSUME NEW w \in late, LateWrite(w)
      PROVE  LeaseInv'
  BY <1>0, <1>1, <1>2, LateWriteIs, OtherLease
<1>3. CASE (\E p \in Procs, r \in Runs : CancelSettles(p, r)) \/ UNCHANGED vars
  <2>1. UNCHANGED <<leader, coord, life, op, stop, task, hist>>
    BY <1>3 DEF CancelSettles, vars, managerVars
  <2>2. HistGrows
    BY <1>0, <2>1 DEF HistGrows
  <2> QED BY <1>1, <2>1, <2>2, OtherLease
<1> QED BY <1>1, <1>2, <1>3, TaskLease, OpLease, EnterLease, StopLease, LeaseLease
        DEF ManagerNext

LEMMA LeaseInvInit == ManagerInit => LeaseInv
<1> SUFFICES ASSUME ManagerInit
             PROVE  LeaseInv
  OBVIOUS
<1>0. NoHistory \in HistType /\ NoHistory.intruded = {}
  BY DEF NoHistory, HistType
<1>1. ProcessTypes
  BY <1>0, Empties, ManagerAssumption DEF ManagerInit, ProcessTypes, Up
<1>2. PhasesAgree
  BY Empties, ManagerAssumption DEF ManagerInit, PhasesAgree, Phases, Reconciling, Held, Up
<1>3. TasksOwned /\ TakeoverFindsNoTask
  BY Empties DEF ManagerInit, TasksOwned, TakeoverFindsNoTask, Live
<1>4. TasksGuarded
  BY Empties DEF ManagerInit, TasksGuarded, Guarded, TasksOf, Live, Stopping
<1> QED BY <1>1, <1>2, <1>3, <1>4 DEF LeaseInv

\* A background task of a scan runs only in the process that has the runtime
\* lease, whatever crashes, fails or shuts down and whenever the lease moves, unless
\* that process served something in the window of a rollback.
THEOREM LeaseAlwaysCoversTasks == ManagerSpec => []LeaseCoversTasks
<1>1. LeaseInv /\ [ManagerNext]_vars => LeaseInv'
  BY LeaseInvStep
<1>2. LeaseInv => LeaseCoversTasks
  <2> SUFFICES ASSUME LeaseInv, NEW r \in Runs, Live(r), task[r].proc \notin hist.intruded
               PROVE  leader = task[r].proc
    BY DEF LeaseCoversTasks
  <2>1. PICK p \in Procs : p = task[r].proc
    BY DEF LeaseInv, ProcessTypes, TaskType, TasksOwned, Live
  <2>2. r \in TasksOf(p) /\ Guarded(p)
    BY <2>1 DEF TasksOf, LeaseInv, TasksGuarded
  <2> QED BY <2>1, <2>2 DEF Guarded
<1> QED BY LeaseInvInit, <1>1, <1>2, PTL DEF ManagerSpec

\* Whoever reconciles after a takeover interrupts no scan that still has a task, in
\* any process, unless one of the two served something in the window of a rollback.
THEOREM TakeoverNeverFindsTask == ManagerSpec => []TakeoverFindsNoTask
<1>1. LeaseInv /\ [ManagerNext]_vars => LeaseInv'
  BY LeaseInvStep
<1>2. LeaseInv => TakeoverFindsNoTask
  BY DEF LeaseInv
<1> QED BY LeaseInvInit, <1>1, <1>2, PTL DEF ManagerSpec

-----------------------------------------------------------------------------
(* Who ends a run.                                                         *)

\* No call forgets a run or takes back a cancellation or an end, and only an
\* insertion makes a run active.
LEMMA StatusMoves ==
    ASSUME TypeOK, [Next]_storeVars, NEW q \in Runs
    PROVE  /\ status[q] # "absent" => status'[q] # "absent"
           /\ CancelAccepted(q) => CancelAccepted(q)'
           /\ status'[q] = "cancelling" => status[q] = "cancelling" \/ cancelAsked'[q]
           /\ cancelAsked[q] /\ status[q] \in {"cancelling", "cancelled"} => cancelAsked'[q]
           /\ IsActive(q)' => IsActive(q) \/ status[q] = "absent"
<1> DEFINE Moves == /\ status[q] # "absent" => status'[q] # "absent"
                    /\ CancelAccepted(q) => CancelAccepted(q)'
                    /\ status'[q] = "cancelling" => status[q] = "cancelling" \/ cancelAsked'[q]
                    /\ cancelAsked[q] /\ status[q] \in {"cancelling", "cancelled"} => cancelAsked'[q]
                    /\ IsActive(q)' => IsActive(q) \/ status[q] = "absent"
<1> USE StatusClasses DEF CancelAccepted, IsActive, IsTerminal
<1>0. "cancelled" \in Terminal
  BY DEF Terminal
<1>1. ASSUME NEW r \in Runs, RunStep(r)
      PROVE  Moves
  <2>1. ASSUME NEW k \in Kinds, NEW stale \in BOOLEAN, NEW src \in Runs \cup {NoRun},
               NEW rows \in [Symbols -> RowState], InsertQueued(r, k, stale, src, rows)
        PROVE  Moves
    BY <1>0, <2>1 DEF InsertQueued, TypeOK
  <2>2. CASE status' = status /\ cancelAsked' = cancelAsked
    BY <2>2
  <2>3. CASE StartRun(r)
    BY <1>0, <2>3 DEF StartRun, TypeOK
  <2>4. CASE RequestCancel(r)
    BY <1>0, <2>4 DEF RequestCancel, TypeOK
  <2>5. ASSUME NEW st \in Terminal, NEW auth \in BOOLEAN, FinishActive(r, st, auth)
        PROVE  Moves
    BY <1>0, <2>5 DEF FinishActive, TypeOK
  <2> QED BY <1>1, <2>1, <2>2, <2>3, <2>4, <2>5
          DEF RunStep, CreateAndAttachTaskRun, RecordStockPoolSource, RowsWritten,
              FinishAgain, rowVars
<1>2. CASE ReconcileIncompleteRuns
  BY <1>2 DEF ReconcileIncompleteRuns, TypeOK
<1>3. CASE UNCHANGED storeVars \/ ReconcileOrphanedTaskRuns
  BY <1>3 DEF storeVars, ReconcileOrphanedTaskRuns, rowVars
<1> QED BY <1>1, <1>2, <1>3, StepCases

\* A run somebody works on, is to launch or to end, or let drift.
Known(r) == Live(r) \/ Settles(r) \/ Launching(r) \/ r \in hist.adrift

\* What a step may do to the verdicts and to those who are to write them.
KnownMild == \A r \in Runs : Known(r)' => Known(r) \/ status'[r] # "absent"

TaskMild(r) ==
    \/ task'[r] = task[r]
    \/ task'[r].want = task[r].want /\ task'[r].pc \notin Ending \cup {"finish"}
    \/ /\ WantOK(task[r].want, r)'
       /\ task'[r].pc \in Ending \cup {"finish"} => task'[r].want.st \in Terminal

LateMild ==
    \A w \in late' \ late :
        /\ w.run # NoRun => WantOK(w.want, w.run)'
        /\ w.call = "finish" => w.want.st \in Terminal
        /\ w.tracked => w.call = "finish"

CancelsMild ==
    /\ \A x \in waits' \ waits : CancelAccepted(x[2])'
    /\ \A p \in Procs : op'[p].pc = "cancelLocal" =>
          op'[p] = op[p] \/ CancelAccepted(op[p].run)'

StatusMild ==
    \A r \in Runs : status'[r] = "cancelled" =>
        status[r] \in {"cancelling", "cancelled"} \/ r \in hist'.undone

VerdictMild ==
    KnownMild /\ (\A r \in Runs : TaskMild(r)) /\ LateMild /\ CancelsMild /\ StatusMild

\* A verdict that was sound stays so.
LEMMA WantKeeps ==
    ASSUME TypeOK, [Next]_storeVars, HistGrows, NEW r \in Runs, NEW want, WantOK(want, r)
    PROVE  /\ want.auth => want.st \in Published
           /\ want.st = "cancelled" => CancelAccepted(r)' \/ r \in hist'.undone
  BY StatusMoves DEF WantOK, HistGrows

LEMMA VerdictKeeps ==
    ASSUME TypeOK, [Next]_storeVars, ProcessTypes, ProcessTypes', HistGrows, VerdictInv,
           VerdictMild
    PROVE  VerdictInv'
<1>1. RunsKnown'
  <2> SUFFICES ASSUME NEW r \in Runs, Known(r)'
               PROVE  status'[r] # "absent"
    BY DEF RunsKnown, Known
  <2>1. CASE Known(r)
    <3>1. status[r] # "absent"
      BY <2>1 DEF VerdictInv, RunsKnown, Known
    <3> QED BY <3>1, StatusMoves
  <2> QED BY <2>1 DEF VerdictMild, KnownMild
<1>2. VerdictsSound'
  <2>1. ASSUME NEW r \in Runs
        PROVE  /\ WantOK(task[r].want, r)'
               /\ task'[r].pc \in Ending \cup {"finish"} => task'[r].want.st \in Terminal
    <3>1. WantOK(task[r].want, r) /\ (task[r].pc \in Ending \cup {"finish"} => task[r].want.st \in Terminal)
      BY DEF VerdictInv, VerdictsSound
    <3>2. CASE task'[r].want = task[r].want
      <4>1. WantOK(task[r].want, r)'
        BY <3>1, <3>2, WantKeeps DEF WantOK
      <4> QED BY <3>1, <4>1 DEF VerdictMild, TaskMild
    <3> QED BY <3>2 DEF VerdictMild, TaskMild
  <2>2. ASSUME NEW w \in late'
        PROVE  /\ w.run # NoRun => WantOK(w.want, w.run)'
               /\ w.call = "finish" => w.want.st \in Terminal
               /\ w.tracked => w.call = "finish"
    <3>1. CASE w \in late
      <4>1. ASSUME w.run # NoRun
            PROVE  WantOK(w.want, w.run)'
        <5>1. w.run \in Runs
          BY <3>1, <4>1 DEF ProcessTypes, WriteType
        <5>2. WantOK(w.want, w.run)
          BY <3>1, <4>1 DEF VerdictInv, VerdictsSound
        <5> QED BY <5>1, <5>2, WantKeeps DEF WantOK
      <4> QED BY <3>1, <4>1 DEF VerdictInv, VerdictsSound
    <3> QED BY <3>1 DEF VerdictMild, LateMild
  <2> QED BY <2>1, <2>2 DEF VerdictsSound
<1>3. CancelsSound'
  <2>1. ASSUME NEW x \in waits'
        PROVE  CancelAccepted(x[2])'
    <3>1. CASE x \in waits
      <4>1. x[2] \in Runs
        BY <3>1 DEF ProcessTypes
      <4> QED BY <3>1, <4>1, StatusMoves DEF VerdictInv, CancelsSound
    <3> QED BY <3>1 DEF VerdictMild, CancelsMild
  <2>2. ASSUME NEW p \in Procs, op'[p].pc = "cancelLocal"
        PROVE  CancelAccepted(op[p].run)'
    <3>1. CASE op'[p] = op[p]
      <4>1. op[p].run \in Runs /\ CancelAccepted(op[p].run)
        BY <2>2, <3>1 DEF ProcessTypes, RunsNamed, VerdictInv, CancelsSound
      <4> QED BY <3>1, <4>1, StatusMoves DEF CancelAccepted, IsTerminal
    <3> QED BY <2>2, <3>1 DEF VerdictMild, CancelsMild
  <2>3. ASSUME NEW r \in Runs, status'[r] = "cancelling"
        PROVE  cancelAsked'[r]
    BY <2>3, StatusMoves DEF VerdictInv, CancelsSound
  <2>4. ASSUME NEW r \in Runs, status'[r] = "cancelled"
        PROVE  cancelAsked'[r] \/ r \in hist'.undone
    BY <2>4, StatusMoves DEF VerdictMild, StatusMild, VerdictInv, CancelsSound, HistGrows
  <2> QED BY <2>1, <2>2, <2>3, <2>4 DEF CancelsSound
<1> QED BY <1>1, <1>2, <1>3 DEF VerdictInv

\* What a step may do to the order of a run's working and its ending.
LaunchMild ==
    \A r \in Runs :
        /\ Launching(r)' => \/ Launching(r)
                            \/ status[r] = "absent" /\ status'[r] = "queued"
        /\ Launching(r) /\ Launching(r)' /\ IsActive(r)' => status'[r] = status[r]
        /\ task'[r].pc \in Working \cup {"new"} =>
              \/ task[r].pc \in Working \cup {"new"}
              \/ Launching(r) /\ ~Launching(r)'
        /\ Live(r)' => Live(r) \/ (Launching(r) /\ ~Launching(r)')
        /\ (task'[r].pc \in Working \cup {"new"} \/ Launching(r)') /\ IsActive(r)
              => IsActive(r)' \/ r \in hist'.usurped

SettleMild ==
    \A r \in Runs : Settles(r)' =>
        \/ Settles(r)
        \/ task'[r].pc \in Ending \cup {"none"} /\ ~Launching(r)'

DriftMild ==
    /\ \A r \in hist'.adrift \ hist.adrift :
          ~Live(r)' /\ ~Launching(r)' /\ \A w \in late' : w.run = r => w.call = "finish"
    /\ \A w \in late' \ late :
          w.call = "finish" \/ w.run = NoRun \/ (w.run \in Runs /\ Live(w.run))

OrderMild == LaunchMild /\ SettleMild /\ DriftMild

LEMMA OrderKeeps ==
    ASSUME TypeOK, [Next]_storeVars, ProcessTypes, ProcessTypes', HistGrows, VerdictInv,
           OrderInv, Peace' => OrderMild
    PROVE  OrderInv'
<1> SUFFICES ASSUME Peace'
             PROVE  /\ WorkersActive' /\ SettlersWait'
                    /\ LaunchesWait' /\ AdriftStill'
  BY DEF OrderInv
<1>0. /\ WorkersActive /\ SettlersWait /\ LaunchesWait /\ AdriftStill /\ OrderMild
  BY DEF OrderInv, Peace, HistGrows
<1>k. \A r \in Runs : Live(r) \/ Settles(r) \/ Launching(r) \/ r \in hist.adrift => status[r] # "absent"
  BY DEF VerdictInv, RunsKnown
<1>t. \A r \in Runs : task'[r].pc \in Working \cup Ending \cup {"none", "new"}
  BY DEF ProcessTypes, TaskType
<1>1. WorkersActive'
  <2> SUFFICES ASSUME NEW r \in Runs, task'[r].pc \in Working \cup {"new"} \/ Launching(r)'
               PROVE  IsActive(r)' \/ r \in hist'.usurped
    BY DEF WorkersActive
  <2>1. CASE task[r].pc \in Working \cup {"new"} \/ Launching(r)
    BY <1>0, <2>1 DEF WorkersActive, OrderMild, LaunchMild, HistGrows
  <2>2. CASE status'[r] = "queued"
    BY <2>2 DEF IsActive, Active
  <2> QED BY <1>0, <2>1, <2>2 DEF OrderMild, LaunchMild
<1>2. SettlersWait'
  <2> SUFFICES ASSUME NEW r \in Runs, Settles(r)'
               PROVE  task'[r].pc \in Ending \cup {"none"} /\ ~Launching(r)'
    BY DEF SettlersWait
  <2>1. CASE Settles(r)
    <3>1. task[r].pc \in Ending \cup {"none"} /\ ~Launching(r) /\ status[r] # "absent"
      BY <1>0, <1>k, <2>1 DEF SettlersWait
    <3>2. task[r].pc \notin Working \cup {"new"}
      BY <3>1 DEF Working, Writing, Ending
    <3>3. ~Launching(r)' /\ task'[r].pc \notin Working \cup {"new"}
      BY <1>0, <3>1, <3>2 DEF OrderMild, LaunchMild
    <3> QED BY <1>t, <3>3
  <2> QED BY <1>0, <2>1 DEF OrderMild, SettleMild
<1>3. LaunchesWait'
  <2> SUFFICES ASSUME NEW r \in Runs, Launching(r)'
               PROVE  task'[r].pc = "none" /\ (IsActive(r)' => status'[r] = "queued")
    BY DEF LaunchesWait
  <2>1. ~Live(r)
    BY <1>0, <1>k DEF OrderMild, LaunchMild, LaunchesWait, Live
  <2>2. task'[r].pc = "none"
    BY <1>0, <2>1 DEF OrderMild, LaunchMild, Live
  <2>3. CASE Launching(r)
    <3>1. IsActive(r)' => IsActive(r)
      BY <1>k, <2>3, StatusMoves
    <3> QED BY <1>0, <2>2, <2>3, <3>1 DEF OrderMild, LaunchMild, LaunchesWait
  <2> QED BY <1>0, <2>2, <2>3 DEF OrderMild, LaunchMild
<1>4. AdriftStill'
  <2> SUFFICES ASSUME NEW r \in hist'.adrift
               PROVE  ~Live(r)' /\ ~Launching(r)' /\ \A w \in late' : w.run = r => w.call = "finish"
    BY DEF AdriftStill
  <2>0. r \in Runs
    BY DEF ProcessTypes, HistType
  <2>1. CASE r \in hist.adrift
    <3>1. /\ ~Live(r) /\ ~Launching(r) /\ \A w \in late : w.run = r => w.call = "finish"
          /\ status[r] # "absent"
      BY <1>0, <1>k, <2>0, <2>1 DEF AdriftStill
    <3>2. ~Live(r)' /\ ~Launching(r)'
      BY <1>0, <2>0, <3>1 DEF OrderMild, LaunchMild
    <3>3. \A w \in late' : w.run = r => w.call = "finish"
      BY <1>0, <2>0, <3>1, NoRunAssumption DEF OrderMild, DriftMild
    <3> QED BY <3>2, <3>3
  <2> QED BY <1>0, <2>1 DEF OrderMild, DriftMild
<1> QED BY <1>1, <1>2, <1>3, <1>4
\* EndInv is what the two layers say together, and EndKeeps what a step has to show.
EndInv == VerdictInv /\ OrderInv

LEMMA EndKeeps ==
    ASSUME TypeOK, [Next]_storeVars, LeaseInv, ProcessTypes', HistGrows, EndInv,
           VerdictMild, Peace /\ Peace' => OrderMild
    PROVE  EndInv'
<1>1. ProcessTypes /\ VerdictInv /\ OrderInv
  BY DEF LeaseInv, EndInv
<1>2. Peace' => Peace
  BY DEF Peace, HistGrows
<1>3. VerdictInv'
  BY <1>1, VerdictKeeps
<1>4. OrderInv'
  BY <1>1, <1>2, OrderKeeps
<1> QED BY <1>3, <1>4 DEF EndInv

\* In peace only the process with the lease serves operations and has tasks.
LEMMA PeaceMeans ==
    ASSUME LeaseInv, EndInv, Peace
    PROVE  /\ WorkersActive /\ SettlersWait /\ LaunchesWait /\ AdriftStill
           /\ \A p \in Procs : op[p].pc # "idle" => leader = p
           /\ \A r \in Runs : Live(r) => leader = task[r].proc
<1>1. \A p \in Procs : Phases(p) /\ Guarded(p)
  BY DEF LeaseInv, PhasesAgree, TasksGuarded, Peace
<1>2. \A p \in Procs : op[p].pc # "idle" => leader = p
  BY <1>1 DEF Phases, Guarded
<1>3. ASSUME NEW r \in Runs, Live(r)
      PROVE  leader = task[r].proc
  <2>1. task[r].proc \in Procs
    BY <1>3 DEF LeaseInv, TasksOwned, Live, ProcessTypes, TaskType
  <2>2. r \in TasksOf(task[r].proc)
    BY <1>3 DEF TasksOf
  <2> QED BY <1>1, <2>1, <2>2 DEF Guarded
<1> QED BY <1>2, <1>3 DEF EndInv, OrderInv

\* A run is treated mildly if its end is not left to others, or nobody works on it
\* afterwards, or its status does not take anybody by surprise.
Surprised(r) ==
    \/ IsActive(r) /\ ~IsActive(r)' /\ r \notin hist'.usurped
    \/ IsActive(r)' /\ status'[r] # status[r] /\ Launching(r)

SameWork ==
    \A r \in Runs :
        /\ Launching(r)' => Launching(r)
        /\ task'[r].pc \in Working \cup {"new"} => task[r].pc \in Working \cup {"new"}
        /\ Live(r)' => Live(r)

LEMMA OrderFrom ==
    ASSUME SettlersWait, SameWork, SettleMild, DriftMild,
           \A r \in Runs : Surprised(r) =>
              Settles(r) \/ (task'[r].pc \notin Working \cup {"new"} /\ ~Launching(r)')
    PROVE  OrderMild
<1>1. ASSUME NEW r \in Runs, task'[r].pc \in Working \cup {"new"} \/ Launching(r)'
      PROVE  ~Surprised(r)
  <2>1. task[r].pc \in Working \cup {"new"} \/ Launching(r)
    BY <1>1 DEF SameWork
  <2>2. ~Settles(r)
    BY <2>1 DEF SettlersWait, Working, Writing, Ending
  <2> QED BY <1>1, <2>2
<1>2. LaunchMild
  BY <1>1 DEF LaunchMild, SameWork, Surprised
<1> QED BY <1>2 DEF OrderMild

\* No operation is about to launch a run, or to cancel its task, but those that were.
OpCalm == \A q \in Procs : op'[q].pc \in {"launch", "cancelLocal"} => op'[q] = op[q]

LEMMA CalmLaunches ==
    ASSUME OpCalm, NEW r \in Runs
    PROVE  Launching(r)' => Launching(r)
  BY DEF OpCalm, Launching

\* Less is left to settle.
FewerSettle ==
    /\ late' \subseteq late /\ waits' \subseteq waits
    /\ \A q \in Procs : failed'[q] \subseteq failed[q] /\ stop'[q].runs \subseteq stop[q].runs

LEMMA FewerSettles ==
    ASSUME FewerSettle
    PROVE  LateMild /\ SettleMild /\ \A r \in Runs : Settles(r)' => Settles(r)
<1>1. \A r \in Runs : Settles(r)' => Settles(r)
  BY DEF Settles, FewerSettle
<1> QED BY <1>1 DEF LateMild, SettleMild, FewerSettle

\* Nothing of what EndInv speaks of changes, or less is left.
LEMMA IdleMild ==
    ASSUME TypeOK, [Next]_storeVars, LeaseInv, ProcessTypes', HistGrows, EndInv,
           status' = status, hist'.adrift = hist.adrift,
           \A r \in Runs : task'[r] \in {task[r], NoTask},
           FewerSettle, OpCalm
    PROVE  EndInv'
<1>0. NoTask.pc = "none" /\ NoTask.want = Undecided
  BY Empties
<1>1. LateMild /\ SettleMild /\ \A r \in Runs : Settles(r)' => Settles(r)
  BY FewerSettles
<1>2. SameWork
  BY <1>0, CalmLaunches DEF SameWork, Live, Working, Writing
<1>3. KnownMild
  BY <1>1, <1>2 DEF KnownMild, Known, SameWork
<1>4. \A r \in Runs : TaskMild(r)
  BY <1>0 DEF TaskMild, Ending, WantOK, Undecided
<1>5. CancelsMild /\ StatusMild
  BY DEF CancelsMild, StatusMild, OpCalm, FewerSettle
<1>6. DriftMild
  BY DEF DriftMild, FewerSettle
<1>7. \A r \in Runs : ~Surprised(r)
  BY DEF Surprised, IsActive
<1>8. Peace => OrderMild
  BY <1>1, <1>2, <1>6, <1>7, OrderFrom, PeaceMeans
<1> QED BY <1>1, <1>3, <1>4, <1>5, <1>8, EndKeeps DEF VerdictMild

\* The ways a step treats the statuses: it ends no run, or it ends one.
Calm ==
    \A q \in Runs : /\ IsActive(q) <=> IsActive(q)'
                    /\ status'[q] = "cancelled" => status[q] = "cancelled"

LEMMA ProgressCalm ==
    ASSUME TypeOK, NEW r \in Runs, NEW stale, NEW batch, NEW outcome,
           \/ CreateAndAttachTaskRun(r) \/ StartRun(r) \/ RecordStockPoolSource(r, stale)
           \/ SeedResults(r) \/ SaveResultBatch(r, batch, outcome) \/ RequestCancel(r)
    PROVE  Calm /\ \A q \in Runs \ {r} : status'[q] = status[q]
<1> USE StatusClasses DEF Calm, IsActive
<1>1. CASE StartRun(r)
  BY <1>1 DEF StartRun, TypeOK
<1>2. CASE RequestCancel(r)
  BY <1>2 DEF RequestCancel, TypeOK
<1>3. CASE status' = status
  BY <1>3
<1> QED BY <1>1, <1>2, <1>3
        DEF CreateAndAttachTaskRun, RecordStockPoolSource, SeedResults, SaveResultBatch, rowVars

LEMMA FinishEnds ==
    ASSUME TypeOK, NEW r \in Runs, NEW st \in Terminal, NEW auth, FinishRun(r, st, auth)
    PROVE  /\ \A q \in Runs \ {r} : status'[q] = status[q]
           /\ IsTerminal(r)'
           /\ status'[r] \in {status[r], st}
           /\ IsTerminal(r) => status'[r] = status[r]
<1>1. CASE FinishActive(r, st, auth)
  BY <1>1, StatusClasses DEF FinishActive, TypeOK, IsTerminal, IsActive
<1>2. CASE FinishAgain(r)
  BY <1>2 DEF FinishAgain, rowVars, IsTerminal
<1> QED BY <1>1, <1>2 DEF FinishRun

\* A terminal write ends its run, as it says.
LEMMA WriteEnds ==
    ASSUME TypeOK, NEW r \in Runs, NEW want, want.st \in Terminal, WantOK(want, r),
           FinishRun(r, want.st, want.auth)
    PROVE  /\ \A q \in Runs \ {r} : status'[q] = status[q]
           /\ IsTerminal(r)'
           /\ status'[r] = "cancelled" =>
                 status[r] \in {"cancelling", "cancelled"} \/ r \in hist.undone
<1>1. /\ \A q \in Runs \ {r} : status'[q] = status[q]
      /\ IsTerminal(r)'
      /\ status'[r] \in {status[r], want.st}
      /\ IsTerminal(r) => status'[r] = status[r]
  BY FinishEnds
<1>2. want.st = "cancelled" => status[r] = "cancelling" \/ IsTerminal(r) \/ r \in hist.undone
  BY DEF WantOK, CancelAccepted
<1> QED BY <1>1, <1>2

\* A tracked write ends its run, or the run is remembered.
LEMMA TrackedEnds ==
    ASSUME TypeOK, ProcessTypes, NEW p \in Procs, NEW r \in Runs, NEW want,
           want.st \in Terminal, WantOK(want, r),
           TrackedFinish(p, r, want)
    PROVE  /\ \A q \in Runs \ {r} : status'[q] = status[q]
           /\ status'[r] = "cancelled" =>
                 status[r] \in {"cancelling", "cancelled"} \/ r \in hist.undone
           /\ \A q \in Procs \ {p} : failed'[q] = failed[q]
           /\ \/ IsTerminal(r)' /\ failed'[p] = failed[p] \ {r}
              \/ UNCHANGED storeVars /\ failed'[p] = failed[p] \cup {r}
<1>1. CASE Persisted(p, r, want)
  <2>1. FinishRun(r, want.st, want.auth) /\ failed' = [failed EXCEPT ![p] = failed[p] \ {r}]
    BY <1>1 DEF Persisted
  <2> QED BY <2>1, WriteEnds DEF ProcessTypes
<1>2. CASE NotPersisted(p, r, want)
  BY <1>2 DEF NotPersisted, storeVars, ProcessTypes
<1> QED BY <1>1, <1>2 DEF TrackedFinish

\* Recovery interrupts a run that it forgets.
LEMMA RecoverEnds ==
    ASSUME TypeOK, ProcessTypes, NEW p \in Procs, Recover(p)
    PROVE  /\ \A q \in Procs \ {p} : failed'[q] = failed[q]
           /\ \/ /\ UNCHANGED storeVars
                 /\ failed'[p] = failed[p]
              \/ /\ UNCHANGED storeVars
                 /\ failed'[p] = failed[p] \ Lost(p)
                 /\ \A r \in Lost(p) : ~IsActive(r)
              \/ \E r \in Lost(p) :
                    /\ IsActive(r) /\ IsTerminal(r)' /\ status'[r] # "cancelled"
                    /\ \A q \in Runs \ {r} : status'[q] = status[q]
                    /\ failed'[p] = failed[p] \ Lost(p)
<1>1. CASE UNCHANGED <<storeVars, failed>>
  BY <1>1
<1>2. CASE /\ UNCHANGED storeVars
           /\ failed' = [failed EXCEPT ![p] = failed[p] \ Lost(p)]
           /\ \A r \in Lost(p) : ~IsActive(r)
  BY <1>2 DEF ProcessTypes
<1>3. ASSUME NEW r \in Lost(p), IsActive(r), FinishRun(r, "interrupted", FALSE),
             failed' = [failed EXCEPT ![p] = failed[p] \ Lost(p)]
      PROVE  /\ IsTerminal(r)' /\ status'[r] # "cancelled"
             /\ \A q \in Runs \ {r} : status'[q] = status[q]
             /\ failed'[p] = failed[p] \ Lost(p)
             /\ \A q \in Procs \ {p} : failed'[q] = failed[q]
  <2>1. r \in Runs /\ "interrupted" \in Terminal
    BY DEF Lost, ProcessTypes, Terminal
  <2>2. status[r] # "cancelled"
    BY <1>3 DEF IsActive, Active
  <2> QED BY <1>3, <2>1, <2>2, FinishEnds DEF ProcessTypes
<1> QED BY <1>1, <1>2, <1>3 DEF Recover

\* A run whose end was left to others is ended, or nothing is; no task is touched.
LEMMA SettledMild ==
    ASSUME TypeOK, [Next]_storeVars, LeaseInv, ProcessTypes', HistGrows, EndInv,
           hist'.adrift = hist.adrift, UNCHANGED <<task, op>>,
           NEW r \in Runs, Settles(r),
           \A q \in Runs \ {r} : status'[q] = status[q],
           status'[r] = "cancelled" => status[r] \in {"cancelling", "cancelled"}
                                       \/ r \in hist.undone,
           late' \subseteq late, waits' \subseteq waits,
           \A q \in Runs : Settles(q)' => Settles(q)
    PROVE  EndInv'
<1>1. OpCalm
  BY DEF OpCalm
<1>2. SameWork
  BY <1>1, CalmLaunches DEF SameWork, Live
<1>3. KnownMild
  BY <1>2 DEF KnownMild, Known, SameWork
<1>4. /\ \A q \in Runs : TaskMild(q)
      /\ LateMild /\ SettleMild
  BY DEF TaskMild, LateMild, SettleMild
<1>5. CancelsMild
  BY <1>1 DEF CancelsMild, OpCalm
<1>6. StatusMild
  BY DEF StatusMild, HistGrows
<1>7. DriftMild
  BY DEF DriftMild
<1>8. \A q \in Runs : Surprised(q) => Settles(q)
  BY DEF Surprised, IsActive
<1>9. Peace => OrderMild
  BY <1>2, <1>4, <1>7, <1>8, OrderFrom, PeaceMeans
<1> QED BY <1>3, <1>4, <1>5, <1>6, <1>9, EndKeeps DEF VerdictMild

\* A recovery ends at most a run that is remembered as lost, and no task is
\* touched by it.
LEMMA RecoverMild ==
    ASSUME TypeOK, [Next]_storeVars, LeaseInv, ProcessTypes', HistGrows, EndInv,
           hist'.adrift = hist.adrift, UNCHANGED <<task, late, waits>>,
           NEW p \in Procs, Recover(p), OpCalm,
           \A q \in Procs : stop'[q].runs = stop[q].runs
    PROVE  EndInv'
<1>0. ProcessTypes
  BY DEF LeaseInv
<1>1. FewerSettle
  BY <1>0, RecoverEnds DEF FewerSettle
<1>2. LateMild /\ SettleMild /\ \A r \in Runs : Settles(r)' => Settles(r)
  BY <1>1, FewerSettles
<1>3. SameWork
  BY CalmLaunches DEF SameWork, Live
<1>4. KnownMild
  BY <1>2, <1>3 DEF KnownMild, Known, SameWork
<1>5. (\A r \in Runs : TaskMild(r)) /\ DriftMild
  BY DEF TaskMild, DriftMild
<1>6. CancelsMild
  BY DEF CancelsMild, OpCalm
<1>7. \A r \in Lost(p) : r \in Runs /\ Settles(r)
  BY <1>0 DEF Lost, Settles, ProcessTypes
<1>8. /\ StatusMild
      /\ \A r \in Runs : Surprised(r) => Settles(r)
  <2>1. CASE UNCHANGED storeVars
    BY <2>1 DEF StatusMild, Surprised, IsActive, storeVars
  <2>2. ASSUME NEW r \in Lost(p), status'[r] # "cancelled",
               \A q \in Runs \ {r} : status'[q] = status[q]
        PROVE  StatusMild /\ \A q \in Runs : Surprised(q) => Settles(q)
    BY <1>7, <2>2 DEF StatusMild, Surprised, IsActive
  <2> QED BY <1>0, <2>1, <2>2, RecoverEnds
<1>9. Peace => OrderMild
  BY <1>2, <1>3, <1>5, <1>8, OrderFrom, PeaceMeans
<1> QED BY <1>2, <1>4, <1>5, <1>6, <1>8, <1>9, EndKeeps DEF VerdictMild

\* Cancelled tasks work no more, and what they leave behind knows its verdict.
LEMMA CancelMild ==
    ASSUME TypeOK, LeaseInv, EndInv, UNCHANGED storeVars, HistGrows,
           NEW S \in SUBSET Runs, NEW closed \in BOOLEAN,
           \A r \in S : Live(r),
           ~closed => \A r \in S : CancelAccepted(r) \/ r \in hist'.undone,
           CancelTasks(S, closed)
    PROVE  /\ \A r \in Runs : TaskMild(r)
           /\ LateMild
           /\ \A w \in late' \ late : w.run \in S
           /\ \A r \in S : task'[r].pc \in Ending \cup {"none"}
           /\ \A r \in Runs \ S : task'[r] = task[r]
<1>1. \A r \in S : task[r].proc \in Procs
  BY DEF LeaseInv, ProcessTypes, TasksOwned, TaskType, Live
<1>2. /\ \A r \in Runs \ S : task'[r] = task[r]
      /\ \A r \in S : task'[r] = AfterCancel(task[r], closed)
      /\ \A w \in late' \ late :
            /\ w.run \in S /\ w.want = task[w.run].want
            /\ \/ w.call = task[w.run].pc /\ task[w.run].pc \in Writing /\ ~w.tracked
               \/ w.call = "finish" /\ task[w.run].pc = "fail" /\ ~w.tracked
               \/ w.call = "finish" /\ task[w.run].pc = "wind" /\ w.tracked
  BY <1>1, CancelTasksIs DEF LeaseInv
<1>3. \A r \in Runs : task[r] \in TaskType
  BY DEF LeaseInv, ProcessTypes
<1>k. ASSUME NEW r \in Runs, NEW want, WantOK(want, r)
      PROVE  WantOK(want, r)'
  BY <1>k DEF WantOK, CancelAccepted, IsTerminal, storeVars, HistGrows
<1>4. ASSUME NEW r \in S
      PROVE  TaskMild(r) /\ task'[r].pc \in Ending \cup {"none"}
  <2>1. CASE task'[r] = NoTask
    BY <2>1 DEF TaskMild, NoTask, Undecided, Ending, WantOK
  <2>2. CASE /\ task[r].pc \in Working
             /\ task'[r].pc = "wind"
             /\ ~task'[r].want.auth
             /\ task'[r].want.st = (IF closed THEN "interrupted" ELSE "cancelled")
    <3>1. WantOK(task[r].want, r)'
      BY <2>2 DEF WantOK, CancelAccepted, IsTerminal, storeVars
    <3>2. task'[r].want.st \in Terminal
      BY <2>2 DEF Terminal
    <3> QED BY <2>2, <3>1, <3>2 DEF TaskMild, Ending
  <2> QED BY <1>2, <1>3, <2>1, <2>2, AfterCancelIs
<1>5. LateMild
  <2> SUFFICES ASSUME NEW w \in late' \ late
               PROVE  /\ w.run # NoRun => WantOK(w.want, w.run)'
                      /\ w.call = "finish" => w.want.st \in Terminal
                      /\ w.tracked => w.call = "finish"
    BY DEF LateMild
  <2>1. w.run \in Runs /\ WantOK(w.want, w.run)
    BY <1>2 DEF EndInv, VerdictInv, VerdictsSound
  <2>2. WantOK(w.want, w.run)'
    BY <1>k, <2>1 DEF WantOK
  <2>3. w.call = "finish" => task[w.run].pc \in Ending \cup {"finish"}
    BY <1>2 DEF Ending
  <2>4. w.call = "finish" => w.want.st \in Terminal
    BY <1>2, <2>3 DEF EndInv, VerdictInv, VerdictsSound
  <2> QED BY <1>2, <2>2, <2>4
<1>6. \A r \in Runs : TaskMild(r)
  BY <1>2, <1>4 DEF TaskMild
<1> QED BY <1>2, <1>4, <1>5, <1>6

\* A working task goes on or decides how its run ends.
LEMMA TaskEnd ==
    ASSUME TypeOK, [Next]_storeVars, LeaseInv, ProcessTypes', EndInv,
           NEW r \in Runs, TaskStep(r)
    PROVE  EndInv'
<1>0. /\ UNCHANGED <<op, stop, late, waits, hist>>
      /\ task[r] \in TaskType /\ task \in [Runs -> TaskType] /\ hist \in HistType
      /\ ProcessTypes /\ TasksOwned
  BY DEF TaskStep, TaskBegins, TaskAttaches, TaskStarts, TaskRecordsPool, TaskSeeds,
         TaskSaves, TaskDecides, TaskRaises, TaskFinishes, TaskLocal, TaskCommon,
         LeaseInv, ProcessTypes
<1>h. HistGrows /\ OpCalm
  BY <1>0 DEF HistGrows, OpCalm
<1>1. LateMild /\ CancelsMild /\ DriftMild
  BY <1>0 DEF LateMild, CancelsMild, DriftMild
<1>l. \A q \in Runs : Launching(q)' => Launching(q)
  BY <1>h, CalmLaunches
<1>2. CASE TaskFinishes(r)
  <2>1. /\ task[r].pc \in {"finish"} \cup Ending /\ task[r].proc \in Procs
        /\ task'[r] = NoTask /\ \A q \in Runs \ {r} : task'[q] = task[q]
        /\ TrackedFinish(task[r].proc, r, task[r].want)
    BY <1>0, <1>2, TaskGone DEF TaskFinishes
  <2>2. Live(r)
    BY <2>1 DEF Live, Ending
  <2>3. task[r].want.st \in Terminal /\ WantOK(task[r].want, r)
    BY <2>1 DEF EndInv, VerdictInv, VerdictsSound
  <2>4. /\ \A q \in Runs \ {r} : status'[q] = status[q]
        /\ status'[r] = "cancelled" =>
              status[r] \in {"cancelling", "cancelled"} \/ r \in hist.undone
        /\ \A p \in Procs : failed'[p] \subseteq failed[p] \cup {r}
    BY <1>0, <2>1, <2>3, TrackedEnds
  <2>5. /\ NoTask.pc = "none" /\ NoTask.want = Undecided
    BY Empties
  <2>6. StatusMild
    BY <1>0, <2>4 DEF StatusMild
  <2>7. \A q \in Runs : TaskMild(q)
    BY <2>1, <2>5 DEF TaskMild, WantOK, Undecided, Ending
  <2>8. \A q \in Runs : Settles(q)' => Settles(q) \/ q = r
    BY <1>0, <2>4 DEF Settles
  <2>9. SameWork
    BY <1>l, <2>1, <2>5 DEF SameWork, Live, Working, Writing
  <2>10. KnownMild
    BY <1>0, <2>2, <2>8, <2>9 DEF KnownMild, Known, SameWork
  <2>11. ASSUME Peace
         PROVE  OrderMild
    <3>1. SettlersWait /\ LaunchesWait
      BY <2>11, PeaceMeans
    <3>2. ~Launching(r)'
      BY <1>l, <2>2, <3>1 DEF LaunchesWait, Live
    <3>3. SettleMild
      BY <2>1, <2>5, <2>8, <3>2 DEF SettleMild
    <3>4. \A q \in Runs : Surprised(q) => q = r
      BY <2>4 DEF Surprised, IsActive
    <3>5. task'[r].pc \notin Working \cup {"new"}
      BY <2>1, <2>5 DEF Working, Writing
    <3> QED BY <1>1, <2>9, <3>1, <3>2, <3>3, <3>4, <3>5, OrderFrom
  <2> QED BY <1>1, <1>h, <2>6, <2>7, <2>10, <2>11, EndKeeps DEF VerdictMild
<1>3. CASE ~TaskFinishes(r)
  <2>1. /\ UNCHANGED failed /\ \A q \in Runs \ {r} : task'[q] = task[q]
        /\ task[r].pc \in Working \cup {"new"} /\ task'[r].pc \in Working \cup {"fail"}
    BY <1>0, <1>3, TaskGoesOn
  <2>2. FewerSettle
    BY <1>0, <2>1 DEF FewerSettle
  <2>3. Calm /\ \A q \in Runs \ {r} : status'[q] = status[q]
    <3>1. CASE UNCHANGED storeVars
      BY <3>1 DEF Calm, storeVars, IsActive
    <3> QED BY <1>3, <3>1, ProgressCalm
            DEF TaskStep, TaskBegins, TaskAttaches, TaskStarts, TaskRecordsPool,
                TaskSeeds, TaskSaves, TaskDecides, TaskRaises
  <2>4. StatusMild
    BY <2>3 DEF Calm, StatusMild
  <2>5. TaskMild(r)
    <3>1. ASSUME NEW pc \in Working \ {"finish"}, Goto(r, pc)
          PROVE  TaskMild(r)
      <4>1. task'[r] = [task[r] EXCEPT !.pc = pc]
        BY <1>0, <3>1 DEF Goto
      <4>2. task'[r].pc = pc /\ task'[r].want = task[r].want
        BY <1>0, <4>1 DEF TaskType
      <4> QED BY <3>1, <4>2 DEF TaskMild, Working, Writing, Ending
    <3>2. ASSUME NEW pc \in {"finish", "fail"}, NEW st \in {"success", "degraded", "failed"},
                 NEW auth \in BOOLEAN, auth => st \in Published,
                 task'[r] = [task[r] EXCEPT !.pc = pc, !.want = [st |-> st, auth |-> auth]]
          PROVE  TaskMild(r)
      <4>1. task'[r].pc = pc /\ task'[r].want = [st |-> st, auth |-> auth]
        BY <1>0, <3>2 DEF TaskType
      <4>2. task'[r].want.st = st /\ task'[r].want.auth = auth
        BY <4>1
      <4>3. st \in Terminal
        BY DEF Terminal, Published
      <4> QED BY <3>2, <4>1, <4>2, <4>3 DEF TaskMild, WantOK, Ending
    <3>3. CASE TaskDecides(r)
      <4>1. PICK assessment \in Assessments, blocked \in BOOLEAN :
              LET st == CompletionStatus(result[r], stalePool[r], assessment, blocked)
              IN  task' = [task EXCEPT ![r].pc   = "finish",
                                       ![r].want = [st |-> st,
                                                    auth |-> st \in Published
                                                             /\ assessment = "pass"]]
        BY <3>3 DEF TaskDecides
      <4> DEFINE st == CompletionStatus(result[r], stalePool[r], assessment, blocked)
                 auth == st \in Published /\ assessment = "pass"
      <4>2. st \in {"success", "degraded", "failed"} /\ auth \in BOOLEAN /\ (auth => st \in Published)
        BY DEF CompletionStatus
      <4>3. task'[r] = [task[r] EXCEPT !.pc = "finish", !.want = [st |-> st, auth |-> auth]]
        BY <1>0, <4>1
      <4> HIDE DEF st, auth
      <4> QED BY <3>2, <4>2, <4>3
    <3>4. CASE TaskRaises(r)
      <4>1. task'[r] = [task[r] EXCEPT !.pc = "fail", !.want = [st |-> "failed", auth |-> FALSE]]
        BY <1>0, <3>4 DEF TaskRaises, Verdict
      <4> QED BY <3>2, <4>1
    <3> QED BY <1>3, <3>1, <3>3, <3>4
            DEF TaskStep, TaskBegins, TaskAttaches, TaskStarts, TaskRecordsPool,
                TaskSeeds, TaskSaves, Working, Writing
  <2>6. \A q \in Runs : TaskMild(q)
    BY <2>1, <2>5 DEF TaskMild
  <2>7. SameWork
    BY <1>l, <2>1 DEF SameWork, Live, Working, Writing
  <2>8. SettleMild /\ \A q \in Runs : Settles(q)' => Settles(q)
    BY <2>2, FewerSettles
  <2>9. KnownMild
    BY <1>0, <2>7, <2>8 DEF KnownMild, Known, SameWork
  <2>10. ASSUME Peace
         PROVE  OrderMild
    <3>1. SettlersWait /\ LaunchesWait
      BY <2>10, PeaceMeans
    <3>2. ~Launching(r)
      BY <2>1, <3>1 DEF LaunchesWait, Working, Writing
    <3>3. \A q \in Runs : ~Surprised(q)
      BY <2>3, <3>2 DEF Surprised, Calm
    <3> QED BY <1>1, <2>7, <2>8, <3>1, <3>3, OrderFrom
  <2> QED BY <1>1, <1>h, <2>4, <2>6, <2>9, <2>10, EndKeeps DEF VerdictMild
<1> QED BY <1>2, <1>3

LEMMA EnterEnd ==
    ASSUME TypeOK, [Next]_storeVars, LeaseInv, ProcessTypes', EndInv,
           NEW p \in Procs, RequestStep(p) \/ BeginStart(p)
    PROVE  EndInv'
<1>1. PICK what \in OpKinds \ {"none"}, pc \in {"mark", "recover"} : Enter(p, what, pc)
  BY Entering
<1>2. /\ UNCHANGED <<storeVars, stop, task, late, failed, waits>>
      /\ \A q \in Procs \ {p} : op'[q] = op[q]
      /\ op'[p].pc \in {"mark", "recover", "reconcile"}
      /\ HistGrows /\ hist'.adrift = hist.adrift
  BY <1>1, EnterIs DEF LeaseInv
<1>3. OpCalm
  BY <1>2 DEF OpCalm
<1>4. FewerSettle
  BY <1>2 DEF FewerSettle
<1>5. status' = status
  BY <1>2 DEF storeVars
<1> QED BY <1>2, <1>3, <1>4, <1>5, IdleMild

\* A reconciliation ends every active run; those with a task are the usurped.
LEMMA ReconcileEnd ==
    ASSUME TypeOK, [Next]_storeVars, LeaseInv, ProcessTypes', HistGrows, EndInv,
           ReconcileIncompleteRuns, Usurped \subseteq hist'.usurped,
           hist'.adrift = hist.adrift, UNCHANGED task, FewerSettle, OpCalm
    PROVE  EndInv'
<1>1. \A q \in Runs : status'[q] = IF IsActive(q) THEN "interrupted" ELSE status[q]
  BY DEF ReconcileIncompleteRuns
<1>2. LateMild /\ SettleMild /\ \A r \in Runs : Settles(r)' => Settles(r)
  BY FewerSettles
<1>3. SameWork
  BY CalmLaunches DEF SameWork, Live
<1>4. KnownMild
  BY <1>2, <1>3 DEF KnownMild, Known, SameWork
<1>5. (\A r \in Runs : TaskMild(r)) /\ DriftMild
  BY DEF TaskMild, DriftMild, FewerSettle
<1>6. CancelsMild
  BY DEF CancelsMild, OpCalm, FewerSettle
<1>7. StatusMild
  BY <1>1 DEF StatusMild
<1>8. \A r \in Runs : IsActive(r) /\ (Live(r) \/ Launching(r)) => r \in hist'.usurped
  BY DEF Usurped, Launching
<1>9. \A r \in Runs : ~IsActive(r)'
  BY <1>1 DEF IsActive, Active
<1>10. ASSUME NEW r \in Runs, Surprised(r)
       PROVE  task'[r].pc \notin Working \cup {"new"} /\ ~Launching(r)'
  <2>1. IsActive(r) /\ r \notin hist'.usurped
    BY <1>9, <1>10 DEF Surprised
  <2>2. ~Live(r) /\ ~Launching(r)
    BY <1>8, <2>1
  <2> QED BY <1>3, <2>2 DEF SameWork, Live, Working, Writing
<1>11. Peace => OrderMild
  BY <1>2, <1>3, <1>5, <1>10, OrderFrom, PeaceMeans
<1> QED BY <1>2, <1>4, <1>5, <1>6, <1>7, <1>11, EndKeeps DEF VerdictMild

\* A run that is inserted was absent: it has no task yet, and nobody is to end it.
LEMMA InsertIs ==
    ASSUME TypeOK, EndInv, NEW r \in Runs, Insert(r)
    PROVE  /\ status[r] = "absent" /\ status'[r] = "queued" /\ NoActiveRun
           /\ \A q \in Runs \ {r} : status'[q] = status[q]
           /\ ~Live(r) /\ ~Settles(r) /\ ~Launching(r) /\ r \notin hist.adrift
           /\ \A q \in Runs : ~Surprised(q)
           /\ StatusMild
<1>1. \E k, stale, src, rows : InsertQueued(r, k, stale, src, rows)
  BY DEF Insert, CreateRun, PrepareRetry, PrepareTop100Refresh
<1>2. /\ status[r] = "absent" /\ status'[r] = "queued" /\ NoActiveRun
      /\ \A q \in Runs \ {r} : status'[q] = status[q]
  BY <1>1 DEF InsertQueued, TypeOK
<1>3. ~Live(r) /\ ~Settles(r) /\ ~Launching(r) /\ r \notin hist.adrift
  BY <1>2 DEF EndInv, VerdictInv, RunsKnown
<1>4. \A q \in Runs : ~Surprised(q)
  BY <1>2, <1>3 DEF Surprised, NoActiveRun, IsActive
<1>5. StatusMild
  BY <1>2 DEF StatusMild
<1> QED BY <1>2, <1>3, <1>4, <1>5

LEMMA OpEnd ==
    ASSUME TypeOK, [Next]_storeVars, LeaseInv, ProcessTypes', EndInv,
           NEW p \in Procs, OpStep(p)
    PROVE  EndInv'
<1>t. /\ ProcessTypes /\ op \in [Procs -> OpType] /\ RunsNamed(op[p])
      /\ hist \in HistType /\ life[p] \in LifeType
  BY DEF LeaseInv, ProcessTypes
<1>0. /\ UNCHANGED stop /\ op[p].pc # "idle"
      /\ \A q \in Procs \ {p} : op'[q] = op[q]
      /\ HistGrows
  BY <1>t, OpIs
<1>b. ASSUME Peace, NEW q \in Procs, op[q].pc # "idle"
      PROVE  q = p
  BY <1>0, <1>b, PeaceMeans
<1>c. op'[p].pc \notin {"launch", "cancelLocal"} => OpCalm
  BY <1>0 DEF OpCalm
<1>1. CASE OpReconcile(p)
  <2>1. op'[p].pc \in {"mark", "recover"}
    BY <1>1, <1>t DEF OpReconcile, OpType
  <2>2. Usurped \in SUBSET Runs /\ {} \in SUBSET Procs
    BY DEF Usurped
  <2>3. Usurped \subseteq hist'.usurped /\ hist'.adrift = hist.adrift
    BY <1>1, <1>t, <2>2, HistAdds DEF OpReconcile
  <2>4. FewerSettle /\ UNCHANGED task /\ ReconcileIncompleteRuns
    BY <1>1 DEF OpReconcile, FewerSettle
  <2> QED BY <1>0, <1>c, <2>1, <2>3, <2>4, ReconcileEnd
<1>2. CASE OpRecover(p)
  <2>1. op'[p].pc \notin {"launch", "cancelLocal"}
    BY <1>2, <1>t DEF OpRecover, OpType, NoOp
  <2>2. /\ hist'.adrift = hist.adrift /\ UNCHANGED <<task, late, waits>> /\ Recover(p)
        /\ \A q \in Procs : stop'[q].runs = stop[q].runs
    BY <1>2 DEF OpRecover
  <2> QED BY <1>0, <1>c, <2>1, <2>2, RecoverMild
<1>3. CASE OpMark(p) \/ OpRefused(p)
  <2>1. op'[p] = NoOp
    BY <1>3, <1>t, LeaveIs DEF OpMark, OpRefused
  <2>2. OpCalm
    BY <1>c, <2>1, Empties
  <2>3. UNCHANGED <<storeVars, task, late, waits, failed, hist>>
    BY <1>3 DEF OpMark, OpRefused
  <2>4. FewerSettle /\ status' = status /\ hist'.adrift = hist.adrift
    BY <1>0, <2>3 DEF FewerSettle, storeVars
  <2> QED BY <1>0, <2>2, <2>3, <2>4, IdleMild
<1>4. CASE OpInsert(p)
  <2>1. PICK r \in Runs : Insert(r) /\ op' = [op EXCEPT ![p].pc = "launch", ![p].run = r]
    BY <1>4 DEF OpInsert
  <2>2. op'[p].pc = "launch" /\ op'[p].run = r
    BY <1>t, <2>1 DEF OpType
  <2>3. /\ status[r] = "absent" /\ status'[r] = "queued"
        /\ \A q \in Runs \ {r} : status'[q] = status[q]
        /\ ~Live(r) /\ ~Settles(r) /\ ~Launching(r) /\ r \notin hist.adrift
        /\ \A q \in Runs : ~Surprised(q)
        /\ StatusMild
    BY <2>1, InsertIs
  <2>4. UNCHANGED <<task, late, waits, failed, hist>>
    BY <1>4 DEF OpInsert
  <2>5. \A q \in Runs : Launching(q)' => Launching(q) \/ q = r
    BY <1>0, <2>2 DEF Launching
  <2>6. FewerSettle
    BY <1>0, <2>4 DEF FewerSettle
  <2>7. LateMild /\ SettleMild /\ \A q \in Runs : Settles(q)' => Settles(q)
    BY <2>6, FewerSettles
  <2>8. KnownMild
    BY <2>3, <2>4, <2>5, <2>7 DEF KnownMild, Known, Live
  <2>9. (\A q \in Runs : TaskMild(q)) /\ DriftMild
    BY <2>4 DEF TaskMild, DriftMild
  <2>10. CancelsMild
    BY <1>0, <2>2, <2>4 DEF CancelsMild
  <2>11. OrderMild
    <3>1. \A q \in Runs : Launching(q)' => Launching(q) \/ (status[q] = "absent" /\ status'[q] = "queued")
      BY <2>3, <2>5
    <3>2. LaunchMild
      BY <2>3, <2>4, <3>1 DEF LaunchMild, Surprised, Live
    <3> QED BY <2>7, <2>9, <3>2 DEF OrderMild
  <2> QED BY <1>0, <2>3, <2>7, <2>8, <2>9, <2>10, <2>11, EndKeeps DEF VerdictMild
<1>5. CASE OpLaunch(p)
  <2>1. PICK r \in Runs : r = op[p].run /\ op[p].pc = "launch"
    BY <1>5, <1>t DEF OpLaunch, RunsNamed
  <2>2. Launching(r)
    BY <2>1 DEF Launching
  <2>3. /\ task'[r].pc = "new" /\ task'[r].want = Undecided
        /\ \A q \in Runs \ {r} : task'[q] = task[q]
    BY <1>5, <1>t, <2>1 DEF OpLaunch, ProcessTypes, NoTask
  <2>4. op'[p] = NoOp
    BY <1>5, <1>t, LeaveIs DEF OpLaunch
  <2>5. OpCalm
    BY <1>c, <2>4, Empties
  <2>6. UNCHANGED <<storeVars, late, waits, failed, hist>>
    BY <1>5 DEF OpLaunch
  <2>7. FewerSettle
    BY <1>0, <2>6 DEF FewerSettle
  <2>8. LateMild /\ SettleMild /\ \A q \in Runs : Settles(q)' => Settles(q)
    BY <2>7, FewerSettles
  <2>9. \A q \in Runs : Launching(q)' => Launching(q)
    BY <2>5, CalmLaunches
  <2>10. KnownMild
    BY <2>2, <2>3, <2>6, <2>8, <2>9 DEF KnownMild, Known, Live
  <2>11. \A q \in Runs : TaskMild(q)
    BY <2>3 DEF TaskMild, WantOK, Undecided, Ending
  <2>12. CancelsMild /\ StatusMild /\ DriftMild
    BY <2>5, <2>6 DEF CancelsMild, StatusMild, DriftMild, OpCalm, storeVars
  <2>13. ASSUME Peace
         PROVE  OrderMild
    <3>1. ~Launching(r)'
      <4>1. ASSUME NEW q \in Procs, op'[q].pc = "launch"
            PROVE  FALSE
        <5>1. q # p /\ op[q].pc = "launch"
          BY <1>0, <2>4, <4>1, Empties
        <5> QED BY <1>b, <2>13, <5>1
      <4> QED BY <4>1 DEF Launching
    <3>2. \A q \in Runs : IsActive(q)' = IsActive(q) /\ status'[q] = status[q]
      BY <2>6 DEF IsActive, storeVars
    <3>3. LaunchMild
      BY <2>2, <2>3, <2>9, <3>1, <3>2 DEF LaunchMild, Live
    <3> QED BY <2>8, <2>12, <3>3 DEF OrderMild
  <2> QED BY <1>0, <2>8, <2>10, <2>11, <2>12, <2>13, EndKeeps DEF VerdictMild
<1>6. CASE OpRequest(p)
  <2>1. PICK r \in Runs : RequestCancel(r) /\ op' = [op EXCEPT ![p].pc = "cancelLocal", ![p].run = r]
    BY <1>6 DEF OpRequest
  <2>2. op'[p].pc = "cancelLocal" /\ op'[p].run = r
    BY <1>t, <2>1 DEF OpType
  <2>3. Calm /\ status'[r] = "cancelling"
    BY <2>1, ProgressCalm DEF RequestCancel, TypeOK
  <2>4. UNCHANGED <<task, late, waits, failed, hist>>
    BY <1>6 DEF OpRequest
  <2>5. FewerSettle
    BY <1>0, <2>4 DEF FewerSettle
  <2>6. LateMild /\ SettleMild /\ \A q \in Runs : Settles(q)' => Settles(q)
    BY <2>5, FewerSettles
  <2>7. \A q \in Runs : Launching(q)' => Launching(q)
    BY <1>0, <2>2 DEF Launching
  <2>8. SameWork
    BY <2>4, <2>7 DEF SameWork, Live
  <2>9. KnownMild
    BY <2>4, <2>6, <2>8 DEF KnownMild, Known, SameWork
  <2>10. (\A q \in Runs : TaskMild(q)) /\ DriftMild
    BY <2>4 DEF TaskMild, DriftMild
  <2>11. CancelsMild
    <3>1. CancelAccepted(r)'
      BY <2>3 DEF CancelAccepted
    <3>2. ASSUME NEW q \in Procs, op'[q].pc = "cancelLocal"
          PROVE  op'[q] = op[q] \/ (op'[q].run = r /\ q = p)
      BY <1>0, <2>2, <3>2
    <3>3. waits' \ waits = {}
      BY <2>4
    <3>4. op[p].pc = "request"
      BY <1>6 DEF OpRequest
    <3> QED BY <2>2, <3>1, <3>2, <3>3 DEF CancelsMild, CancelAccepted, IsTerminal
  <2>12. StatusMild
    BY <2>3 DEF StatusMild, Calm
  <2>13. ASSUME Peace
         PROVE  OrderMild
    <3>1. \A q \in Runs : ~Launching(q)
      <4>1. op[p].pc = "request"
        BY <1>6 DEF OpRequest
      <4> QED BY <1>b, <2>13, <4>1 DEF Launching
    <3>2. \A q \in Runs : ~Surprised(q)
      BY <2>3, <3>1 DEF Surprised, Calm
    <3> QED BY <2>6, <2>8, <2>10, <2>13, <3>2, OrderFrom, PeaceMeans
  <2> QED BY <1>0, <2>6, <2>9, <2>10, <2>11, <2>12, <2>13, EndKeeps DEF VerdictMild
<1>7. CASE OpCancelLocal(p)
  <2>1. PICK r \in Runs : r = op[p].run /\ op[p].pc = "cancelLocal"
    BY <1>7, <1>t DEF OpCancelLocal, RunsNamed
  <2>2. CancelAccepted(r)
    BY <2>1 DEF EndInv, VerdictInv, CancelsSound
  <2> DEFINE S == {r} \cap TasksOf(p)
  <2>3. S \in SUBSET Runs /\ \A q \in S : Live(q)
    BY DEF TasksOf
  <2>4. CancelTasks(S, life[p].closed) /\ life[p].closed \in BOOLEAN
    BY <1>7, <1>t, <2>1 DEF OpCancelLocal, LifeType
  <2>5. \A q \in S : q = r
    OBVIOUS
  <2>6. r \in TasksOf(p) => r \in S
    OBVIOUS
  <2>7. op'[p] = NoOp
    BY <1>7, <1>t, LeaveIs DEF OpCancelLocal
  <2>8. OpCalm
    BY <1>c, <2>7, Empties
  <2>9. UNCHANGED <<storeVars, failed, hist>> /\ waits' = waits \cup {<<p, r>>}
    BY <1>7, <2>1 DEF OpCancelLocal
  <2> HIDE DEF S
  <2>10. /\ \A q \in Runs : TaskMild(q)
         /\ LateMild
         /\ \A w \in late' \ late : w.run \in S
         /\ \A q \in S : task'[q].pc \in Ending \cup {"none"}
         /\ \A q \in Runs \ S : task'[q] = task[q]
    BY <1>0, <2>2, <2>3, <2>4, <2>5, <2>9, CancelMild
  <2>11. \A q \in Runs : Launching(q)' => Launching(q)
    BY <2>8, CalmLaunches
  <2>12. SameWork
    BY <2>3, <2>10, <2>11 DEF SameWork, Live, Working, Writing, Ending
  <2>13. \A q \in Runs : Settles(q)' => Settles(q) \/ q = r
    BY <1>0, <2>5, <2>9, <2>10 DEF Settles
  <2>14. status[r] # "absent"
    BY <2>2, StatusClasses DEF CancelAccepted, IsTerminal
  <2>15. KnownMild
    BY <2>9, <2>12, <2>13, <2>14 DEF KnownMild, Known, SameWork, storeVars
  <2>16. CancelsMild
    <3>1. CancelAccepted(r)'
      BY <2>2, <2>9 DEF CancelAccepted, IsTerminal, storeVars
    <3>2. \A x \in waits' \ waits : x[2] = r
      BY <2>9
    <3> QED BY <2>8, <3>1, <3>2 DEF CancelsMild, OpCalm, CancelAccepted, IsTerminal
  <2>17. StatusMild
    BY <2>9 DEF StatusMild, storeVars
  <2>18. DriftMild
    BY <2>3, <2>9, <2>10 DEF DriftMild
  <2>19. ASSUME Peace
         PROVE  OrderMild
    <3>1. \A q \in Runs : ~Launching(q)
      BY <1>b, <2>1, <2>19 DEF Launching
    <3>2. task'[r].pc \in Ending \cup {"none"}
      <4>1. CASE Live(r)
        <5>1. leader = task[r].proc /\ leader = p
          BY <1>0, <2>19, <4>1, PeaceMeans
        <5>2. r \in TasksOf(p)
          BY <4>1, <5>1 DEF TasksOf
        <5> QED BY <2>6, <2>10, <5>2
      <4>2. CASE ~Live(r)
        BY <2>12, <4>2 DEF SameWork, Live
      <4> QED BY <4>1, <4>2
    <3>3. SettleMild
      BY <2>11, <2>13, <3>1, <3>2 DEF SettleMild
    <3>4. \A q \in Runs : ~Surprised(q)
      BY <2>9 DEF Surprised, IsActive, storeVars
    <3> QED BY <2>12, <2>18, <2>19, <3>3, <3>4, OrderFrom, PeaceMeans
  <2> QED BY <1>0, <2>10, <2>15, <2>16, <2>17, <2>19, EndKeeps DEF VerdictMild
<1> QED BY <1>1, <1>2, <1>3, <1>4, <1>5, <1>6, <1>7 DEF OpStep

\* What is abandoned without a task leaves a call that knows no run, or the end of
\* a run that was remembered as lost.
LEMMA AbandonMild ==
    ASSUME LeaseInv, EndInv, HistGrows, UNCHANGED <<storeVars, task, waits, failed>>,
           \A q \in Procs : stop'[q].runs = stop[q].runs,
           NEW p \in Procs, OpCalm,
           Abandon(LeftByTick(p), {}) \/ Abandon(LeftByActivation(p), {})
    PROVE  /\ \A r \in Runs : Settles(r)' => Settles(r)
           /\ \A w \in late' \ late : w.run = NoRun \/ w.call = "finish"
           /\ SameWork /\ LateMild /\ SettleMild /\ CancelsMild /\ StatusMild
           /\ \A r \in Runs : TaskMild(r) /\ ~Surprised(r)
<1>0. ProcessTypes
  BY DEF LeaseInv
<1>1. \A w \in late' \ late : Left(p, w)
  BY <1>0, AbandonIs
<1>2. ASSUME NEW w \in late' \ late
      PROVE  /\ w.run = NoRun \/ w.call = "finish"
             /\ w.run \in Runs => Settles(w.run)
             /\ w.run # NoRun => WantOK(w.want, w.run)'
             /\ w.call = "finish" => w.want.st \in Terminal
             /\ w.tracked => w.call = "finish"
  <2>1. CASE w.call \in UnboundCalls /\ w.run = NoRun /\ ~w.tracked
    BY <2>1, NoRunAssumption DEF UnboundCalls
  <2>2. CASE w.call = "finish" /\ w.run \in Lost(p) /\ w.want = Verdict("interrupted")
    <3>1. w.run \in failed[p]
      BY <2>2 DEF Lost
    <3>2. "interrupted" \in Terminal
      BY DEF Terminal
    <3>3. w.want.st = "interrupted" /\ ~w.want.auth
      BY <2>2, <3>2, Verdicts
    <3> QED BY <2>2, <3>1, <3>2, <3>3 DEF Settles, WantOK
  <2> QED BY <1>1, <2>1, <2>2 DEF Left
<1>3. \A r \in Runs : Settles(r)' => Settles(r)
  BY <1>2 DEF Settles
<1>4. SameWork
  BY CalmLaunches DEF SameWork, Live
<1>5. LateMild
  BY <1>2 DEF LateMild
<1>6. SettleMild
  BY <1>3 DEF SettleMild
<1>7. CancelsMild
  BY DEF CancelsMild, OpCalm
<1>8. StatusMild
  BY DEF StatusMild, storeVars
<1>9. \A r \in Runs : TaskMild(r) /\ ~Surprised(r)
  BY DEF TaskMild, Surprised, IsActive, storeVars
<1> QED BY <1>2, <1>3, <1>4, <1>5, <1>6, <1>7, <1>8, <1>9

\* All tasks of a process are cancelled, by a stop or by the end of the event loop.
LEMMA CancelAllEnd ==
    ASSUME TypeOK, [Next]_storeVars, LeaseInv, ProcessTypes', HistGrows, EndInv,
           UNCHANGED <<storeVars, op, failed, waits>>, hist'.adrift = hist.adrift,
           NEW p \in Procs, NEW closed \in BOOLEAN, CancelTasks(TasksOf(p), closed),
           ~closed => TasksOf(p) \subseteq hist'.undone,
           \A q \in Procs : stop'[q].runs \subseteq stop[q].runs \cup TasksOf(p)
    PROVE  EndInv'
<1>1. TasksOf(p) \in SUBSET Runs /\ \A r \in TasksOf(p) : Live(r)
  BY DEF TasksOf
<1>2. /\ \A r \in Runs : TaskMild(r)
      /\ LateMild
      /\ \A w \in late' \ late : w.run \in TasksOf(p)
      /\ \A r \in TasksOf(p) : task'[r].pc \in Ending \cup {"none"}
      /\ \A r \in Runs \ TasksOf(p) : task'[r] = task[r]
  BY <1>1, CancelMild
<1>3. OpCalm /\ \A r \in Runs : Launching(r)' => Launching(r)
  BY CalmLaunches DEF OpCalm
<1>4. SameWork
  BY <1>1, <1>2, <1>3 DEF SameWork, Live, Working, Writing, Ending
<1>5. \A r \in Runs : Settles(r)' => Settles(r) \/ r \in TasksOf(p)
  BY <1>2 DEF Settles
<1>6. KnownMild
  BY <1>1, <1>4, <1>5 DEF KnownMild, Known, SameWork
<1>7. CancelsMild /\ StatusMild
  BY <1>3 DEF CancelsMild, OpCalm, StatusMild, storeVars
<1>8. DriftMild
  BY <1>1, <1>2 DEF DriftMild
<1>9. \A r \in Runs : ~Surprised(r)
  BY DEF Surprised, IsActive, storeVars
<1>10. ASSUME Peace
       PROVE  OrderMild
  <2>1. \A r \in TasksOf(p) : ~Launching(r)'
    BY <1>1, <1>3, <1>10, PeaceMeans DEF LaunchesWait, Live
  <2>2. SettleMild
    BY <1>2, <1>5, <2>1 DEF SettleMild
  <2> QED BY <1>4, <1>8, <1>9, <1>10, <2>2, OrderFrom, PeaceMeans
<1> QED BY <1>2, <1>6, <1>7, <1>10, EndKeeps DEF VerdictMild

LEMMA StopEnd ==
    ASSUME TypeOK, [Next]_storeVars, LeaseInv, ProcessTypes', EndInv,
           NEW p \in Procs, StopStep(p)
    PROVE  EndInv'
<1>t. /\ ProcessTypes /\ stop \in [Procs -> StopType] /\ hist \in HistType
      /\ RunsNamed(op[p]) /\ op \in [Procs -> OpType]
      /\ stop[p] \in StopType
  BY DEF LeaseInv, ProcessTypes
<1>h. hist' = hist => HistGrows /\ hist'.adrift = hist.adrift
  BY <1>t DEF HistGrows
<1>o. op' = op => OpCalm
  BY DEF OpCalm
<1>s. ASSUME stop' = [stop EXCEPT ![p].pc = "begin"]
      PROVE  \A q \in Procs : stop'[q].runs = stop[q].runs
  <2>1. [stop[p] EXCEPT !.pc = "begin"].runs = stop[p].runs
    BY <1>t DEF StopType
  <2> QED BY <1>s, <1>t, <2>1
<1>1. CASE TickCancelled(p)
  <2>1. /\ UNCHANGED <<storeVars, task, waits, failed, stop>>
        /\ Abandon(LeftByTick(p), {})
    BY <1>1 DEF TickCancelled
  <2>2. op'[p] = NoOp /\ \A q \in Procs \ {p} : op'[q] = op[q]
    BY <1>1, <1>t, LeaveIs DEF TickCancelled
  <2>3. OpCalm
    BY <2>2, Empties DEF OpCalm
  <2>4. CASE op[p].pc = "launch"
    <3>1. PICK r \in Runs : r = op[p].run
      BY <1>t, <2>4 DEF RunsNamed
    <3>2. Launching(r)
      BY <2>4, <3>1 DEF Launching
    <3>3. {r} \in SUBSET Runs /\ {} \in SUBSET Procs
      OBVIOUS
    <3>4. HistGrows /\ hist'.adrift = hist.adrift \cup {r}
      BY <1>1, <1>t, <2>4, <3>1, <3>3, HistAdds DEF TickCancelled
    <3>5. /\ \A q \in Runs : Settles(q)' => Settles(q)
          /\ \A w \in late' \ late : w.run = NoRun \/ w.call = "finish"
          /\ SameWork /\ LateMild /\ SettleMild /\ CancelsMild /\ StatusMild
          /\ \A q \in Runs : TaskMild(q) /\ ~Surprised(q)
      BY <2>1, <2>3, <3>4, AbandonMild
    <3>6. KnownMild
      BY <3>2, <3>4, <3>5 DEF KnownMild, Known, SameWork
    <3>7. ASSUME Peace
          PROVE  OrderMild
      <4>1. SettlersWait /\ LaunchesWait /\ \A q \in Procs : op[q].pc # "idle" => leader = q
        BY <3>7, PeaceMeans
      <4>2. ~Launching(r)'
        <5>1. ASSUME NEW q \in Procs, op'[q].pc = "launch"
              PROVE  FALSE
          <6>1. q # p /\ op[q].pc = "launch"
            BY <2>2, <5>1, Empties
          <6> QED BY <2>4, <4>1, <6>1
        <5> QED BY <5>1 DEF Launching
      <4>3. ~Live(r)'
        BY <2>1, <3>2, <4>1 DEF LaunchesWait, Live
      <4>4. \A w \in late' : w.run = r => w.call = "finish"
        <5>1. ~Settles(r)
          BY <3>2, <4>1 DEF SettlersWait
        <5>2. \A w \in late : w.run # r
          BY <5>1 DEF Settles
        <5> QED BY <3>5, <5>2, NoRunAssumption
      <4>5. DriftMild
        BY <3>4, <3>5, <4>2, <4>3, <4>4 DEF DriftMild
      <4> QED BY <3>5, <4>1, <4>5, OrderFrom
    <3> QED BY <3>4, <3>5, <3>6, <3>7, EndKeeps DEF VerdictMild
  <2>5. CASE op[p].pc # "launch"
    <3>1. HistGrows /\ hist'.adrift = hist.adrift
      BY <1>1, <1>h, <2>5 DEF TickCancelled
    <3>2. /\ \A q \in Runs : Settles(q)' => Settles(q)
          /\ \A w \in late' \ late : w.run = NoRun \/ w.call = "finish"
          /\ SameWork /\ LateMild /\ SettleMild /\ CancelsMild /\ StatusMild
          /\ \A q \in Runs : TaskMild(q) /\ ~Surprised(q)
      BY <2>1, <2>3, <3>1, AbandonMild
    <3>3. KnownMild
      BY <3>1, <3>2 DEF KnownMild, Known, SameWork
    <3>4. DriftMild
      BY <3>1, <3>2 DEF DriftMild
    <3>5. Peace => OrderMild
      BY <3>2, <3>4, OrderFrom, PeaceMeans
    <3> QED BY <3>1, <3>2, <3>3, <3>5, EndKeeps DEF VerdictMild
  <2> QED BY <2>4, <2>5
<1>2. CASE StopRecovers(p)
  <2>1. /\ UNCHANGED <<op, task, late, waits, hist>> /\ Recover(p)
        /\ \A q \in Procs : stop'[q].runs = stop[q].runs
    BY <1>2, <1>s DEF StopRecovers
  <2> QED BY <1>h, <1>o, <2>1, RecoverMild
<1>3. CASE StopBegins(p)
  <2>1. /\ UNCHANGED <<storeVars, op, failed, waits>>
        /\ \A q \in Procs \ {p} : stop'[q] = stop[q]
    BY <1>3, <1>t, StopBeginsIs
  <2>2. CASE stop'[p] = NoStop /\ UNCHANGED <<task, late, hist>>
    <3>1. \A q \in Procs : stop'[q].runs \subseteq stop[q].runs
      BY <2>1, <2>2, Empties
    <3>2. FewerSettle
      BY <2>1, <2>2, <3>1 DEF FewerSettle
    <3>3. status' = status
      BY <2>1 DEF storeVars
    <3> QED BY <1>h, <1>o, <2>1, <2>2, <3>2, <3>3, IdleMild
  <2>3. CASE /\ CancelTasks(TasksOf(p), life'[p].closed)
             /\ stop'[p] = [pc |-> "wait", runs |-> TasksOf(p)]
             /\ HistGrows /\ hist'.adrift = hist.adrift
             /\ ~life'[p].closed => TasksOf(p) \subseteq hist'.undone
    <3>1. life'[p].closed \in BOOLEAN
      BY DEF ProcessTypes, LifeType
    <3>2. \A q \in Procs : stop'[q].runs \subseteq stop[q].runs \cup TasksOf(p)
      BY <2>1, <2>3
    <3>3. PICK closed \in BOOLEAN : closed = life'[p].closed
      BY <3>1
    <3> QED BY <2>1, <2>3, <3>2, <3>3, CancelAllEnd
  <2> QED BY <1>3, <1>t, <2>2, <2>3, StopBeginsIs
<1>4. CASE StopSettles(p)
  <2>1. UNCHANGED <<op, task, late, waits, hist>>
    BY <1>4 DEF StopSettles
  <2>2. stop'[p].runs = {} /\ \A q \in Procs \ {p} : stop'[q] = stop[q]
    BY <1>4, <1>t DEF StopSettles
  <2>3. CASE UNCHANGED <<storeVars, failed>>
    <3>1. FewerSettle /\ status' = status
      BY <2>1, <2>2, <2>3 DEF FewerSettle, storeVars
    <3> QED BY <1>h, <1>o, <2>1, <3>1, IdleMild
  <2>4. ASSUME NEW r \in stop[p].runs, TrackedFinish(p, r, Verdict("interrupted"))
        PROVE  EndInv'
    <3>1. r \in Runs /\ Settles(r)
      BY <1>t, <2>4 DEF StopType, Settles
    <3>2. "interrupted" \in Terminal
      BY DEF Terminal
    <3>3. Verdict("interrupted").st = "interrupted" /\ ~Verdict("interrupted").auth
      BY <3>2, Verdicts
    <3>4. Verdict("interrupted").st \in Terminal /\ WantOK(Verdict("interrupted"), r)
      BY <3>2, <3>3 DEF WantOK
    <3>5. /\ \A q \in Runs \ {r} : status'[q] = status[q]
          /\ status'[r] = "cancelled" =>
                status[r] \in {"cancelling", "cancelled"} \/ r \in hist.undone
          /\ \A q \in Procs : failed'[q] \subseteq failed[q] \cup {r}
      BY <1>t, <2>4, <3>1, <3>4, TrackedEnds
    <3>6. \A q \in Runs : Settles(q)' => Settles(q)
      BY <2>1, <2>2, <3>1, <3>5 DEF Settles
    <3> QED BY <1>h, <2>1, <3>1, <3>5, <3>6, SettledMild
  <2> QED BY <1>4, <2>3, <2>4 DEF StopSettles
<1>5. CASE StopEnds(p)
  <2>1. UNCHANGED <<storeVars, op, task, late, waits, failed, hist>>
    BY <1>5 DEF StopEnds
  <2>2. stop'[p] = NoStop /\ \A q \in Procs \ {p} : stop'[q] = stop[q]
    BY <1>5, <1>t DEF StopEnds
  <2>3. FewerSettle /\ status' = status
    BY <2>1, <2>2, Empties DEF FewerSettle, storeVars
  <2> QED BY <1>h, <1>o, <2>1, <2>3, IdleMild
<1>6. CASE FinalStop(p)
  <2>1. UNCHANGED <<op, task, late, waits, hist>>
    BY <1>6 DEF FinalStop
  <2>2. CASE StopFrom(p, "closing") /\ UNCHANGED <<storeVars, failed>>
    <3>1. \A q \in Procs : stop'[q].runs = stop[q].runs
      BY <1>t, <2>2, StopFromIs
    <3>2. FewerSettle /\ status' = status
      BY <2>1, <2>2, <3>1 DEF FewerSettle, storeVars
    <3> QED BY <1>h, <1>o, <2>1, <3>2, IdleMild
  <2>3. CASE Recover(p) /\ UNCHANGED stop
    BY <1>h, <1>o, <2>1, <2>3, RecoverMild
  <2> QED BY <1>6, <2>2, <2>3 DEF FinalStop
<1> QED BY <1>1, <1>2, <1>3, <1>4, <1>5, <1>6 DEF StopStep

LEMMA LeaseEnd ==
    ASSUME TypeOK, [Next]_storeVars, LeaseInv, ProcessTypes', EndInv,
           NEW p \in Procs, LeaseStep(p)
    PROVE  EndInv'
<1>t. ProcessTypes /\ hist \in HistType
  BY DEF LeaseInv, ProcessTypes
<1>h. hist' = hist => HistGrows /\ hist'.adrift = hist.adrift
  BY <1>t DEF HistGrows
<1>o. op' = op => OpCalm
  BY DEF OpCalm
<1>1. CASE BeginStart(p)
  BY <1>1, EnterEnd
<1>2. CASE Crash(p) \/ Exit(p)
  <2>1. Vanish(p)
    BY <1>2 DEF Crash, Exit
  <2>2. /\ UNCHANGED <<storeVars, hist>>
        /\ late' \subseteq late /\ waits' \subseteq waits
        /\ \A q \in Procs \ {p} : op'[q] = op[q] /\ stop'[q] = stop[q] /\ failed'[q] = failed[q]
        /\ op'[p] = NoOp /\ stop'[p] = NoStop /\ failed'[p] = {}
        /\ \A r \in Runs : task'[r] \in {task[r], NoTask}
    BY <1>t, <2>1, VanishIs
  <2>3. OpCalm /\ FewerSettle
    BY <2>2, Empties DEF OpCalm, FewerSettle
  <2>4. status' = status
    BY <2>2 DEF storeVars
  <2> QED BY <1>h, <2>2, <2>3, <2>4, IdleMild
<1>3. CASE ScannerStarted(p)
  BY <1>3, <1>h, <1>o, RecoverMild DEF ScannerStarted
<1>4. CASE Activate(p)
  <2>1. UNCHANGED <<op, stop, task, late, failed, waits, hist>>
    BY <1>4 DEF Activate
  <2>2. status' = status
    BY <1>4 DEF Activate, ReconcileOrphanedTaskRuns, rowVars, storeVars
  <2>3. FewerSettle
    BY <2>1 DEF FewerSettle
  <2> QED BY <1>h, <1>o, <2>1, <2>2, <2>3, IdleMild
<1>5. CASE TakeLease(p) \/ Shutdown(p) \/ ReleaseLease(p) \/ LeaseReleased(p) \/ SchedulerFails(p)
  <2>1. UNCHANGED <<storeVars, op, task, late, failed, waits, hist>>
    BY <1>5 DEF TakeLease, Shutdown, ReleaseLease, LeaseReleased, SchedulerFails
  <2>2. UNCHANGED stop \/ \E state \in {"closing", "rolling"} : StopFrom(p, state)
    BY <1>5 DEF TakeLease, Shutdown, ReleaseLease, LeaseReleased, SchedulerFails
  <2>3. \A q \in Procs : stop'[q].runs = stop[q].runs
    BY <1>t, <2>2, StopFromIs
  <2>4. FewerSettle /\ status' = status
    BY <2>1, <2>3 DEF FewerSettle, storeVars
  <2> QED BY <1>h, <1>o, <2>1, <2>4, IdleMild
<1>6. CASE ReconcileFails(p)
  <2>1. UNCHANGED <<storeVars, task, late, failed, waits, hist>>
    BY <1>6 DEF ReconcileFails
  <2>2. op'[p] = NoOp /\ \A q \in Procs \ {p} : op'[q] = op[q]
    BY <1>6, <1>t, LeaveIs DEF ReconcileFails
  <2>3. OpCalm
    BY <2>2, Empties DEF OpCalm
  <2>4. UNCHANGED stop \/ StopFrom(p, "rolling")
    BY <1>6 DEF ReconcileFails
  <2>5. \A q \in Procs : stop'[q].runs = stop[q].runs
    BY <1>t, <2>4, StopFromIs
  <2>6. FewerSettle /\ status' = status
    BY <2>1, <2>5 DEF FewerSettle, storeVars
  <2> QED BY <1>h, <2>1, <2>3, <2>6, IdleMild
<1>7. CASE ShutdownActivation(p)
  <2>1. /\ UNCHANGED <<storeVars, task, failed, waits, hist>>
        /\ Abandon(LeftByActivation(p), {}) /\ StopFrom(p, "folding")
    BY <1>7 DEF ShutdownActivation
  <2>2. \A q \in Procs : stop'[q].runs = stop[q].runs
    BY <1>t, <2>1, StopFromIs
  <2>3. OpCalm
    <3>1. CASE Leave(p)
      BY <1>t, <3>1, LeaveIs, Empties DEF OpCalm
    <3> QED BY <1>7, <1>o, <3>1 DEF ShutdownActivation
  <2>4. /\ \A q \in Runs : Settles(q)' => Settles(q)
        /\ \A w \in late' \ late : w.run = NoRun \/ w.call = "finish"
        /\ SameWork /\ LateMild /\ SettleMild /\ CancelsMild /\ StatusMild
        /\ \A q \in Runs : TaskMild(q) /\ ~Surprised(q)
    BY <1>h, <2>1, <2>2, <2>3, AbandonMild
  <2>5. KnownMild
    BY <2>1, <2>4 DEF KnownMild, Known, SameWork
  <2>6. DriftMild
    BY <2>1, <2>4 DEF DriftMild
  <2>7. Peace => OrderMild
    BY <2>4, <2>6, OrderFrom, PeaceMeans
  <2> QED BY <1>h, <2>1, <2>4, <2>5, <2>7, EndKeeps DEF VerdictMild
<1>8. CASE LoopEnds(p)
  <2>1. /\ UNCHANGED <<storeVars, op, stop, failed, waits>>
        /\ life[p].closed \in BOOLEAN /\ CancelTasks(TasksOf(p), life[p].closed)
        /\ HistGrows /\ hist'.adrift = hist.adrift
        /\ TasksOf(p) \subseteq hist'.undone
    BY <1>8, <1>t, LoopEndsIs
  <2>2. PICK closed \in BOOLEAN : closed = life[p].closed
    BY <2>1
  <2> QED BY <2>1, <2>2, CancelAllEnd
<1> QED BY <1>1, <1>2, <1>3, <1>4, <1>5, <1>6, <1>7, <1>8 DEF LeaseStep

\* What a thread commits when nobody waits for it any more.
LEMMA LateEnd ==
    ASSUME TypeOK, [Next]_storeVars, LeaseInv, ProcessTypes', EndInv,
           NEW w \in late, LateWrite(w)
    PROVE  EndInv'
<1>t. ProcessTypes /\ hist \in HistType /\ w \in WriteType /\ Bound(w)
  BY DEF LeaseInv, ProcessTypes
<1>0. /\ UNCHANGED <<op, stop, task, waits>> /\ late' = late \ {w} /\ HistGrows
      /\ w.call # "insert" => hist'.adrift = hist.adrift
      /\ w.call # "reconcile" => hist'.usurped = hist.usurped
  BY <1>t, LateWriteIs
<1>o. OpCalm
  BY <1>0 DEF OpCalm
<1>v. /\ w.run # NoRun => WantOK(w.want, w.run)
      /\ w.call = "finish" => w.want.st \in Terminal
      /\ w.tracked => w.call = "finish"
  BY DEF EndInv, VerdictInv, VerdictsSound
<1>s. w.run \in Runs => Settles(w.run)
  BY DEF Settles
<1>f. UNCHANGED failed => FewerSettle
  BY <1>0 DEF FewerSettle
<1>1. CASE w.tracked
  <2>1. w.run \in Runs /\ w.proc \in Procs /\ w.run # NoRun
    BY <1>t, <1>1 DEF Bound, WriteType
  <2>2. TrackedFinish(w.proc, w.run, w.want) /\ w.want.st \in Terminal /\ WantOK(w.want, w.run)
    BY <1>1, <1>v, <2>1 DEF LateWrite
  <2>3. /\ \A q \in Runs \ {w.run} : status'[q] = status[q]
        /\ status'[w.run] = "cancelled" =>
              status[w.run] \in {"cancelling", "cancelled"} \/ w.run \in hist.undone
        /\ \A q \in Procs : failed'[q] \subseteq failed[q] \cup {w.run}
    BY <1>t, <2>1, <2>2, TrackedEnds
  <2>4. \A q \in Runs : Settles(q)' => Settles(q)
    BY <1>0, <1>s, <2>1, <2>3 DEF Settles
  <2>5. hist'.adrift = hist.adrift
    BY <1>0, <1>1, <1>v
  <2>6. late' \subseteq late /\ waits' \subseteq waits
    BY <1>0
  <2>7. PICK r \in Runs : r = w.run
    BY <2>1
  <2> QED BY <1>0, <1>s, <2>3, <2>4, <2>5, <2>6, <2>7, SettledMild
<1>2. CASE ~w.tracked /\ UNCHANGED <<storeVars, hist>>
  <2>1. UNCHANGED failed /\ status' = status
    BY <1>2 DEF LateWrite, storeVars
  <2> QED BY <1>0, <1>2, <1>f, <1>o, <2>1, IdleMild
<1>3. CASE ~w.tracked /\ LateCommit(w)
  <2>0. FewerSettle
    BY <1>3, <1>f DEF LateWrite
  <2>k. LateMild /\ SettleMild /\ \A q \in Runs : Settles(q)' => Settles(q)
    BY <2>0, FewerSettles
  <2>1. CASE w.call = "insert"
    <3>1. PICK r \in Runs : Insert(r) /\ hist' = [hist EXCEPT !.adrift = @ \cup {r}]
      BY <1>3, <2>1 DEF LateCommit
    <3>2. /\ status[r] = "absent" /\ status'[r] = "queued"
          /\ \A q \in Runs \ {r} : status'[q] = status[q]
          /\ ~Live(r) /\ ~Settles(r) /\ ~Launching(r) /\ r \notin hist.adrift
          /\ \A q \in Runs : ~Surprised(q)
          /\ StatusMild
      BY <3>1, InsertIs
    <3>3. {r} \in SUBSET Runs /\ {} \in SUBSET Procs
      OBVIOUS
    <3>4. hist'.adrift = hist.adrift \cup {r}
      BY <1>t, <3>1, <3>3, HistAdds
    <3>5. SameWork
      BY <1>0, <1>o, CalmLaunches DEF SameWork, Live
    <3>6. KnownMild
      BY <2>k, <3>2, <3>4, <3>5 DEF KnownMild, Known, SameWork
    <3>7. \A q \in Runs : TaskMild(q)
      BY <1>0 DEF TaskMild
    <3>8. CancelsMild
      BY <1>0, <1>o DEF CancelsMild, OpCalm
    <3>9. DriftMild
      <4>1. ~Live(r)' /\ ~Launching(r)'
        BY <3>2, <3>5 DEF SameWork
      <4>2. \A x \in late' : x.run # r
        BY <2>0, <3>2 DEF Settles, FewerSettle
      <4> QED BY <2>0, <3>4, <4>1, <4>2 DEF DriftMild, FewerSettle
    <3>10. Peace => OrderMild
      BY <2>k, <3>2, <3>5, <3>9, OrderFrom, PeaceMeans
    <3> QED BY <1>0, <2>k, <3>2, <3>6, <3>7, <3>8, <3>10, EndKeeps DEF VerdictMild
  <2>2. CASE w.call = "reconcile"
    <3>1. ReconcileIncompleteRuns /\ hist' = [hist EXCEPT !.usurped = @ \cup Usurped]
      BY <1>3, <2>2 DEF LateCommit
    <3>2. Usurped \in SUBSET Runs /\ {} \in SUBSET Procs
      BY DEF Usurped
    <3>3. Usurped \subseteq hist'.usurped
      BY <1>t, <3>1, <3>2, HistAdds
    <3> QED BY <1>0, <1>o, <2>0, <2>2, <3>1, <3>3, ReconcileEnd
  <2>3. CASE w.call = "orphans"
    <3>1. status' = status /\ hist'.adrift = hist.adrift
      BY <1>0, <1>3, <2>3 DEF LateCommit, ReconcileOrphanedTaskRuns, rowVars
    <3> QED BY <1>0, <1>o, <2>0, <3>1, IdleMild
  <2>4. CASE w.call \notin UnboundCalls
    <3>1. PICK r \in Runs : r = w.run
      BY <1>t, <2>4 DEF WriteType, Bound
    <3>2. Settles(r) /\ WantOK(w.want, r) /\ hist'.adrift = hist.adrift
      BY <1>0, <1>s, <1>v, <2>4, <3>1, NoRunAssumption DEF UnboundCalls
    <3>3. /\ \A q \in Runs \ {r} : status'[q] = status[q]
          /\ status'[r] = "cancelled" =>
                status[r] \in {"cancelling", "cancelled"} \/ r \in hist.undone
      <4>1. CASE w.call = "finish"
        <5>1. w.want.st \in Terminal /\ FinishRun(r, w.want.st, w.want.auth)
          BY <1>3, <1>v, <3>1, <4>1 DEF LateCommit
        <5> QED BY <3>2, <5>1, WriteEnds
      <4>2. CASE w.call # "finish"
        <5>1. \/ CreateAndAttachTaskRun(r) \/ StartRun(r) \/ SeedResults(r)
              \/ \E stale : RecordStockPoolSource(r, stale)
              \/ \E batch, outcome : SaveResultBatch(r, batch, outcome)
          BY <1>3, <2>4, <3>1, <4>2 DEF LateCommit, UnboundCalls
        <5>2. Calm /\ \A q \in Runs \ {r} : status'[q] = status[q]
          BY <5>1, ProgressCalm
        <5> QED BY <5>2 DEF Calm
      <4> QED BY <4>1, <4>2
    <3>4. UNCHANGED <<task, op>> /\ late' \subseteq late /\ waits' \subseteq waits
      BY <1>0
    <3> QED BY <1>0, <2>k, <3>2, <3>3, <3>4, SettledMild
  <2> QED BY <2>1, <2>2, <2>3, <2>4 DEF UnboundCalls
<1> QED BY <1>1, <1>2, <1>3 DEF LateWrite

LEMMA CancelSettlesEnd ==
    ASSUME TypeOK, [Next]_storeVars, LeaseInv, ProcessTypes', EndInv,
           NEW p \in Procs, NEW r \in Runs, CancelSettles(p, r)
    PROVE  EndInv'
<1>t. ProcessTypes /\ hist \in HistType
  BY DEF LeaseInv, ProcessTypes
<1>0. /\ UNCHANGED <<op, stop, task, late, hist>>
      /\ <<p, r>> \in waits /\ waits' = waits \ {<<p, r>>}
  BY DEF CancelSettles
<1>h. HistGrows /\ OpCalm
  BY <1>0, <1>t DEF HistGrows, OpCalm
<1>1. Settles(r)
  BY <1>0 DEF Settles
<1>2. CASE UNCHANGED <<storeVars, failed>>
  <2>1. FewerSettle /\ status' = status
    BY <1>0, <1>2 DEF FewerSettle, storeVars
  <2> QED BY <1>0, <1>h, <2>1, IdleMild
<1>3. CASE status[r] = "cancelling" /\ TrackedFinish(p, r, Verdict("cancelled"))
  <2>1. "cancelled" \in Terminal
    BY DEF Terminal
  <2>2. Verdict("cancelled").st = "cancelled" /\ ~Verdict("cancelled").auth
    BY <2>1, Verdicts
  <2>3. Verdict("cancelled").st \in Terminal /\ WantOK(Verdict("cancelled"), r)
    BY <1>3, <2>1, <2>2 DEF WantOK, CancelAccepted
  <2>4. /\ \A q \in Runs \ {r} : status'[q] = status[q]
        /\ status'[r] = "cancelled" =>
              status[r] \in {"cancelling", "cancelled"} \/ r \in hist.undone
        /\ \A q \in Procs : failed'[q] \subseteq failed[q] \cup {r}
    BY <1>t, <1>3, <2>3, TrackedEnds
  <2>5. \A q \in Runs : Settles(q)' => Settles(q)
    BY <1>0, <1>1, <2>4 DEF Settles
  <2>6. late' \subseteq late /\ waits' \subseteq waits
    BY <1>0
  <2> QED BY <1>0, <1>1, <1>h, <2>4, <2>5, <2>6, SettledMild
<1> QED BY <1>2, <1>3 DEF CancelSettles

LEMMA EndStep ==
    ASSUME TypeOK, [Next]_storeVars, LeaseInv, ProcessTypes', EndInv, [ManagerNext]_vars
    PROVE  EndInv'
<1>1. CASE UNCHANGED vars
  <2>1. FewerSettle /\ OpCalm /\ status' = status /\ HistGrows
    BY <1>1 DEF vars, managerVars, storeVars, FewerSettle, OpCalm, HistGrows, LeaseInv, ProcessTypes
  <2> QED BY <1>1, <2>1, IdleMild DEF vars, managerVars
<1> QED
  BY <1>1, TaskEnd, EnterEnd, OpEnd, StopEnd, LeaseEnd, LateEnd, CancelSettlesEnd
     DEF ManagerNext

LEMMA EndInit ==
    ASSUME ManagerInit
    PROVE  EndInv
<1>1. /\ \A r \in Runs : task[r] = NoTask /\ status[r] = "absent"
      /\ \A p \in Procs : op[p] = NoOp /\ stop[p] = NoStop /\ failed[p] = {}
      /\ late = {} /\ waits = {} /\ hist = NoHistory
  BY DEF ManagerInit, Init
<1>2. \A r \in Runs : ~Live(r) /\ ~Settles(r) /\ ~Launching(r) /\ r \notin hist.adrift
  BY <1>1, Empties DEF Live, Settles, Launching, NoHistory
<1>3. RunsKnown
  BY <1>2 DEF RunsKnown
<1>4. VerdictsSound
  BY <1>1, Empties DEF VerdictsSound, WantOK, Undecided, Ending
<1>5. CancelsSound
  BY <1>1, Empties DEF CancelsSound
<1>6. WorkersActive /\ SettlersWait /\ LaunchesWait /\ AdriftStill
  BY <1>1, <1>2, Empties
     DEF WorkersActive, SettlersWait, LaunchesWait, AdriftStill, Working, Writing, NoHistory
<1> QED BY <1>3, <1>4, <1>5, <1>6 DEF EndInv, VerdictInv, OrderInv

-----------------------------------------------------------------------------
(* The owner of an active run.                                             *)

\* A queued run that nobody launched.
Waiting(r) == r \in hist.adrift /\ status[r] = "queued"

\* A step that opens no run, keeps the leader and takes no run away from it.
OwnersKeep ==
    /\ leader' = leader
    /\ \A p \in Procs : p = leader /\ life'[p].acquired /\ op'[p].pc # "reconcile"
                        => life[p].acquired /\ op[p].pc # "reconcile"
    /\ \A q \in Runs : IsActive(q)' =>
          /\ IsActive(q)
          /\ \A p \in Procs : p = leader /\ (WillEnd(p, q) \/ Waiting(q))
                              => WillEnd(p, q)' \/ Waiting(q)'

LEMMA OwnerKeeps ==
    ASSUME ProcessTypes, HistGrows, ActiveRunHasOwner, Peace => OwnersKeep
    PROVE  ActiveRunHasOwner'
<1> SUFFICES ASSUME Peace', NEW q \in Runs, IsActive(q)', leader' # NoProc,
                    life'[leader'].acquired, op'[leader'].pc # "reconcile"
             PROVE  WillEnd(leader, q)' \/ Waiting(q)'
  BY DEF ActiveRunHasOwner, Waiting, Peace
<1>0. Peace
  BY DEF Peace, HistGrows
<1>1. leader \in Procs /\ leader' = leader
  BY <1>0 DEF ProcessTypes, OwnersKeep
<1>2. PICK p \in Procs : p = leader
  BY <1>1
<1>3. life[p].acquired /\ op[p].pc # "reconcile" /\ IsActive(q)
  BY <1>0, <1>1, <1>2 DEF OwnersKeep
<1>4. WillEnd(p, q) \/ Waiting(q)
  BY <1>0, <1>1, <1>2, <1>3 DEF ActiveRunHasOwner, Waiting, Peace
<1>5. WillEnd(p, q)' \/ Waiting(q)'
  BY <1>0, <1>2, <1>4 DEF OwnersKeep
<1>6. leader' = p
  BY <1>1, <1>2
<1> QED BY <1>5, <1>6 DEF WillEnd, TasksOf, Live

\* A step after which there is no active run, or nobody has taken the lease over.
LEMMA OwnerFresh ==
    ASSUME \/ \A q \in Runs : ~IsActive(q)'
           \/ leader' = NoProc
           \/ ~life'[leader'].acquired
    PROVE  ActiveRunHasOwner'
  BY DEF ActiveRunHasOwner

\* Without a change to the statuses, it is enough that nobody drops a run.
LEMMA IdleOwner ==
    ASSUME ProcessTypes, HistGrows, ActiveRunHasOwner,
           UNCHANGED <<leader, task, failed>>, status' = status,
           late \subseteq late', waits \subseteq waits',
           \A p \in Procs :
              /\ life'[p].acquired /\ op'[p].pc # "reconcile"
                    => life[p].acquired /\ op[p].pc # "reconcile"
              /\ op[p].pc \in {"launch", "cancelLocal"} => op'[p] = op[p]
              /\ stop[p].pc = "wait" => stop'[p] = stop[p]
    PROVE  ActiveRunHasOwner'
<1>1. ASSUME NEW q \in Runs, NEW p \in Procs, WillEnd(p, q)
      PROVE  WillEnd(p, q)'
  BY <1>1 DEF WillEnd, TasksOf, Live
<1>2. \A q \in Runs : Waiting(q) => Waiting(q)'
  BY DEF Waiting, HistGrows
<1>3. OwnersKeep
  BY <1>1, <1>2 DEF OwnersKeep, IsActive
<1> QED BY <1>3, OwnerKeeps

LEMMA RecoverOwner ==
    ASSUME StoreInv, LeaseInv, ActiveRunHasOwner, HistGrows, NEW p \in Procs, Recover(p),
           UNCHANGED <<leader, task, late, waits>>,
           \A q \in Procs : /\ life'[q].acquired = life[q].acquired
                            /\ op[q].pc = "reconcile" => op'[q] = op[q]
                            /\ op[q].pc \in {"launch", "cancelLocal"} => op'[q] = op[q]
                            /\ stop[q].pc = "wait" => stop'[q] = stop[q]
    PROVE  ActiveRunHasOwner'
<1>1. ProcessTypes /\ TypeOK
  BY DEF LeaseInv, StoreInv
<1>2. \A q \in Runs : IsActive(q)' =>
         /\ IsActive(q) /\ status'[q] = status[q]
         /\ \A l \in Procs : q \in failed[l] => q \in failed'[l]
  <2>1. CASE UNCHANGED storeVars /\ failed'[p] = failed[p]
    BY <1>1, <2>1, RecoverEnds DEF IsActive, storeVars
  <2>2. CASE /\ UNCHANGED storeVars /\ failed'[p] = failed[p] \ Lost(p)
             /\ \A r \in Lost(p) : ~IsActive(r)
    <3>1. \A q \in Procs \ {p} : failed'[q] = failed[q]
      BY <1>1, RecoverEnds
    <3> QED BY <2>2, <3>1 DEF IsActive, storeVars
  <2>3. ASSUME NEW r \in Lost(p), IsActive(r), IsTerminal(r)',
               \A q \in Runs \ {r} : status'[q] = status[q]
        PROVE  \A q \in Runs : ~IsActive(q)'
    <3>1. r \in Runs
      BY <1>1 DEF Lost, ProcessTypes
    <3> QED BY <2>3, <3>1, StatusClasses DEF IsActive, IsTerminal, StoreInv, SingleActiveRun
  <2> QED BY <1>1, <2>1, <2>2, <2>3, RecoverEnds
<1>3. ASSUME NEW q \in Runs, IsActive(q)', NEW l \in Procs
      PROVE  /\ WillEnd(l, q) => WillEnd(l, q)'
             /\ Waiting(q) => Waiting(q)'
  BY <1>2, <1>3 DEF WillEnd, TasksOf, Live, Waiting, HistGrows
<1>4. OwnersKeep
  BY <1>2, <1>3 DEF OwnersKeep
<1> QED BY <1>1, <1>4, OwnerKeeps

\* The step gives up no writer, waiter or stopper but those of process p for run r.
OnlyOwnEnds(p, r) ==
    /\ UNCHANGED <<leader, life, op>>
    /\ \A q \in Runs \ {r} : task'[q] = task[q]
    /\ task'[r] # task[r] => task[r].proc = p
    /\ \A w \in late \ late' : w.run = r /\ w.proc = p
    /\ \A x \in waits \ waits' : x = <<p, r>>
    /\ \A l \in Procs : stop[l].pc = "wait" =>
          stop'[l] = stop[l] \/ (l = p /\ \A q \in stop[l].runs : IsActive(q) => q = r)

\* A tracked write of the leader's, or of anybody else's, leaves its run ended or
\* remembered by its writer.
LEMMA TrackedOwner ==
    ASSUME StoreInv, LeaseInv, ActiveRunHasOwner, HistGrows, NEW p \in Procs, NEW r \in Runs,
           NEW want, want.st \in Terminal, WantOK(want, r),
           TrackedFinish(p, r, want), OnlyOwnEnds(p, r)
    PROVE  ActiveRunHasOwner'
<1>0. /\ UNCHANGED <<leader, life, op>>
      /\ \A q \in Runs \ {r} : task'[q] = task[q]
      /\ task'[r] # task[r] => task[r].proc = p
      /\ \A w \in late \ late' : w.run = r /\ w.proc = p
      /\ \A x \in waits \ waits' : x = <<p, r>>
      /\ \A l \in Procs : stop[l].pc = "wait" =>
            stop'[l] = stop[l] \/ (l = p /\ \A q \in stop[l].runs : IsActive(q) => q = r)
  BY DEF OnlyOwnEnds
<1>1. ProcessTypes /\ TypeOK
  BY DEF LeaseInv, StoreInv
<1>2. /\ \A q \in Runs \ {r} : status'[q] = status[q]
      /\ \A q \in Procs \ {p} : failed'[q] = failed[q]
      /\ \/ IsTerminal(r)' /\ failed'[p] = failed[p] \ {r}
         \/ UNCHANGED storeVars /\ failed'[p] = failed[p] \cup {r}
  BY <1>1, TrackedEnds
<1>3. \A q \in Runs : IsActive(q)' =>
         IsActive(q) /\ status'[q] = status[q] /\ (q = r => r \in failed'[p])
  BY <1>2, StatusClasses DEF IsActive, IsTerminal, storeVars
<1>4. ASSUME NEW q \in Runs, IsActive(q)', NEW l \in Procs, WillEnd(l, q)
      PROVE  WillEnd(l, q)'
  <2>1. CASE q = r /\ l = p
    BY <1>0, <1>3, <1>4, <2>1 DEF WillEnd
  <2>2. CASE ~(q = r /\ l = p)
    <3>1. q \in failed[l] => q \in failed'[l]
      BY <1>2, <2>2
    <3>2. <<l, q>> \in waits => <<l, q>> \in waits'
      BY <1>0, <2>2
    <3>3. stop[l].pc = "wait" /\ q \in stop[l].runs => stop'[l].pc = "wait" /\ q \in stop'[l].runs
      BY <1>0, <1>3, <1>4, <2>2
    <3>4. (\E w \in late : w.proc = l /\ w.run = q /\ w.tracked)
          => \E w \in late' : w.proc = l /\ w.run = q /\ w.tracked
      BY <1>0, <2>2
    <3>5. q \in TasksOf(l) => q \in TasksOf(l)'
      BY <1>0, <2>2 DEF TasksOf, Live
    <3> QED BY <1>0, <1>4, <3>1, <3>2, <3>3, <3>4, <3>5 DEF WillEnd
  <2> QED BY <2>1, <2>2
<1>5. \A q \in Runs : IsActive(q)' /\ Waiting(q) => Waiting(q)'
  BY <1>3 DEF Waiting, HistGrows
<1>6. OwnersKeep
  BY <1>0, <1>3, <1>4, <1>5 DEF OwnersKeep
<1> QED BY <1>1, <1>6, OwnerKeeps

\* A task that ends says how its run ended, or leaves it to be remembered.
LEMMA TaskOwner ==
    ASSUME StoreInv, LeaseInv, EndInv, ActiveRunHasOwner, NEW r \in Runs, TaskStep(r)
    PROVE  ActiveRunHasOwner'
<1>0. /\ UNCHANGED <<leader, op, stop, late, waits, hist>> /\ ProcessTypes /\ TypeOK
      /\ task \in [Runs -> TaskType] /\ TasksOwned /\ hist \in HistType
  BY DEF TaskStep, TaskBegins, TaskAttaches, TaskStarts, TaskRecordsPool, TaskSeeds,
         TaskSaves, TaskDecides, TaskRaises, TaskFinishes, TaskLocal, TaskCommon,
         LeaseInv, ProcessTypes, StoreInv
<1>h. HistGrows
  BY <1>0 DEF HistGrows
<1>2. CASE TaskFinishes(r)
  <2>1. /\ task[r].pc \in {"finish"} \cup Ending /\ task[r].proc \in Procs
        /\ \A q \in Runs \ {r} : task'[q] = task[q]
        /\ \A q \in Procs : life'[q].acquired = life[q].acquired
        /\ TrackedFinish(task[r].proc, r, task[r].want)
    BY <1>0, <1>2, TaskGone DEF TaskFinishes
  <2>2. PICK p \in Procs : p = task[r].proc
    BY <2>1
  <2>3. task[r].want.st \in Terminal /\ WantOK(task[r].want, r)
    BY <2>1 DEF EndInv, VerdictInv, VerdictsSound
  <2>4. /\ \A q \in Runs \ {r} : status'[q] = status[q]
        /\ \A q \in Procs \ {p} : failed'[q] = failed[q]
        /\ \/ IsTerminal(r)' /\ failed'[p] = failed[p] \ {r}
           \/ UNCHANGED storeVars /\ failed'[p] = failed[p] \cup {r}
    BY <1>0, <2>1, <2>2, <2>3, TrackedEnds
  <2>5. \A q \in Runs : IsActive(q)' =>
           IsActive(q) /\ status'[q] = status[q] /\ (q = r => r \in failed'[p])
    BY <2>4, StatusClasses DEF IsActive, IsTerminal, storeVars
  <2>6. ASSUME Peace
        PROVE  OwnersKeep
    <3>1. Live(r)
      BY <2>1 DEF Live, Ending
    <3>2. leader = p
      BY <2>2, <2>6, <3>1, PeaceMeans
    <3>3. ASSUME NEW q \in Runs, IsActive(q)', WillEnd(p, q)
          PROVE  WillEnd(p, q)'
      <4>1. CASE q = r
        BY <2>5, <3>3, <4>1 DEF WillEnd
      <4>2. CASE q # r
        BY <1>0, <2>1, <2>4, <3>3, <4>2 DEF WillEnd, TasksOf, Live
      <4> QED BY <4>1, <4>2
    <3>4. \A q \in Runs : IsActive(q)' /\ Waiting(q) => Waiting(q)'
      BY <1>0, <2>5 DEF Waiting
    <3> QED BY <1>0, <2>1, <2>5, <3>2, <3>3, <3>4 DEF OwnersKeep
  <2> QED BY <1>0, <1>h, <2>6, OwnerKeeps
<1>3. CASE ~TaskFinishes(r)
  <2>1. /\ UNCHANGED <<life, failed>> /\ \A q \in Runs \ {r} : task'[q] = task[q]
        /\ task[r].pc \in Working \cup {"new"} /\ task'[r].pc \in Working \cup {"fail"}
        /\ task'[r].proc = task[r].proc
    BY <1>0, <1>3, TaskGoesOn
  <2>2. Calm /\ \A q \in Runs \ {r} : status'[q] = status[q]
    <3>1. CASE UNCHANGED storeVars
      BY <3>1 DEF Calm, storeVars, IsActive
    <3> QED BY <1>0, <1>3, <3>1, ProgressCalm
            DEF TaskStep, TaskBegins, TaskAttaches, TaskStarts, TaskRecordsPool,
                TaskSeeds, TaskSaves, TaskDecides, TaskRaises
  <2>3. Live(r) /\ Live(r)'
    BY <2>1 DEF Live, Working, Writing
  <2>4. ASSUME NEW q \in Runs, NEW p \in Procs, WillEnd(p, q)
        PROVE  WillEnd(p, q)'
    <3>1. q \in TasksOf(p) => q \in TasksOf(p)'
      BY <2>1, <2>3 DEF TasksOf, Live
    <3> QED BY <1>0, <2>1, <2>4, <3>1 DEF WillEnd
  <2>5. ASSUME Peace
        PROVE  OwnersKeep
    <3>1. r \notin hist.adrift
      BY <2>3, <2>5, PeaceMeans DEF AdriftStill
    <3>2. \A q \in Runs : Waiting(q) => Waiting(q)'
      BY <1>0, <2>2, <3>1 DEF Waiting
    <3> QED BY <1>0, <2>1, <2>2, <2>4, <3>2 DEF OwnersKeep, Calm
  <2> QED BY <1>0, <1>h, <2>5, OwnerKeeps
<1> QED BY <1>2, <1>3

LEMMA EnterOwner ==
    ASSUME LeaseInv, ActiveRunHasOwner, NEW p \in Procs, RequestStep(p) \/ BeginStart(p)
    PROVE  ActiveRunHasOwner'
<1>0. ProcessTypes
  BY DEF LeaseInv
<1>1. PICK what \in OpKinds \ {"none"}, pc \in {"mark", "recover"} : Enter(p, what, pc)
  BY Entering
<1>2. /\ UNCHANGED <<storeVars, leader, stop, task, late, failed, waits>>
      /\ op[p] = NoOp /\ HistGrows
      /\ \A q \in Procs \ {p} : op'[q] = op[q] /\ life'[q] = life[q]
      /\ \/ life[p].acquired /\ life' = life
         \/ op'[p].pc = "reconcile"
  BY <1>0, <1>1, EnterIs
<1>3. status' = status
  BY <1>2 DEF storeVars
<1> QED BY <1>0, <1>2, <1>3, IdleOwner, Empties


LEMMA OpOwner ==
    ASSUME StoreInv, LeaseInv, EndInv, ActiveRunHasOwner, NEW p \in Procs, OpStep(p)
    PROVE  ActiveRunHasOwner'
<1>t. /\ ProcessTypes /\ TypeOK /\ op \in [Procs -> OpType] /\ RunsNamed(op[p])
      /\ op[p] \in OpType /\ life[p] \in LifeType /\ hist \in HistType
  BY DEF LeaseInv, ProcessTypes, StoreInv
<1>0. /\ UNCHANGED <<leader, stop>> /\ op[p].pc # "idle" /\ op'[p].pc # "reconcile"
      /\ \A q \in Procs \ {p} : op'[q] = op[q] /\ life'[q] = life[q]
      /\ \A q \in Procs : life'[q].acquired = life[q].acquired
      /\ HistGrows
  BY <1>t, OpIs
<1>p. Peace => leader = p
  BY <1>0, PeaceMeans
<1>1. CASE OpReconcile(p)
  <2>1. \A q \in Runs : ~IsActive(q)'
    BY <1>1, <1>t, StatusClasses DEF OpReconcile, ReconcileIncompleteRuns, IsActive, TypeOK
  <2> QED BY <2>1, OwnerFresh
<1>2. CASE OpRecover(p)
  <2>1. op[p].pc = "recover" /\ Recover(p) /\ UNCHANGED <<task, late, waits>>
    BY <1>2 DEF OpRecover
  <2> QED BY <1>0, <2>1, RecoverOwner
<1>3. CASE OpMark(p) \/ OpRefused(p)
  <2>1. op[p].pc \in {"mark", "insert", "request"}
        /\ UNCHANGED <<storeVars, task, late, failed, waits>>
    BY <1>3 DEF OpMark, OpRefused
  <2>2. status' = status
    BY <2>1 DEF storeVars
  <2> QED BY <1>0, <1>t, <2>1, <2>2, IdleOwner
<1>4. CASE OpInsert(p)
  <2>1. PICK r \in Runs : Insert(r) /\ op' = [op EXCEPT ![p].pc = "launch", ![p].run = r]
    BY <1>4 DEF OpInsert
  <2>2. op'[p].pc = "launch" /\ op'[p].run = r
    BY <1>t, <2>1 DEF OpType
  <2>3. NoActiveRun /\ \A q \in Runs \ {r} : status'[q] = status[q]
    BY <1>t, <2>1, InsertIs
  <2>4. \A q \in Runs : IsActive(q)' => q = r
    BY <2>3 DEF NoActiveRun, IsActive
  <2>5. ASSUME Peace'
        PROVE  leader' = p
    BY <1>0, <1>p, <2>5 DEF Peace, HistGrows
  <2> QED BY <2>2, <2>4, <2>5 DEF ActiveRunHasOwner, WillEnd, Peace
<1>5. CASE OpLaunch(p)
  <2>1. PICK r \in Runs : r = op[p].run /\ op[p].pc = "launch"
    BY <1>5, <1>t DEF OpLaunch, RunsNamed
  <2>3. /\ task'[r].pc = "new" /\ task'[r].proc = p
        /\ \A q \in Runs \ {r} : task'[q] = task[q]
    BY <1>5, <1>t, <2>1 DEF OpLaunch, ProcessTypes, NoTask
  <2>4. UNCHANGED <<storeVars, late, waits, failed, hist>>
    BY <1>5 DEF OpLaunch
  <2>5. r \in TasksOf(p)'
    BY <2>3 DEF TasksOf, Live
  <2>6. ASSUME Peace
        PROVE  OwnersKeep
    <3>1. ASSUME NEW q \in Runs, WillEnd(p, q)
          PROVE  WillEnd(p, q)'
      <4>1. CASE q = r
        BY <2>5, <4>1 DEF WillEnd
      <4>2. CASE q # r
        BY <1>0, <2>1, <2>3, <2>4, <3>1, <4>2 DEF WillEnd, TasksOf, Live
      <4> QED BY <4>1, <4>2
    <3>2. \A q \in Runs : Waiting(q) => Waiting(q)'
      BY <2>4 DEF Waiting, storeVars
    <3> QED BY <1>0, <1>p, <2>1, <2>4, <2>6, <3>1, <3>2 DEF OwnersKeep, IsActive, storeVars
  <2> QED BY <1>t, <1>0, <2>6, OwnerKeeps
<1>6. CASE OpRequest(p)
  <2>1. PICK r \in Runs : RequestCancel(r) /\ op' = [op EXCEPT ![p].pc = "cancelLocal", ![p].run = r]
    BY <1>6 DEF OpRequest
  <2>2. op'[p].pc = "cancelLocal" /\ op'[p].run = r /\ op[p].pc = "request"
    BY <1>6, <1>t, <2>1 DEF OpRequest, OpType
  <2>3. Calm /\ \A q \in Runs \ {r} : status'[q] = status[q]
    BY <1>t, <2>1, ProgressCalm
  <2>4. UNCHANGED <<task, late, waits, failed, hist>>
    BY <1>6 DEF OpRequest
  <2>5. ASSUME Peace
        PROVE  OwnersKeep
    <3>1. ASSUME NEW q \in Runs, WillEnd(p, q)
          PROVE  WillEnd(p, q)'
      BY <1>0, <2>2, <2>4, <3>1 DEF WillEnd, TasksOf, Live
    <3>2. WillEnd(p, r)'
      BY <2>2 DEF WillEnd
    <3>3. \A q \in Runs : Waiting(q) => Waiting(q)' \/ q = r
      BY <2>3, <2>4 DEF Waiting
    <3> QED BY <1>0, <1>p, <2>2, <2>3, <2>5, <3>1, <3>2, <3>3 DEF OwnersKeep, Calm
  <2> QED BY <1>t, <1>0, <2>5, OwnerKeeps
<1>7. CASE OpCancelLocal(p)
  <2>1. PICK r \in Runs : r = op[p].run /\ op[p].pc = "cancelLocal"
    BY <1>7, <1>t DEF OpCancelLocal, RunsNamed
  <2>2. PICK S \in SUBSET Runs : S = {r} \cap TasksOf(p)
    OBVIOUS
  <2>3. PICK closed \in BOOLEAN : closed = life[p].closed
    BY <1>t DEF LifeType
  <2>4. /\ CancelTasks(S, closed) /\ \A q \in S : task[q].proc \in Procs
        /\ waits' = waits \cup {<<p, r>>}
        /\ UNCHANGED <<storeVars, failed, hist>>
    BY <1>7, <2>1, <2>2, <2>3 DEF OpCancelLocal, TasksOf
  <2>5. (\A q \in Runs \ S : task'[q] = task[q]) /\ late \subseteq late'
    BY <1>t, <2>4, CancelTasksIs
  <2>6. ASSUME Peace
        PROVE  OwnersKeep
    <3>1. ASSUME NEW q \in Runs, WillEnd(p, q)
          PROVE  WillEnd(p, q)'
      <4>1. CASE q = r
        BY <2>4, <4>1 DEF WillEnd
      <4>2. CASE q # r
        <5>1. task'[q] = task[q]
          BY <2>2, <2>5, <4>2
        <5> QED BY <1>0, <2>1, <2>4, <2>5, <3>1, <4>2, <5>1 DEF WillEnd, TasksOf, Live
      <4> QED BY <4>1, <4>2
    <3>2. \A q \in Runs : Waiting(q) => Waiting(q)'
      BY <2>4 DEF Waiting, storeVars
    <3> QED BY <1>0, <1>p, <2>1, <2>4, <2>6, <3>1, <3>2 DEF OwnersKeep, IsActive, storeVars
  <2> QED BY <1>t, <1>0, <2>6, OwnerKeeps
<1> QED BY <1>1, <1>2, <1>3, <1>4, <1>5, <1>6, <1>7 DEF OpStep

LEMMA StopOwner ==
    ASSUME StoreInv, LeaseInv, EndInv, ActiveRunHasOwner, NEW p \in Procs, StopStep(p)
    PROVE  ActiveRunHasOwner'
<1>t. /\ ProcessTypes /\ TypeOK /\ stop \in [Procs -> StopType] /\ stop[p] \in StopType
      /\ op \in [Procs -> OpType] /\ RunsNamed(op[p]) /\ life[p] \in LifeType
      /\ hist \in HistType /\ stop[p].runs \subseteq Runs
  BY DEF LeaseInv, ProcessTypes, StoreInv, StopType
<1>pt. ProcessTypes
  BY <1>t
<1>h. hist' = hist => HistGrows
  BY <1>t DEF HistGrows
<1>1. CASE TickCancelled(p)
  <2>1. /\ UNCHANGED <<storeVars, leader, life, task, waits, failed, stop>>
        /\ op[p].kind \in {"tick", "claim"}
        /\ Abandon(LeftByTick(p), {})
    BY <1>1 DEF TickCancelled
  <2>2. op'[p] = NoOp /\ \A q \in Procs \ {p} : op'[q] = op[q]
    BY <1>1, <1>t, LeaveIs DEF TickCancelled
  <2>3. op[p].pc \in {"recover", "insert", "launch"}
    BY <2>1 DEF LeaseInv, PhasesAgree, Phases
  <2>4. late \subseteq late'
    BY <1>t, <2>1, AbandonIs
  <2>5. status' = status
    BY <2>1 DEF storeVars
  <2>6. CASE op[p].pc = "launch"
    <3>1. PICK r \in Runs : r = op[p].run
      BY <1>t, <2>6 DEF RunsNamed
    <3>2. Launching(r)
      BY <2>6, <3>1 DEF Launching
    <3>3. {r} \in SUBSET Runs /\ {} \in SUBSET Procs
      OBVIOUS
    <3>4. HistGrows /\ hist'.adrift = hist.adrift \cup {r}
      BY <1>1, <1>t, <2>6, <3>1, <3>3, HistAdds DEF TickCancelled
    <3>5. ASSUME Peace
          PROVE  OwnersKeep
      <4>1. IsActive(r) => Waiting(r)'
        BY <2>5, <3>2, <3>4, <3>5, PeaceMeans DEF LaunchesWait, Waiting
      <4>2. \A q \in Runs : Waiting(q) => Waiting(q)'
        BY <2>5, <3>4 DEF Waiting, HistGrows
      <4>3. ASSUME NEW q \in Runs, NEW l \in Procs, WillEnd(l, q), q # r \/ l # p
            PROVE  WillEnd(l, q)'
        BY <2>1, <2>2, <2>4, <2>6, <3>1, <4>3 DEF WillEnd, TasksOf, Live
      <4> QED BY <2>1, <2>2, <2>3, <2>5, <4>1, <4>2, <4>3 DEF OwnersKeep, IsActive
    <3> QED BY <1>t, <3>4, <3>5, OwnerKeeps
  <2>7. CASE op[p].pc # "launch"
    <3>1. hist' = hist
      BY <1>1, <2>7 DEF TickCancelled
    <3> QED BY <1>t, <1>h, <2>1, <2>2, <2>3, <2>4, <2>5, <2>7, <3>1, IdleOwner
  <2> QED BY <2>6, <2>7
<1>2. CASE StopRecovers(p)
  <2>1. /\ stop[p].pc = "scheduler" /\ \A q \in Procs \ {p} : stop'[q] = stop[q]
        /\ UNCHANGED <<leader, life, op, task, late, waits, hist>> /\ Recover(p)
    BY <1>2, <1>t DEF StopRecovers
  <2> QED BY <1>h, <2>1, RecoverOwner
<1>3. CASE StopBegins(p)
  <2>1. /\ UNCHANGED <<storeVars, leader, op, failed, waits>>
        /\ stop[p].pc = "begin"
        /\ \A q \in Procs \ {p} : life'[q] = life[q] /\ stop'[q] = stop[q]
        /\ life'[p].acquired = life[p].acquired
        /\ life'[p].closed \in BOOLEAN
        /\ \/ /\ Idle(p) /\ stop'[p] = NoStop /\ UNCHANGED <<task, late, hist>>
           \/ /\ CancelTasks(TasksOf(p), life'[p].closed)
              /\ stop'[p] = [pc |-> "wait", runs |-> TasksOf(p)]
              /\ HistGrows
    BY <1>3, <1>t, StopBeginsIs DEF LifeType
  <2>2. status' = status
    BY <2>1 DEF storeVars
  <2>3. CASE stop'[p] = NoStop /\ UNCHANGED <<task, late, hist>>
    BY <1>t, <1>h, <2>1, <2>2, <2>3, IdleOwner
  <2>4. CASE /\ CancelTasks(TasksOf(p), life'[p].closed)
             /\ stop'[p] = [pc |-> "wait", runs |-> TasksOf(p)]
             /\ HistGrows
    <3>1. PICK closed \in BOOLEAN : closed = life'[p].closed
      BY <2>1
    <3>2. PICK S \in SUBSET Runs : S = TasksOf(p)
      BY DEF TasksOf
    <3>3. CancelTasks(S, closed) /\ \A q \in S : task[q].proc \in Procs
      BY <2>4, <3>1, <3>2 DEF TasksOf
    <3>4. (\A q \in Runs \ S : task'[q] = task[q]) /\ late \subseteq late'
      BY <1>pt, <3>3, CancelTasksIs
    <3>5. ASSUME NEW q \in Runs, NEW l \in Procs, WillEnd(l, q)
          PROVE  WillEnd(l, q)'
      <4>1. CASE q \in S /\ l = p
        BY <2>4, <3>2, <4>1 DEF WillEnd
      <4>2. CASE q \in S /\ l # p
        BY <2>1, <3>2, <3>4, <3>5, <4>2 DEF WillEnd, TasksOf, Live
      <4>3. CASE q \notin S
        BY <2>1, <3>2, <3>4, <3>5, <4>3 DEF WillEnd, TasksOf, Live
      <4> QED BY <4>1, <4>2, <4>3
    <3>6. \A q \in Runs : Waiting(q) => Waiting(q)'
      BY <2>2, <2>4 DEF Waiting, HistGrows
    <3>7. \A l \in Procs : life'[l].acquired = life[l].acquired /\ op'[l] = op[l]
      BY <2>1
    <3>8. OwnersKeep
      BY <2>1, <2>2, <3>5, <3>6, <3>7 DEF OwnersKeep, IsActive
    <3> QED BY <1>t, <2>4, <3>8, OwnerKeeps
  <2> QED BY <2>1, <2>3, <2>4
<1>4. CASE StopSettles(p)
  <2>1. /\ stop[p].pc = "wait" /\ \A q \in Procs \ {p} : stop'[q] = stop[q]
        /\ UNCHANGED <<leader, life, op, task, late, waits, hist>>
    BY <1>4, <1>t DEF StopSettles
  <2>2. ASSUME NEW r \in stop[p].runs, IsActive(r), TrackedFinish(p, r, Verdict("interrupted"))
        PROVE  ActiveRunHasOwner'
    <3>1. r \in Runs
      BY <1>t, <2>2
    <3>2. "interrupted" \in Terminal
      BY DEF Terminal
    <3>3. Verdict("interrupted").st = "interrupted" /\ ~Verdict("interrupted").auth
      BY <3>2, Verdicts
    <3>4. PICK want : want = Verdict("interrupted")
      OBVIOUS
    <3>5. want.st \in Terminal /\ WantOK(want, r) /\ TrackedFinish(p, r, want)
      BY <2>2, <3>2, <3>3, <3>4 DEF WantOK
    <3>6. \A q \in stop[p].runs : IsActive(q) => q = r
      BY <1>t, <2>2, <3>1 DEF StoreInv, SingleActiveRun
    <3>7. OnlyOwnEnds(p, r)
      BY <2>1, <3>6 DEF OnlyOwnEnds
    <3> QED BY <1>h, <2>1, <3>1, <3>5, <3>7, TrackedOwner
  <2>3. CASE (\A r \in stop[p].runs : ~IsActive(r)) /\ UNCHANGED <<storeVars, failed>>
    <3>1. ASSUME NEW q \in Runs, IsActive(q), NEW l \in Procs, WillEnd(l, q)
          PROVE  WillEnd(l, q)'
      BY <2>1, <2>3, <3>1 DEF WillEnd, TasksOf, Live
    <3>2. \A q \in Runs : Waiting(q) => Waiting(q)'
      BY <2>1, <2>3 DEF Waiting, storeVars
    <3>3. OwnersKeep
      BY <2>1, <2>3, <3>1, <3>2 DEF OwnersKeep, IsActive, storeVars
    <3> QED BY <1>t, <1>h, <2>1, <3>3, OwnerKeeps
  <2> QED BY <1>4, <2>2, <2>3 DEF StopSettles
<1>5. CASE StopEnds(p)
  <2> DEFINE l == [life[p] EXCEPT !.started = FALSE, !.acquired = FALSE, !.stopping = FALSE]
  <2>1. l \in LifeType /\ ~l.acquired
    BY <1>t DEF LifeType
  <2>2. life' = [life EXCEPT ![p] = Quieted(p, l, task)]
    BY <1>5 DEF StopEnds
  <2>3. ~life'[p].acquired /\ \A q \in Procs \ {p} : life'[q] = life[q]
    <3> HIDE DEF l
    <3> QED BY <1>t, <2>1, <2>2, QuietedIs DEF ProcessTypes
  <2>4. /\ stop[p].pc = "leave" /\ \A q \in Procs \ {p} : stop'[q] = stop[q]
        /\ UNCHANGED <<storeVars, leader, op, task, late, failed, waits, hist>>
    BY <1>5, <1>t DEF StopEnds
  <2>5. status' = status
    BY <2>4 DEF storeVars
  <2> QED BY <1>t, <1>h, <2>3, <2>4, <2>5, IdleOwner
<1>6. CASE FinalStop(p)
  <2>1. UNCHANGED <<leader, op, task, late, waits, hist>>
    BY <1>6 DEF FinalStop
  <2>2. CASE /\ stop[p] = NoStop /\ StopFrom(p, "closing")
             /\ UNCHANGED <<storeVars, failed, life>>
    <3>1. stop[p].pc # "wait" /\ \A q \in Procs \ {p} : stop'[q] = stop[q]
      BY <1>t, <2>2, StopFromIs, Empties
    <3>2. status' = status
      BY <2>2 DEF storeVars
    <3> QED BY <1>t, <1>h, <2>1, <2>2, <3>1, <3>2, IdleOwner
  <2>3. CASE /\ Recover(p) /\ life' = [life EXCEPT ![p].closed = TRUE]
             /\ UNCHANGED stop
    <3>1. [life[p] EXCEPT !.closed = TRUE].acquired = life[p].acquired
      BY <1>t DEF LifeType
    <3>2. \A q \in Procs : life'[q].acquired = life[q].acquired
      BY <1>t, <2>3, <3>1 DEF ProcessTypes
    <3> QED BY <1>h, <2>1, <2>3, <3>2, RecoverOwner
  <2> QED BY <1>6, <2>2, <2>3 DEF FinalStop
<1> QED BY <1>1, <1>2, <1>3, <1>4, <1>5, <1>6 DEF StopStep

LEMMA LeaseOwner ==
    ASSUME StoreInv, LeaseInv, EndInv, ActiveRunHasOwner, NEW p \in Procs, LeaseStep(p)
    PROVE  ActiveRunHasOwner'
<1>t. /\ ProcessTypes /\ TypeOK /\ hist \in HistType /\ op[p] \in OpType
      /\ life \in [Procs -> LifeType] /\ stop[p] \in StopType
  BY DEF LeaseInv, ProcessTypes, StoreInv
<1>h. hist' = hist => HistGrows
  BY <1>t DEF HistGrows
<1>1. CASE BeginStart(p)
  BY <1>1, EnterOwner
<1>2. CASE Crash(p) \/ Exit(p)
  <2>1. Vanish(p)
    BY <1>2 DEF Crash, Exit
  <2>2. leader' = (IF leader = p THEN NoProc ELSE leader) /\ UNCHANGED <<storeVars, hist>>
    BY <1>t, <2>1, VanishIs
  <2>3. CASE leader = p
    BY <2>2, <2>3, OwnerFresh
  <2>4. CASE leader # p
    <3>1. ASSUME NEW q \in Runs, NEW l \in Procs \ {p}, WillEnd(l, q)
          PROVE  WillEnd(l, q)'
      <4>1. op'[l] = op[l] /\ stop'[l] = stop[l] /\ failed'[l] = failed[l]
        BY <1>t, <2>1, VanishIs
      <4>2. q \in TasksOf(l) => q \in TasksOf(l)'
        BY <1>t, <2>1, VanishIs DEF TasksOf, Live
      <4>3. <<l, q>> \in waits => <<l, q>> \in waits'
        BY <1>t, <2>1, VanishIs
      <4>4. \A w \in late : w.proc = l => w \in late'
        BY <1>t, <2>1, VanishIs
      <4> QED BY <3>1, <4>1, <4>2, <4>3, <4>4 DEF WillEnd
    <3>2. \A l \in Procs \ {p} : life'[l] = life[l] /\ op'[l] = op[l]
      BY <1>t, <2>1, VanishIs
    <3>3. \A q \in Runs : Waiting(q) => Waiting(q)'
      BY <2>2 DEF Waiting, storeVars
    <3>4. OwnersKeep
      BY <2>2, <2>4, <3>1, <3>2, <3>3 DEF OwnersKeep, IsActive, storeVars
    <3> QED BY <1>t, <1>h, <2>2, <3>4, OwnerKeeps
  <2> QED BY <2>3, <2>4
<1>3. CASE TakeLease(p)
  <2>1. leader = NoProc /\ leader' = p /\ UNCHANGED <<life, hist>>
    BY <1>3 DEF TakeLease
  <2>2. CASE Peace
    <3>1. Guarded(p)
      BY <2>2 DEF LeaseInv, TasksGuarded, Peace
    <3>2. ~life'[p].acquired
      BY <2>1, <3>1, ManagerAssumption DEF Guarded
    <3> QED BY <2>1, <3>2, OwnerFresh
  <2>3. CASE ~Peace
    BY <2>1, <2>3 DEF Peace, ActiveRunHasOwner
  <2> QED BY <2>2, <2>3
<1>4. CASE ScannerStarted(p)
  <2>1. Recover(p) /\ UNCHANGED <<leader, life, op, stop, task, late, waits, hist>>
    BY <1>4 DEF ScannerStarted
  <2> QED BY <1>h, <2>1, RecoverOwner
<1>5. CASE Activate(p)
  <2>1. UNCHANGED <<leader, life, op, stop, task, late, failed, waits, hist>>
    BY <1>5 DEF Activate
  <2>2. status' = status
    BY <1>5 DEF Activate, ReconcileOrphanedTaskRuns, rowVars, storeVars
  <2> QED BY <1>t, <1>h, <2>1, <2>2, IdleOwner
<1>6. CASE Shutdown(p) \/ SchedulerFails(p)
  <2>1. /\ UNCHANGED <<storeVars, leader, life, op, task, late, failed, waits, hist>>
        /\ UNCHANGED stop \/ (coord[p] \in {"active", "starting"}
                               /\ \E state \in {"closing", "rolling"} : StopFrom(p, state))
    BY <1>6 DEF Shutdown, SchedulerFails
  <2>2. coord[p] \in {"active", "starting"} => stop[p].pc # "wait"
    BY DEF LeaseInv, PhasesAgree, Phases, Stopping
  <2>3. \A q \in Procs : stop[q].pc = "wait" => stop'[q] = stop[q]
    BY <1>t, <2>1, <2>2, StopFromIs
  <2>4. status' = status
    BY <2>1 DEF storeVars
  <2> QED BY <1>t, <1>h, <2>1, <2>3, <2>4, IdleOwner
<1>7. CASE ReconcileFails(p)
  <2>1. /\ UNCHANGED <<storeVars, leader, task, late, failed, waits, hist>>
        /\ op[p].pc = "reconcile" /\ Leave(p)
        /\ life' = [life EXCEPT ![p].acquired = FALSE]
        /\ UNCHANGED stop \/ (op[p].kind = "start" /\ StopFrom(p, "rolling"))
    BY <1>7 DEF ReconcileFails
  <2>2. op[p].kind = "start" => stop[p].pc # "wait"
    BY <2>1 DEF LeaseInv, PhasesAgree, Phases, Stopping, Reconciling
  <2>3. \A q \in Procs : stop[q].pc = "wait" => stop'[q] = stop[q]
    BY <1>t, <2>1, <2>2, StopFromIs
  <2>4. ~life'[p].acquired /\ \A q \in Procs \ {p} : life'[q] = life[q]
    BY <1>t, <2>1, GivenUp
  <2>5. \A q \in Procs \ {p} : op'[q] = op[q]
    BY <1>t, <2>1, LeaveIs
  <2>6. status' = status
    BY <2>1 DEF storeVars
  <2> QED BY <1>t, <1>h, <2>1, <2>3, <2>4, <2>5, <2>6, IdleOwner
<1>8. CASE ShutdownActivation(p)
  <2>1. /\ UNCHANGED <<storeVars, leader, task, failed, waits, hist>>
        /\ coord[p] \in {"activating", "starting"}
        /\ Abandon(LeftByActivation(p), {}) /\ StopFrom(p, "folding")
        /\ \/ op[p].pc = "reconcile" /\ Leave(p) /\ life' = [life EXCEPT ![p].acquired = FALSE]
           \/ UNCHANGED <<op, life>>
    BY <1>8 DEF ShutdownActivation, Reconciling
  <2>2. stop[p].pc # "wait"
    BY <2>1 DEF LeaseInv, PhasesAgree, Phases, Stopping
  <2>3. \A q \in Procs : stop[q].pc = "wait" => stop'[q] = stop[q]
    BY <1>t, <2>1, <2>2, StopFromIs
  <2>4. late \subseteq late'
    BY <1>t, <2>1, AbandonIs
  <2>5. \A q \in Procs : /\ life'[q].acquired /\ op'[q].pc # "reconcile"
                               => life[q].acquired /\ op[q].pc # "reconcile"
                         /\ op[q].pc \in {"launch", "cancelLocal"} => op'[q] = op[q]
    <3>1. CASE UNCHANGED <<op, life>>
      BY <3>1
    <3>2. CASE op[p].pc = "reconcile" /\ Leave(p) /\ life' = [life EXCEPT ![p].acquired = FALSE]
      BY <1>t, <3>2, LeaveIs, GivenUp
    <3> QED BY <2>1, <3>1, <3>2
  <2>6. status' = status
    BY <2>1 DEF storeVars
  <2> QED BY <1>t, <1>h, <2>1, <2>3, <2>4, <2>5, <2>6, IdleOwner
<1>9. CASE ReleaseLease(p)
  <2>1. UNCHANGED <<storeVars, leader, life, op, stop, task, late, failed, waits, hist>>
    BY <1>9 DEF ReleaseLease
  <2>2. status' = status
    BY <2>1 DEF storeVars
  <2> QED BY <1>t, <1>h, <2>1, <2>2, IdleOwner
<1>10. CASE LeaseReleased(p)
  BY <1>10, OwnerFresh DEF LeaseReleased
<1>11. CASE LoopEnds(p)
  <2>1. coord[p] = "stopped" /\ TasksOf(p) # {} /\ UNCHANGED leader /\ HistGrows
    BY <1>11, <1>t, LoopEndsIs
  <2>2. leader # p
    BY <2>1 DEF LeaseInv, PhasesAgree, Phases, Held, Up
  <2>3. ~Peace
    BY <2>1, <2>2, PeaceMeans DEF TasksOf
  <2> QED BY <1>t, <2>1, <2>3, OwnerKeeps
<1> QED BY <1>1, <1>2, <1>3, <1>4, <1>5, <1>6, <1>7, <1>8, <1>9, <1>10, <1>11 DEF LeaseStep

\* A write nobody keeps the score of ends its run or leaves it as it was.
LEMMA LateOwner ==
    ASSUME StoreInv, LeaseInv, EndInv, ActiveRunHasOwner, NEW w \in late, LateWrite(w)
    PROVE  ActiveRunHasOwner'
<1>t. /\ ProcessTypes /\ TypeOK /\ hist \in HistType /\ w \in WriteType /\ Bound(w)
      /\ w.proc \in Procs
  BY DEF LeaseInv, ProcessTypes, StoreInv, WriteType
<1>0. /\ UNCHANGED <<leader, life, op, stop, task, waits>>
      /\ late' = late \ {w} /\ HistGrows
      /\ w.call # "insert" => hist'.adrift = hist.adrift
  BY <1>t, LateWriteIs
<1>v. /\ w.call = "finish" => w.want.st \in Terminal
      /\ w.tracked => w.call = "finish"
      /\ w.run # NoRun => WantOK(w.want, w.run)
  BY DEF EndInv, VerdictInv, VerdictsSound
<1>1. CASE w.tracked
  <2>1. PICK r \in Runs : r = w.run
    BY <1>t, <1>1 DEF Bound, WriteType
  <2>2. PICK p \in Procs : p = w.proc
    BY <1>t
  <2>3. PICK want : want = w.want
    OBVIOUS
  <2>4. want.st \in Terminal /\ WantOK(want, r) /\ TrackedFinish(p, r, want)
    BY <1>1, <1>v, <2>1, <2>2, <2>3, NoRunAssumption DEF LateWrite
  <2>5. OnlyOwnEnds(p, r)
    BY <1>0, <2>1, <2>2 DEF OnlyOwnEnds
  <2> QED BY <1>0, <2>4, <2>5, TrackedOwner
<1>2. CASE ~w.tracked
  <2>1. failed' = failed /\ (LateCommit(w) \/ UNCHANGED <<storeVars, hist>>)
    BY <1>2 DEF LateWrite
  <2>2. ASSUME NEW q \in Runs, NEW l \in Procs, WillEnd(l, q)
        PROVE  WillEnd(l, q)'
    <3>1. (\E v \in late : v.proc = l /\ v.run = q /\ v.tracked)
          => \E v \in late' : v.proc = l /\ v.run = q /\ v.tracked
      BY <1>0, <1>2
    <3> QED BY <1>0, <2>1, <2>2, <3>1 DEF WillEnd, TasksOf, Live
  <2>3. ASSUME \A q \in Runs : IsActive(q)' => IsActive(q),
               Peace => \A q \in Runs : IsActive(q)' /\ Waiting(q) => Waiting(q)'
        PROVE  ActiveRunHasOwner'
    <3>1. Peace => OwnersKeep
      BY <1>0, <2>2, <2>3 DEF OwnersKeep
    <3> QED BY <1>t, <1>0, <3>1, OwnerKeeps
  <2>4. ASSUME \A q \in Runs : status'[q] = status[q] \/ ~IsActive(q)'
        PROVE  ActiveRunHasOwner'
    <3>1. \A q \in Runs : IsActive(q)' => IsActive(q)
      BY <2>4 DEF IsActive
    <3>2. \A q \in Runs : IsActive(q)' /\ Waiting(q) => Waiting(q)'
      BY <1>0, <2>4 DEF Waiting, HistGrows
    <3> QED BY <2>3, <3>1, <3>2
  <2>5. CASE UNCHANGED storeVars
    BY <2>4, <2>5 DEF storeVars
  <2>6. CASE LateCommit(w) /\ w.call = "insert"
    <3>1. PICK r \in Runs : Insert(r) /\ hist' = [hist EXCEPT !.adrift = @ \cup {r}]
      BY <2>6 DEF LateCommit
    <3>2. {r} \in SUBSET Runs /\ {} \in SUBSET Procs
      OBVIOUS
    <3>3. r \in hist'.adrift
      BY <1>t, <3>1, <3>2, HistAdds
    <3>4. NoActiveRun /\ status'[r] = "queued" /\ \A q \in Runs \ {r} : status'[q] = status[q]
      BY <1>t, <3>1, InsertIs
    <3>5. \A q \in Runs : IsActive(q)' => q = r
      BY <3>4 DEF NoActiveRun, IsActive
    <3> QED BY <3>3, <3>4, <3>5 DEF ActiveRunHasOwner
  <2>7. CASE LateCommit(w) /\ w.call = "reconcile"
    <3>1. ReconcileIncompleteRuns
      BY <2>7 DEF LateCommit
    <3>2. \A q \in Runs : ~IsActive(q)'
      BY <1>t, <3>1, StatusClasses DEF ReconcileIncompleteRuns, IsActive, TypeOK
    <3> QED BY <3>2, OwnerFresh
  <2>8. CASE LateCommit(w) /\ w.call = "orphans"
    <3>1. status' = status
      BY <2>8 DEF LateCommit, ReconcileOrphanedTaskRuns, rowVars
    <3> QED BY <2>4, <3>1
  <2>9. CASE LateCommit(w) /\ w.call \notin UnboundCalls
    <3>1. PICK r \in Runs : r = w.run
      BY <1>t, <2>9 DEF WriteType, Bound
    <3>2. CASE w.call = "finish"
      <4>1. FinishRun(r, w.want.st, w.want.auth) /\ w.want.st \in Terminal
        BY <1>v, <2>9, <3>1, <3>2 DEF LateCommit
      <4>2. (\A q \in Runs \ {r} : status'[q] = status[q]) /\ IsTerminal(r)'
        BY <1>t, <4>1, FinishEnds
      <4>3. ~IsActive(r)'
        BY <4>2, StatusClasses DEF IsActive, IsTerminal
      <4> QED BY <2>4, <4>2, <4>3
    <3>3. CASE w.call # "finish"
      <4>1. \/ CreateAndAttachTaskRun(r) \/ StartRun(r) \/ SeedResults(r)
            \/ \E stale : RecordStockPoolSource(r, stale)
            \/ \E batch, outcome : SaveResultBatch(r, batch, outcome)
        BY <2>9, <3>1, <3>3 DEF LateCommit, UnboundCalls
      <4>2. Calm /\ \A q \in Runs \ {r} : status'[q] = status[q]
        BY <1>t, <4>1, ProgressCalm
      <4>3. Peace => r \notin hist.adrift
        BY <3>1, <3>3, PeaceMeans DEF AdriftStill
      <4>4. Peace => \A q \in Runs : Waiting(q) => Waiting(q)'
        BY <1>0, <4>2, <4>3 DEF Waiting, HistGrows
      <4> QED BY <2>3, <4>2, <4>4 DEF Calm
    <3> QED BY <3>2, <3>3
  <2> QED BY <2>1, <2>5, <2>6, <2>7, <2>8, <2>9 DEF UnboundCalls
<1> QED BY <1>1, <1>2

LEMMA SettleOwner ==
    ASSUME StoreInv, LeaseInv, EndInv, ActiveRunHasOwner,
           NEW p \in Procs, NEW r \in Runs, CancelSettles(p, r)
    PROVE  ActiveRunHasOwner'
<1>t. ProcessTypes /\ hist \in HistType
  BY DEF LeaseInv, ProcessTypes
<1>0. /\ UNCHANGED <<leader, life, op, stop, task, late, hist>>
      /\ <<p, r>> \in waits /\ waits' = waits \ {<<p, r>>}
  BY DEF CancelSettles
<1>h. HistGrows
  BY <1>0, <1>t DEF HistGrows
<1>1. CASE status[r] = "cancelling" /\ TrackedFinish(p, r, Verdict("cancelled"))
  <2>1. "cancelled" \in Terminal
    BY DEF Terminal
  <2>2. Verdict("cancelled").st = "cancelled" /\ ~Verdict("cancelled").auth
    BY <2>1, Verdicts
  <2>3. PICK want : want = Verdict("cancelled")
    OBVIOUS
  <2>4. want.st \in Terminal /\ WantOK(want, r) /\ TrackedFinish(p, r, want)
    BY <1>1, <2>1, <2>2, <2>3 DEF WantOK, CancelAccepted
  <2>5. OnlyOwnEnds(p, r)
    BY <1>0 DEF OnlyOwnEnds
  <2> QED BY <1>h, <2>4, <2>5, TrackedOwner
<1>2. CASE status[r] # "cancelling" /\ UNCHANGED <<storeVars, failed>>
  <2>1. CancelAccepted(r)
    <3>1. \A x \in waits : CancelAccepted(x[2])
      BY DEF EndInv, VerdictInv, CancelsSound
    <3>2. <<p, r>>[2] = r
      OBVIOUS
    <3> QED BY <1>0, <3>1, <3>2 DEF CancelAccepted, IsTerminal
  <2>2. ~IsActive(r)
    BY <1>2, <2>1, StatusClasses DEF CancelAccepted, IsActive, IsTerminal
  <2>3. ASSUME NEW q \in Runs, IsActive(q), NEW l \in Procs, WillEnd(l, q)
        PROVE  WillEnd(l, q)'
    <3>1. <<l, q>> \in waits => <<l, q>> \in waits'
      BY <1>0, <2>2, <2>3
    <3> QED BY <1>0, <1>2, <2>3, <3>1 DEF WillEnd, TasksOf, Live
  <2>4. \A q \in Runs : Waiting(q) => Waiting(q)'
    BY <1>0, <1>2 DEF Waiting, storeVars
  <2>5. OwnersKeep
    BY <1>0, <1>2, <2>3, <2>4 DEF OwnersKeep, IsActive, storeVars
  <2> QED BY <1>t, <1>h, <2>5, OwnerKeeps
<1> QED BY <1>1, <1>2 DEF CancelSettles

LEMMA OwnerStep ==
    ASSUME StoreInv, LeaseInv, EndInv, ActiveRunHasOwner, [ManagerNext]_vars
    PROVE  ActiveRunHasOwner'
<1>1. CASE UNCHANGED vars
  <2>1. ProcessTypes /\ HistGrows /\ status' = status
    BY <1>1 DEF LeaseInv, ProcessTypes, HistGrows, vars, managerVars, storeVars
  <2> QED BY <1>1, <2>1, IdleOwner DEF vars, managerVars
<1> QED
  BY <1>1, TaskOwner, EnterOwner, OpOwner, StopOwner, LeaseOwner, LateOwner, SettleOwner
  DEF ManagerNext

-----------------------------------------------------------------------------
(* The theorems about the whole.                                           *)

LEMMA ManagerInvInit == ManagerInit => ManagerInv
<1> SUFFICES ASSUME ManagerInit
             PROVE  ManagerInv
  OBVIOUS
<1>1. leader = NoProc /\ Init
  BY DEF ManagerInit
<1>2. ActiveRunHasOwner
  BY <1>1 DEF ActiveRunHasOwner
<1> QED BY <1>1, <1>2, InvInit, LeaseInvInit, EndInit DEF ManagerInv, EndInv

LEMMA ManagerInvStep == ManagerInv /\ [ManagerNext]_vars => ManagerInv' /\ [Next]_storeVars
<1> SUFFICES ASSUME ManagerInv, [ManagerNext]_vars
             PROVE  ManagerInv' /\ [Next]_storeVars
  OBVIOUS
<1>1. /\ StoreInv /\ TypeOK /\ LeaseInv /\ EndInv /\ ActiveRunHasOwner
      /\ ProcessTypes /\ TasksOwned /\ VerdictsSound
  BY DEF ManagerInv, StoreInv, LeaseInv, EndInv, VerdictInv
<1>2. [Next]_storeVars
  BY <1>1, StepIsCall
<1>3. StoreInv'
  BY <1>1, <1>2, InvStep
<1>4. LeaseInv'
  BY <1>1, LeaseInvStep
<1>5. ProcessTypes'
  BY <1>4 DEF LeaseInv
<1>6. EndInv'
  BY <1>1, <1>2, <1>5, EndStep
<1>7. ActiveRunHasOwner'
  BY <1>1, OwnerStep
<1> QED BY <1>2, <1>3, <1>4, <1>6, <1>7 DEF ManagerInv, EndInv

\* ManagerInv is an inductive invariant of the processes and the store, with every
\* fault, rollback, abandoned write and request in the window of a rollback.
THEOREM ManagerInvariant == ManagerSpec => []ManagerInv
  BY ManagerInvInit, ManagerInvStep, PTL DEF ManagerSpec

\* The processes use the store only as MarketScanStore lets anybody use it: their
\* steps are its calls, one at a time, and what is proved of the store holds of
\* the system.
THEOREM ManagerUsesStore == ManagerSpec => Spec
<1>1. ManagerInit => Init
  BY DEF ManagerInit
<1> QED BY <1>1, ManagerInvInit, ManagerInvStep, PTL DEF ManagerSpec, Spec

\* The scans of several processes, with their crashes, rollbacks and late writes,
\* are seen by readers as a ScanLedger.
THEOREM ManagerImplementsLedger == ManagerSpec => ImplementsLedger
  BY ManagerUsesStore, StoreImplementsLedger, PTL

\* What the store promises holds of the whole system: whatever the processes do to
\* each other, one scan is active, its task row follows it, published rankings are
\* complete, sealed and queued for capture exactly once, and history stays as it is.
THEOREM ManagerKeepsStore ==
    ManagerSpec => /\ [](/\ SingleActiveRun /\ TaskRowFollowsRun /\ PublishedIsComplete
                         /\ SealMatchesRows /\ CaptureQueuedExactly)
                   /\ HistoryIsImmutable
<1>1. StoreInv => /\ SingleActiveRun /\ TaskRowFollowsRun /\ PublishedIsComplete
                  /\ SealMatchesRows /\ CaptureQueuedExactly
  BY DEF StoreInv
<1> QED BY <1>1, ManagerUsesStore, StoreInvariant, HistoryAlwaysImmutable, PTL

\* Every variable of the processes and of the store keeps its type.
THEOREM ManagerTypeCorrect == ManagerSpec => []ManagerTypeOK
<1>1. ManagerInv => ManagerTypeOK
  <2> SUFFICES ASSUME ManagerInv
               PROVE  ManagerTypeOK
    OBVIOUS
  <2>1. TypeOK /\ ProcessTypes
    BY DEF ManagerInv, StoreInv, LeaseInv
  <2>2. \A p \in Procs : /\ op[p] \in OpType /\ stop[p] \in StopType /\ failed[p] \subseteq Runs
    BY <2>1 DEF ProcessTypes
  <2>3. \A r \in Runs : task[r] \in TaskType
    BY <2>1 DEF ProcessTypes
  <2>4. \A r \in Runs : task[r].want.st \in Terminal \cup {"none"}
    BY <2>3 DEF TaskType, VerdictType
  <2>5. \A w \in late : w \in WriteType /\ Bound(w)
    BY <2>1 DEF ProcessTypes
  <2>6. \A w \in late : w.proc \in Procs /\ IF w.call \in UnboundCalls
                                            THEN w.run = NoRun
                                            ELSE w.run \in Runs /\ w.call \in Writing
    BY <2>5 DEF WriteType, Bound
  <2> QED BY <2>1, <2>2, <2>3, <2>4, <2>6
          DEF ManagerTypeOK, ProcessTypes, OpType, OpKinds, StopType, TaskType, LifeType, HistType
<1> QED BY ManagerInvariant, <1>1, PTL

\* As long as nothing is served in the window of a rollback, an active run always
\* has somebody who will end it, or waits for the process that is about to
\* reconcile, or is a queued run whose INSERT outlived the tick that awaited it.
THEOREM ActiveRunAlwaysHasOwner == ManagerSpec => []ActiveRunHasOwner
<1>1. ManagerInv => ActiveRunHasOwner
  BY DEF ManagerInv
<1> QED BY ManagerInvariant, <1>1, PTL

\* Only what a user asked to cancel is ever recorded as cancelled, or what a
\* rollback or the end of the event loop cancelled while the manager was open.
THEOREM CancelledAlwaysOnRequest == ManagerSpec => []CancelledOnlyOnRequest
<1>1. ManagerInv => CancelledOnlyOnRequest
  BY DEF ManagerInv, VerdictInv, CancelsSound, CancelledOnlyOnRequest
<1> QED BY ManagerInvariant, <1>1, PTL

\* As long as nothing is served in the window of a rollback, the fields
\* MarketScanExecutor keeps for the scan in progress belong to one scan, and to
\* those a reconciliation ended under their task.
THEOREM AtMostOneScanComputes == ManagerSpec => []OneScanComputes
<1>1. ManagerInv => OneScanComputes
  BY DEF ManagerInv, StoreInv, OrderInv, Peace, WorkersActive, SingleActiveRun, OneScanComputes
<1> QED BY ManagerInvariant, <1>1, PTL
=============================================================================
