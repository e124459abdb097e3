------------------------ MODULE RuntimeServicesProofs ------------------------
(***************************************************************************)
(* Proofs about RuntimeServices, for every set of manual requests and for  *)
(* every number of submissions, executions, scans, faults and crashes: a   *)
(* request is executed at most once, live work keeps its row, its receipt  *)
(* and the scheduler's guard, a row in progress has an owner, every        *)
(* variable keeps its type, and the clients of the requests see a          *)
(* RequestLedger.                                                          *)
(*                                                                         *)
(* The heart of the argument is that _manual_guard_users counts exactly    *)
(* the requests that use the guard, twice while they execute: a request    *)
(* that finds itself the only user, or a start that finds none, may        *)
(* reconcile because nothing else is there to be taken for an orphan.  The *)
(* refinement needs one fact more, ReceiptStage: which receipts a request  *)
(* can have at which place.                                                *)
(***************************************************************************)
EXTENDS RuntimeServices, FiniteSetTheorems, TLAPS

Places   == AlivePlaces \cup {"idle"}
Receipts == {"none", "accepted", "running", "completed", "failed", "interrupted"}
Rows     == [st : {"none", "running", "ended", "cancelled"}, by : Nat]
Counts   == [submits : Nat, autos : Nat, scans : Nat, faults : Nat, crashes : Nat]

Typed ==
    /\ held \in BOOLEAN /\ guarding \in BOOLEAN /\ runner \in BOOLEAN
    /\ pc \in [Works -> Places]
    /\ row \in [Works -> Rows]
    /\ receipt \in [Requests -> Receipts]
    /\ ran \in [Requests -> Nat]
    /\ count \in Counts

\* A request that has run has a receipt, and one about to run has one and has
\* not run.
RanHasReceipt ==
    \A m \in Requests :
        /\ ran[m] <= 1
        /\ ran[m] = 1 => receipt[m] # "none"
        /\ pc[m] \in {"run", "insert", "attach"} => ran[m] = 0 /\ receipt[m] # "none"

RowsAreOfThePast == \A w \in Works : row[w].by <= Now

AtGuardNow   == {m \in Requests : pc[m] \in AtGuard}
ExecutingNow == {m \in Requests : pc[m] \in Executing}

\* The users of the guard are counted.
UsersCounted == users = Cardinality(AtGuardNow) + Cardinality(ExecutingNow)

\* The loop runs under its guard, and its task ends with it or is in the hands
\* of the stop that could not end it.
LoopGuarded ==
    /\ runner => guarding
    /\ guarding => held
    /\ pc[AutoTask] # "idle" => runner \/ AutoTask \in shutdown

\* A start reconciles alone.
ReconcilesAlone ==
    co = "schedReconcile" => users = 0 /\ shutdown = {} /\ ~runner /\ guarding

\* A work whose insert was cancelled executes no more.
OrphansOver ==
    \A w \in Works : w \in orphan =>
        /\ pc[w] \notin {"run", "insert", "attach", "work", "record"}
        /\ w \in Requests => receipt[w] # "none"

ServicesInv ==
    /\ Typed
    /\ RanHasReceipt
    /\ RowsAreOfThePast
    /\ RowHasOwner
    /\ UsersCounted
    /\ LoopGuarded
    /\ ReconcilesAlone
    /\ OrphansOver
    /\ GuardCoversWork
    /\ LiveWorkKept

-----------------------------------------------------------------------------
(* Works move from place to place.                                         *)

LEMMA RequestSetsFinite ==
    ASSUME NEW S \in SUBSET Requests
    PROVE  IsFiniteSet(S) /\ Cardinality(S) \in Nat
BY FS_Subset, FS_CardinalityType, RuntimeAssumption

LEMMA WorksSplit == AutoTask \in Works /\ AutoTask \notin Requests /\ Requests \subseteq Works
BY RuntimeAssumption DEF Works

\* The only user of the guard is the one that looks.
LEMMA OnlyUser ==
    ASSUME ServicesInv, NEW m \in Requests, pc[m] \in AtGuard, users = 1
    PROVE  \A x \in Requests : x # m => pc[x] \notin AtGuard
<1>1. /\ AtGuardNow \in SUBSET Requests /\ ExecutingNow \in SUBSET Requests
      /\ m \in AtGuardNow
  BY DEF AtGuardNow, ExecutingNow
<1>2. /\ IsFiniteSet(AtGuardNow) /\ Cardinality(AtGuardNow) \in Nat
      /\ Cardinality(ExecutingNow) \in Nat
  BY <1>1, RequestSetsFinite
<1>3. Cardinality(AtGuardNow) # 0
  BY <1>1, <1>2, FS_EmptySet
<1>4. Cardinality(AtGuardNow) = 1
  BY <1>2, <1>3 DEF ServicesInv, UsersCounted
<1>5. AtGuardNow = {m}
  BY <1>1, <1>2, <1>4, FS_Singleton
<1> QED BY <1>5 DEF AtGuardNow

\* Without users no request is past the guard.
LEMMA NoUsers ==
    ASSUME ServicesInv, users = 0
    PROVE  \A m \in Requests : pc[m] \notin AtGuard
<1>1. AtGuardNow \in SUBSET Requests /\ ExecutingNow \in SUBSET Requests
  BY DEF AtGuardNow, ExecutingNow
<1>2. /\ IsFiniteSet(AtGuardNow) /\ Cardinality(AtGuardNow) \in Nat
      /\ Cardinality(ExecutingNow) \in Nat
  BY <1>1, RequestSetsFinite
<1>3. Cardinality(AtGuardNow) = 0
  BY <1>2 DEF ServicesInv, UsersCounted
<1>4. AtGuardNow = {}
  BY <1>2, <1>3, FS_EmptySet
<1> QED BY <1>4 DEF AtGuardNow

\* A cancelled work gives up its place for the one where it gives back what it
\* holds; the guard is among it.
LEMMA CancelledPlaces ==
    ASSUME Typed, NEW S \in SUBSET Active, Cancelled(S)
    PROVE  /\ \A w \in Works \ S : pc'[w] = pc[w] /\ row'[w] = row[w]
           /\ \A m \in Requests \ S : receipt'[m] = receipt[m]
           /\ pc' \in [Works -> Places]
           /\ AutoTask \in S => pc'[AutoTask] = "idle"
           /\ \A m \in Requests \cap S :
                 /\ pc'[m] = IF pc[m] \in {"find", "guard"} THEN "idle"
                             ELSE IF pc[m] \in Executing THEN "unrun" ELSE "unguard"
<1>1. \A w \in S : pc[w] \in AlivePlaces
  BY DEF Active, Alive
<1>2. \A p \in AlivePlaces : AfterCancel(p) = IF p \in {"find", "guard"} THEN "idle"
                                ELSE IF p \in Executing THEN "unrun" ELSE "unguard"
  BY DEF AlivePlaces, AtGuard, Executing, AfterCancel
<1>3. \A w \in Works : pc'[w] = IF w \notin S THEN pc[w]
                                ELSE IF w = AutoTask THEN "idle" ELSE AfterCancel(pc[w])
  BY DEF Cancelled
<1>4. \A w \in Works : pc'[w] \in Places
  BY <1>1, <1>2, <1>3 DEF Typed, Places, AlivePlaces, AtGuard
<1>5. pc' \in [Works -> Places]
  BY <1>4 DEF Cancelled
<1>6. \A w \in Works \ S : row'[w] = row[w]
  BY DEF Cancelled
<1>7. \A m \in Requests \ S : receipt'[m] = receipt[m]
  BY DEF Cancelled
<1>8. \A m \in Requests : m \in Works /\ m # AutoTask
  BY WorksSplit
<1> QED BY <1>1, <1>2, <1>3, <1>5, <1>6, <1>7, <1>8, WorksSplit

-----------------------------------------------------------------------------
(* A request is executed at most once.                                     *)

LEMMA RanHasReceiptKept ==
    ASSUME Typed, RanHasReceipt, Next
    PROVE  RanHasReceipt'
<1>1. ASSUME NEW w \in Works, NEW p, p \notin {"run", "insert", "attach"},
             pc' = [pc EXCEPT ![w] = p], UNCHANGED <<receipt, ran>>
      PROVE  RanHasReceipt'
  BY <1>1 DEF Typed, RanHasReceipt
<1>2. CASE UNCHANGED <<pc, receipt, ran>>
  BY <1>2 DEF RanHasReceipt
<1>3. ASSUME NEW m \in Requests, Submit(m) \/ Find(m) \/ BeginUse(m) \/ EndRun(m) \/ EndUse(m)
      PROVE  RanHasReceipt'
  BY <1>1, <1>3, WorksSplit DEF Submit, Find, BeginUse, EndRun, EndUse, WorkEnds
<1>4. ASSUME NEW m \in Requests, ReconcileRequests(m)
      PROVE  RanHasReceipt'
  BY <1>4, WorksSplit DEF ReconcileRequests, ReceiptsReconciled, OpenReceipt, Typed, RanHasReceipt
<1>5. ASSUME NEW m \in Requests, Reserve(m)
      PROVE  RanHasReceipt'
  BY <1>5, WorksSplit DEF Reserve, Typed, RanHasReceipt
<1>6. ASSUME NEW m \in Requests, BeginRun(m) \/ Insert(m)
      PROVE  RanHasReceipt'
  BY <1>6, WorksSplit DEF BeginRun, Insert, Typed, RanHasReceipt
<1>7. ASSUME NEW m \in Requests, Attach(m)
      PROVE  RanHasReceipt'
  BY <1>7, WorksSplit DEF Attach, Typed, RanHasReceipt
<1>8. ASSUME NEW m \in Requests, FinishReceipt(m)
      PROVE  RanHasReceipt'
  BY <1>8, WorksSplit DEF FinishReceipt, Typed, RanHasReceipt
<1>9. ASSUME NEW w \in Works, Work(w) \/ Record(w)
      PROVE  RanHasReceipt'
  BY <1>1, <1>9 DEF Work, Record, WorkEnds
<1>10. CASE LoopRuns \/ Insert(AutoTask)
  BY <1>10, WorksSplit DEF LoopRuns, Insert, Typed, RanHasReceipt
<1>11. CASE SchedReconcile
  BY <1>11 DEF SchedReconcile, ReceiptsReconciled, OpenReceipt, Typed, RanHasReceipt
<1>12. ASSUME NEW S \in SUBSET Active, Cancelled(S), UNCHANGED ran
       PROVE  RanHasReceipt'
  <2>1. \A m \in Requests : receipt[m] # "none" => receipt'[m] # "none"
    BY <1>12 DEF Cancelled, OpenReceipt
  <2>2. \A m \in Requests : pc'[m] \in {"run", "insert", "attach"} => pc'[m] = pc[m]
    BY <1>12, CancelledPlaces, WorksSplit
  <2> QED BY <1>12, <2>1, <2>2 DEF RanHasReceipt
<1>13. CASE SchedStartFails \/ SchedStopped
  BY <1>12, <1>13 DEF SchedStartFails, SchedStopped
<1>14. CASE Crash
  BY <1>14, WorksSplit DEF Crash, Typed, RanHasReceipt
<1>15. CASE SchedStart \/ SchedStop \/ DeferredGuardRelease
  BY <1>2, <1>15 DEF SchedStart, SchedStop, DeferredGuardRelease, workVars
<1>16. CASE ScanStep
  BY <1>2, <1>16 DEF ScanStep, ScannerStart, CreateScan, ScanEnds, ScannerStop, ScannerStopped,
                     ScanWaitTimesOut, workVars
<1>17. CASE CoordStep /\ ~Crash
  BY <1>2, <1>17 DEF CoordStep, Acquire, Shutdown, ReleaseOrDefer, Release, QuietSeen,
                     DeferredCheck, DeferredRelease, Boot, workVars
<1>18. ASSUME NEW w \in Works, OrphanInserts(w)
       PROVE  RanHasReceipt'
  BY <1>2, <1>18 DEF OrphanInserts
<1>19. CASE \E m \in Requests : RequestStep(m)
  BY <1>3, <1>4, <1>5, <1>6, <1>7, <1>8, <1>19 DEF RequestStep
<1>20. CASE \E w \in Works : WorkStep(w)
  BY <1>6, <1>9, <1>10, <1>18, <1>20 DEF WorkStep, Works
<1> QED BY <1>10, <1>11, <1>13, <1>14, <1>15, <1>16, <1>17, <1>19, <1>20
        DEF Next, SchedStep, CoordStep

-----------------------------------------------------------------------------
(* Rows and their owners.                                                  *)

LEMMA RowsKept ==
    ASSUME Typed, RowsAreOfThePast, RowHasOwner, Next
    PROVE  RowsAreOfThePast' /\ RowHasOwner'
<1>0. Now \in Nat
  BY DEF Now, Typed, Counts
<1>1. ASSUME Now' = Now,
             \A w \in Works :
                \/ row'[w] = row[w] /\ (pc[w] \in {"attach", "work", "record"}
                                          => pc'[w] \in {"attach", "work", "record"})
                                    /\ (w \in orphan => w \in orphan')
                \/ row'[w].st # "running" /\ row'[w].by <= Now
      PROVE  RowsAreOfThePast' /\ RowHasOwner'
  BY <1>1 DEF RowsAreOfThePast, RowHasOwner
<1>2. ASSUME NEW w \in Works, NEW p, pc[w] \notin {"attach", "work", "record"},
             pc' = [pc EXCEPT ![w] = p], UNCHANGED <<row, orphan>>, Now' = Now
      PROVE  RowsAreOfThePast' /\ RowHasOwner'
  BY <1>1, <1>2 DEF Typed
<1>3. CASE UNCHANGED <<pc, row, orphan>> /\ Now' = Now
  BY <1>1, <1>3
<1>4. ASSUME NEW m \in Requests,
             \/ Submit(m) \/ Find(m) \/ BeginUse(m) \/ Reserve(m) \/ BeginRun(m)
             \/ EndRun(m) \/ FinishReceipt(m) \/ EndUse(m)
      PROVE  RowsAreOfThePast' /\ RowHasOwner'
  <2>1. Now' = Now
    BY <1>4 DEF Now, Typed, Counts, Submit, Find, BeginUse, Reserve, BeginRun, EndRun,
                FinishReceipt, EndUse
  <2>2. /\ pc[m] \notin {"attach", "work", "record"} /\ UNCHANGED <<row, orphan>>
        /\ \E p : pc' = [pc EXCEPT ![m] = p]
    BY <1>4 DEF Submit, Find, BeginUse, Reserve, BeginRun, EndRun, FinishReceipt, EndUse, WorkEnds
  <2> QED BY <1>2, <2>1, <2>2, WorksSplit
\* A reconciliation leaves a row as it is or closes it.
<1>5. \A w \in Works : RowsReconciled[w] = row[w]
                       \/ (RowsReconciled[w].st = "cancelled" /\ RowsReconciled[w].by = row[w].by)
  BY DEF RowsReconciled, Typed, Rows
<1>6. ASSUME NEW m \in Requests, ReconcileRequests(m)
      PROVE  RowsAreOfThePast' /\ RowHasOwner'
  <2>1. Now' = Now /\ orphan' = orphan
    BY <1>6 DEF Now, ReconcileRequests
  <2>2. \A w \in Works : row'[w] = row[w] \/ row'[w] = RowsReconciled[w]
    BY <1>6 DEF ReconcileRequests
  <2>3. \A w \in Works : pc[w] \in {"attach", "work", "record"} => pc'[w] = pc[w]
    BY <1>6 DEF ReconcileRequests, Typed
  <2> QED BY <1>1, <1>5, <2>1, <2>2, <2>3 DEF RowsAreOfThePast
<1>7. ASSUME NEW w \in Works, Insert(w)
      PROVE  RowsAreOfThePast' /\ RowHasOwner'
  <2>1. Now' = Now /\ orphan' = orphan
    BY <1>7 DEF Now, Insert
  <2>2. /\ pc'[w] \in {"attach", "work"} /\ row'[w].by = Now
        /\ \A x \in Works : x # w => row'[x] = row[x] /\ pc'[x] = pc[x]
    BY <1>7 DEF Insert, Typed
  <2> QED BY <1>0, <2>1, <2>2 DEF RowsAreOfThePast, RowHasOwner
<1>8. ASSUME NEW w \in Works, Attach(w) \/ Work(w)
      PROVE  RowsAreOfThePast' /\ RowHasOwner'
  <2>1. Now' = Now /\ UNCHANGED <<orphan, row>>
    BY <1>8 DEF Now, Attach, Work
  <2>2. /\ pc'[w] \in {"work", "record"}
        /\ \A x \in Works : x # w => pc'[x] = pc[x]
    BY <1>8 DEF Attach, Work, Typed
  <2> QED BY <1>1, <2>1, <2>2
<1>9. ASSUME NEW w \in Works, Record(w)
      PROVE  RowsAreOfThePast' /\ RowHasOwner'
  <2>1. Now' = Now /\ UNCHANGED orphan
    BY <1>9 DEF Now, Record
  <2>2. /\ row'[w].st # "running" /\ row'[w].by = row[w].by
        /\ \A x \in Works : x # w => row'[x] = row[x]
    BY <1>9 DEF Record, Typed, Rows
  <2>3. \A x \in Works : x # w => pc'[x] = pc[x]
    BY <1>9 DEF Record, WorkEnds, Typed
  <2> QED BY <1>1, <2>1, <2>2, <2>3 DEF RowsAreOfThePast
<1>10. ASSUME NEW w \in Works, OrphanInserts(w)
       PROVE  RowsAreOfThePast' /\ RowHasOwner'
  <2>1. Now' = Now /\ UNCHANGED pc
    BY <1>10 DEF Now, OrphanInserts
  <2>2. /\ row'[w].st # "running" /\ row'[w].by = Now
        /\ \A x \in Works : x # w => row'[x] = row[x] /\ (x \in orphan => x \in orphan')
    BY <1>10 DEF OrphanInserts, Typed, Rows
  <2> QED BY <1>0, <1>1, <2>1, <2>2
<1>11. CASE LoopRuns
  <2>1. Now' = Now
    BY <1>11 DEF Now, LoopRuns, Typed, Counts
  <2> QED BY <1>2, <1>11, <2>1, WorksSplit DEF LoopRuns
<1>12. CASE SchedReconcile
  <2>1. Now' = Now /\ UNCHANGED <<orphan, pc>> /\ row' = RowsReconciled
    BY <1>12 DEF Now, SchedReconcile
  <2> QED BY <1>1, <1>5, <2>1 DEF RowsAreOfThePast
<1>13. ASSUME NEW S \in SUBSET Active, Cancelled(S), Now' = Now
       PROVE  RowsAreOfThePast' /\ RowHasOwner'
  <2>1. \A w \in Works : w \in orphan => w \in orphan'
    BY <1>13 DEF Cancelled
  <2>2. ASSUME NEW w \in Works, w \in S, pc[w] \in {"attach", "work", "record"}
        PROVE  row'[w].st # "running" /\ row'[w].by = row[w].by
    BY <1>13, <2>2 DEF Cancelled, Typed, Rows
  <2>3. ASSUME NEW w \in Works, w \notin S \/ pc[w] \notin {"attach", "work", "record"}
        PROVE  row'[w] = row[w] /\ (pc[w] \in {"attach", "work", "record"} => pc'[w] = pc[w])
    BY <1>13, <2>3 DEF Cancelled
  <2> QED BY <1>1, <1>13, <2>1, <2>2, <2>3 DEF RowsAreOfThePast
<1>14. CASE SchedStartFails \/ SchedStopped
  <2>1. Now' = Now
    BY <1>14 DEF Now, SchedStartFails, SchedStopped, Typed, Counts
  <2> QED BY <1>13, <1>14, <2>1 DEF SchedStartFails, SchedStopped
\* After a crash every row is of a process that is gone.
<1>15. CASE Crash
  <2>1. Now' = Now + 1 /\ row' = row
    BY <1>15 DEF Now, Crash, Typed, Counts
  <2>2. \A w \in Works : row[w].by \in Nat
    BY DEF Typed, Rows
  <2> QED BY <1>0, <2>1, <2>2 DEF RowsAreOfThePast, RowHasOwner
<1>16. CASE SchedStart \/ SchedStop \/ DeferredGuardRelease
  BY <1>3, <1>16 DEF SchedStart, SchedStop, DeferredGuardRelease, workVars, Now
<1>17. CASE ScanStep
  <2>1. Now' = Now
    BY <1>17 DEF ScanStep, ScannerStart, CreateScan, ScanEnds, ScannerStop, ScannerStopped,
                 ScanWaitTimesOut, Now, Typed, Counts
  <2> QED BY <1>3, <1>17, <2>1 DEF ScanStep, ScannerStart, CreateScan, ScanEnds, ScannerStop,
                                   ScannerStopped, ScanWaitTimesOut, workVars
<1>18. CASE CoordStep /\ ~Crash
  BY <1>3, <1>18 DEF CoordStep, Acquire, Shutdown, ReleaseOrDefer, Release, QuietSeen,
                     DeferredCheck, DeferredRelease, Boot, workVars, Now
<1>19. CASE \E m \in Requests : RequestStep(m)
  BY <1>4, <1>6, <1>8, <1>19, WorksSplit DEF RequestStep
<1>20. CASE \E w \in Works : WorkStep(w)
  BY <1>7, <1>8, <1>9, <1>10, <1>20 DEF WorkStep
<1> QED BY <1>11, <1>12, <1>14, <1>15, <1>16, <1>17, <1>18, <1>19, <1>20
        DEF Next, SchedStep, CoordStep

-----------------------------------------------------------------------------
(* The scheduler's guard and its users.                                    *)

GuardPart == UsersCounted /\ LoopGuarded /\ ReconcilesAlone /\ GuardCoversWork

\* Nobody begins or ends the use of the guard.
SameUsers ==
    \A m \in Requests : /\ pc'[m] \in AtGuard <=> pc[m] \in AtGuard
                        /\ pc'[m] \in Executing <=> pc[m] \in Executing

LEMMA SameUsersCounted ==
    ASSUME ServicesInv, SameUsers, UNCHANGED users
    PROVE  UsersCounted'
<1>1. AtGuardNow' = AtGuardNow /\ ExecutingNow' = ExecutingNow
  BY DEF SameUsers, AtGuardNow, ExecutingNow
<1> QED BY <1>1 DEF ServicesInv, UsersCounted

LEMMA GuardUntouched ==
    ASSUME ServicesInv, SameUsers, UNCHANGED <<users, held, guarding, runner>>,
           shutdown' \subseteq shutdown, AutoTask \in shutdown => AutoTask \in shutdown'
                                                             \/ pc'[AutoTask] = "idle",
           pc'[AutoTask] # "idle" => pc[AutoTask] # "idle" \/ runner,
           co' = "schedReconcile" => co = "schedReconcile"
    PROVE  GuardPart'
<1>1. UsersCounted'
  BY SameUsersCounted
<1>2. LoopGuarded' /\ ReconcilesAlone'
  BY DEF ServicesInv, LoopGuarded, ReconcilesAlone
<1>3. GuardCoversWork'
  BY <1>2 DEF ServicesInv, LoopGuarded, GuardCoversWork, SameUsers
<1> QED BY <1>1, <1>2, <1>3 DEF GuardPart

\* The counts of the places from which the guard is used.
LEMMA UsersFinite ==
    /\ IsFiniteSet(AtGuardNow) /\ Cardinality(AtGuardNow) \in Nat
    /\ IsFiniteSet(ExecutingNow) /\ Cardinality(ExecutingNow) \in Nat
<1>1. AtGuardNow \in SUBSET Requests /\ ExecutingNow \in SUBSET Requests
  BY DEF AtGuardNow, ExecutingNow
<1> QED BY <1>1, RequestSetsFinite

LEMMA BeginUseKeeps ==
    ASSUME ServicesInv, NEW m \in Requests, BeginUse(m), held \/ lease
    PROVE  GuardPart'
<1>1. /\ pc[m] = "guard" /\ held' = TRUE /\ users' = users + 1
      /\ pc' = [pc EXCEPT ![m] = "reconcile"] /\ co # "schedReconcile"
      /\ UNCHANGED <<shutdown, guarding, runner, co>>
  BY DEF BeginUse, SchedLockFree, leaseVars
<1>2. \A w \in Works : pc'[w] = IF w = m THEN "reconcile" ELSE pc[w]
  BY <1>1 DEF ServicesInv, Typed
<1>3. /\ AtGuardNow' = AtGuardNow \cup {m} /\ m \notin AtGuardNow
      /\ ExecutingNow' = ExecutingNow
  BY <1>1, <1>2, WorksSplit DEF AtGuardNow, ExecutingNow, AtGuard, Executing
<1>4. Cardinality(AtGuardNow') = Cardinality(AtGuardNow) + 1
  BY <1>3, UsersFinite, FS_AddElement
<1>5. UsersCounted'
  BY <1>1, <1>3, <1>4, UsersFinite DEF ServicesInv, UsersCounted
<1>6. LoopGuarded' /\ ReconcilesAlone' /\ GuardCoversWork'
  BY <1>1, <1>2, WorksSplit DEF ServicesInv, LoopGuarded, ReconcilesAlone, GuardCoversWork
<1> QED BY <1>5, <1>6 DEF GuardPart

LEMMA BeginRunKeeps ==
    ASSUME ServicesInv, NEW m \in Requests, BeginRun(m)
    PROVE  GuardPart'
<1>1. /\ pc[m] = "run" /\ held' = TRUE /\ users' = users + 1
      /\ pc' = [pc EXCEPT ![m] = "insert"] /\ co # "schedReconcile"
      /\ UNCHANGED <<shutdown, guarding, runner, co>>
  BY DEF BeginRun, SchedLockFree, leaseVars
<1>2. \A w \in Works : pc'[w] = IF w = m THEN "insert" ELSE pc[w]
  BY <1>1 DEF ServicesInv, Typed
<1>3. /\ ExecutingNow' = ExecutingNow \cup {m} /\ m \notin ExecutingNow
      /\ AtGuardNow' = AtGuardNow
  BY <1>1, <1>2, WorksSplit DEF AtGuardNow, ExecutingNow, AtGuard, Executing
<1>4. Cardinality(ExecutingNow') = Cardinality(ExecutingNow) + 1
  BY <1>3, UsersFinite, FS_AddElement
<1>5. UsersCounted'
  BY <1>1, <1>3, <1>4, UsersFinite DEF ServicesInv, UsersCounted
<1>6. LoopGuarded' /\ ReconcilesAlone' /\ GuardCoversWork'
  BY <1>1, <1>2, WorksSplit DEF ServicesInv, LoopGuarded, ReconcilesAlone, GuardCoversWork
<1> QED BY <1>5, <1>6 DEF GuardPart

\* The guard survives the end of an execution: its request still uses it.
LEMMA EndRunKeeps ==
    ASSUME ServicesInv, NEW m \in Requests, EndRun(m)
    PROVE  GuardPart'
<1>1. /\ pc[m] = "unrun" /\ held' = GuardAfter(users - 1, shutdown, guarding)
      /\ users' = users - 1
      /\ pc' = [pc EXCEPT ![m] = "receipt"] /\ co # "schedReconcile"
      /\ UNCHANGED <<shutdown, guarding, runner, co>>
  BY DEF EndRun, SchedLockFree, leaseVars
<1>2. \A w \in Works : pc'[w] = IF w = m THEN "receipt" ELSE pc[w]
  BY <1>1 DEF ServicesInv, Typed
<1>3. /\ ExecutingNow' = ExecutingNow \ {m} /\ m \in ExecutingNow
      /\ AtGuardNow' = AtGuardNow /\ m \in AtGuardNow
  BY <1>1, <1>2, WorksSplit DEF AtGuardNow, ExecutingNow, AtGuard, Executing
<1>4. Cardinality(ExecutingNow') = Cardinality(ExecutingNow) - 1
  BY <1>3, UsersFinite, FS_RemoveElement
<1>5. UsersCounted'
  BY <1>1, <1>3, <1>4, UsersFinite DEF ServicesInv, UsersCounted
<1>6. Cardinality(AtGuardNow) # 0 /\ Cardinality(ExecutingNow) # 0
  BY <1>3, UsersFinite, FS_EmptySet
<1>7. users - 1 > 0
  BY <1>6, UsersFinite DEF ServicesInv, UsersCounted
<1>8. held
  BY <1>3 DEF ServicesInv, GuardCoversWork, AtGuardNow
<1>9. held'
  BY <1>1, <1>7, <1>8 DEF GuardAfter
<1>10. LoopGuarded' /\ ReconcilesAlone' /\ GuardCoversWork'
  BY <1>1, <1>2, <1>9, WorksSplit DEF ServicesInv, LoopGuarded, ReconcilesAlone, GuardCoversWork
<1> QED BY <1>5, <1>10 DEF GuardPart

\* The last user gives the guard back, unless the loop or a stop still has it.
LEMMA EndUseKeeps ==
    ASSUME ServicesInv, NEW m \in Requests, EndUse(m)
    PROVE  GuardPart'
<1>1. /\ pc[m] = "unguard" /\ held' = GuardAfter(users - 1, shutdown, guarding)
      /\ users' = users - 1 /\ shutdown' = shutdown \ {m}
      /\ pc' = [pc EXCEPT ![m] = "idle"] /\ co # "schedReconcile"
      /\ UNCHANGED <<guarding, runner, co>>
  BY DEF EndUse, WorkEnds, SchedLockFree, leaseVars
<1>2. \A w \in Works : pc'[w] = IF w = m THEN "idle" ELSE pc[w]
  BY <1>1 DEF ServicesInv, Typed
<1>3. /\ AtGuardNow' = AtGuardNow \ {m} /\ m \in AtGuardNow
      /\ ExecutingNow' = ExecutingNow
  BY <1>1, <1>2, WorksSplit DEF AtGuardNow, ExecutingNow, AtGuard, Executing
<1>4. Cardinality(AtGuardNow') = Cardinality(AtGuardNow) - 1 /\ IsFiniteSet(AtGuardNow')
  BY <1>3, UsersFinite, FS_RemoveElement
<1>5. UsersCounted'
  BY <1>1, <1>3, <1>4, UsersFinite DEF ServicesInv, UsersCounted
<1>6. held
  BY <1>3 DEF ServicesInv, GuardCoversWork, AtGuardNow
<1>7. ASSUME NEW x \in Requests, pc'[x] \in AtGuard
      PROVE  held'
  <2>1. AtGuardNow' # {}
    BY <1>7 DEF AtGuardNow
  <2>2. Cardinality(AtGuardNow') # 0
    BY <2>1, <1>4, FS_EmptySet
  <2>3. Cardinality(AtGuardNow) # 0
    BY <1>3, UsersFinite, FS_EmptySet
  <2>4. users - 1 > 0
    BY <1>4, <2>2, <2>3, UsersFinite DEF ServicesInv, UsersCounted
  <2> QED BY <1>1, <1>6, <2>4 DEF GuardAfter
<1>8. guarding \/ AutoTask \in shutdown => held'
  BY <1>1, <1>6 DEF GuardAfter
<1>9. LoopGuarded' /\ ReconcilesAlone' /\ GuardCoversWork'
  BY <1>1, <1>2, <1>7, <1>8, WorksSplit
     DEF ServicesInv, LoopGuarded, ReconcilesAlone, GuardCoversWork
<1> QED BY <1>5, <1>9 DEF GuardPart

\* What a start that fails, or a stop, cannot end is in the set it leaves
\* behind, and keeps the guard.
LEMMA StopKeeps ==
    ASSUME ServicesInv, NEW S \in SUBSET Active, Cancelled(S),
           shutdown' = {w \in Active : pc'[w] # "idle"},
           held' = GuardAfter(users, shutdown', FALSE),
           runner' = FALSE, guarding' = FALSE, users' = users, co' # "schedReconcile"
    PROVE  GuardPart'
<1>1. SameUsers
  <2>1. ASSUME NEW m \in Requests, m \notin S
        PROVE  pc'[m] = pc[m]
    BY <2>1, CancelledPlaces, WorksSplit DEF ServicesInv
  <2>2. ASSUME NEW m \in Requests, m \in S
        PROVE  /\ pc[m] \in AlivePlaces
               /\ pc'[m] = IF pc[m] \in {"find", "guard"} THEN "idle"
                           ELSE IF pc[m] \in Executing THEN "unrun" ELSE "unguard"
    BY <2>2, CancelledPlaces DEF ServicesInv, Active, Alive
  <2> QED BY <2>1, <2>2 DEF SameUsers, AlivePlaces, AtGuard, Executing
<1>2. \A w \in Works : pc'[w] # "idle" => w \in Active /\ pc[w] # "idle"
  <2>1. ASSUME NEW w \in Works, w \notin S, pc'[w] # "idle"
        PROVE  w \in Active /\ pc[w] # "idle"
    BY <2>1, CancelledPlaces DEF ServicesInv, Typed, Places, Active, Alive
  <2>2. ASSUME NEW w \in S
        PROVE  w \in Active /\ pc[w] # "idle"
    BY DEF Active, Alive, AlivePlaces, AtGuard
  <2> QED BY <2>1, <2>2
<1>3. \A w \in Works : pc'[w] # "idle" => w \in shutdown'
  BY <1>2
<1>4. LoopGuarded' /\ ReconcilesAlone'
  BY <1>3, WorksSplit DEF LoopGuarded, ReconcilesAlone
<1>5. GuardCoversWork'
  <2>1. ASSUME NEW m \in Requests, pc'[m] \in AtGuard
        PROVE  held'
    <3>1. pc'[m] # "idle" /\ m \in shutdown' /\ pc[m] \in AtGuard
      BY <1>1, <1>3, <2>1, WorksSplit DEF SameUsers, AtGuard
    <3> QED BY <2>1, <3>1 DEF GuardAfter, ServicesInv, GuardCoversWork
  <2>2. ASSUME pc'[AutoTask] # "idle"
        PROVE  held'
    <3>1. AutoTask \in shutdown' /\ pc[AutoTask] # "idle"
      BY <1>2, <1>3, <2>2, WorksSplit
    <3> QED BY <3>1 DEF GuardAfter, ServicesInv, GuardCoversWork
  <2> QED BY <2>1, <2>2 DEF GuardCoversWork
<1> QED BY <1>1, <1>4, <1>5, SameUsersCounted DEF GuardPart

LEMMA RequestKeepsGuard ==
    ASSUME ServicesInv, NEW m \in Requests, RequestStep(m)
    PROVE  GuardPart'
<1>1. ASSUME NEW p, pc' = [pc EXCEPT ![m] = p],
             p \in AtGuard <=> pc[m] \in AtGuard, p \in Executing <=> pc[m] \in Executing,
             UNCHANGED <<users, held, guarding, runner, co>>,
             shutdown' = shutdown \/ shutdown' = shutdown \ {m}
      PROVE  GuardPart'
  <2>1. SameUsers
    BY <1>1, WorksSplit DEF ServicesInv, Typed, SameUsers
  <2>2. pc'[AutoTask] = pc[AutoTask]
    BY <1>1, WorksSplit DEF ServicesInv, Typed
  <2>3. shutdown' \subseteq shutdown /\ (AutoTask \in shutdown => AutoTask \in shutdown')
    BY <1>1, WorksSplit
  <2> QED BY <1>1, <2>1, <2>2, <2>3, GuardUntouched
<1>2. CASE Submit(m)
  BY <1>1, <1>2 DEF Submit, guardVars, leaseVars, AtGuard, Executing
<1>3. CASE Find(m)
  BY <1>1, <1>3 DEF Find, WorkEnds, leaseVars, AtGuard, Executing
<1>4. CASE BeginUse(m)
  <2>1. CASE held \/ lease
    BY <1>4, <2>1, BeginUseKeeps
  <2>2. CASE ~(held \/ lease)
    BY <1>1, <1>4, <2>2 DEF BeginUse, WorkEnds, leaseVars, AtGuard, Executing
  <2> QED BY <2>1, <2>2
<1>5. CASE ReconcileRequests(m)
  BY <1>1, <1>5 DEF ReconcileRequests, guardVars, leaseVars, AtGuard, Executing
<1>6. CASE Reserve(m)
  BY <1>1, <1>6 DEF Reserve, guardVars, leaseVars, AtGuard, Executing
<1>7. CASE BeginRun(m)
  BY <1>7, BeginRunKeeps
<1>8. CASE Attach(m)
  BY <1>1, <1>8 DEF Attach, guardVars, leaseVars, AtGuard, Executing
<1>9. CASE EndRun(m)
  BY <1>9, EndRunKeeps
<1>10. CASE FinishReceipt(m)
  BY <1>1, <1>10 DEF FinishReceipt, guardVars, leaseVars, AtGuard, Executing
<1>11. CASE EndUse(m)
  BY <1>11, EndUseKeeps
<1> QED BY <1>2, <1>3, <1>4, <1>5, <1>6, <1>7, <1>8, <1>9, <1>10, <1>11 DEF RequestStep

LEMMA WorkKeepsGuard ==
    ASSUME ServicesInv, NEW w \in Works, WorkStep(w)
    PROVE  GuardPart'
<1>1. ASSUME NEW p, pc' = [pc EXCEPT ![w] = p], pc[w] # "idle",
             p \in AtGuard <=> pc[w] \in AtGuard, p \in Executing <=> pc[w] \in Executing,
             UNCHANGED <<users, held, guarding, runner, shutdown, co>>
      PROVE  GuardPart'
  <2>1. SameUsers
    BY <1>1, WorksSplit DEF ServicesInv, Typed, SameUsers
  <2>2. pc'[AutoTask] # "idle" => pc[AutoTask] # "idle"
    BY <1>1, WorksSplit DEF ServicesInv, Typed
  <2> QED BY <1>1, <2>1, <2>2, GuardUntouched
<1>2. CASE Insert(w) \/ Work(w)
  BY <1>1, <1>2 DEF Insert, Work, guardVars, leaseVars, AtGuard, Executing
<1>3. CASE Record(w) /\ w \in Requests
  BY <1>1, <1>3 DEF Record, leaseVars, AtGuard, Executing
<1>4. CASE Record(w) /\ w \notin Requests
  <2>1. w = AutoTask /\ pc' = [pc EXCEPT ![AutoTask] = "idle"]
    BY <1>4 DEF Record, WorkEnds, Works
  <2>2. SameUsers /\ pc'[AutoTask] = "idle"
    BY <2>1, WorksSplit DEF ServicesInv, Typed, SameUsers
  <2>3. UNCHANGED <<users, held, guarding, runner, co>> /\ shutdown' \subseteq shutdown
    BY <1>4 DEF Record, WorkEnds, leaseVars
  <2> QED BY <2>2, <2>3, GuardUntouched
<1>5. CASE OrphanInserts(w)
  <2>1. SameUsers /\ UNCHANGED <<users, held, guarding, runner, shutdown, co, pc>>
    BY <1>5 DEF OrphanInserts, guardVars, leaseVars, SameUsers
  <2> QED BY <2>1, GuardUntouched
<1> QED BY <1>2, <1>3, <1>4, <1>5 DEF WorkStep

LEMMA SchedKeepsGuard ==
    ASSUME ServicesInv, SchedStep
    PROVE  GuardPart'
<1>1. CASE LoopRuns
  <2>1. /\ runner /\ pc' = [pc EXCEPT ![AutoTask] = "insert"]
        /\ UNCHANGED <<users, held, guarding, runner, shutdown, co>>
    BY <1>1 DEF LoopRuns, guardVars, leaseVars
  <2>2. SameUsers
    BY <2>1, WorksSplit DEF ServicesInv, Typed, SameUsers
  <2> QED BY <2>1, <2>2, GuardUntouched
<1>2. CASE SchedStart
  <2>1. SameUsers /\ UNCHANGED <<users, runner, shutdown, pc>>
    BY <1>2 DEF SchedStart, workVars, SameUsers
  <2>2. CASE MayStart
    BY <1>2, <2>1, <2>2, SameUsersCounted
       DEF SchedStart, MayStart, ServicesInv, GuardPart, LoopGuarded, ReconcilesAlone, GuardCoversWork
  <2>3. CASE ~MayStart
    <3>1. UNCHANGED <<held, guarding>> /\ co' = "schedStop"
      BY <1>2, <2>3 DEF SchedStart
    <3> QED BY <2>1, <3>1, GuardUntouched
  <2> QED BY <2>2, <2>3
<1>3. CASE SchedReconcile
  <2>1. /\ SameUsers /\ UNCHANGED <<users, held, guarding, shutdown, pc>>
        /\ runner' = TRUE /\ co = "schedReconcile" /\ co' = "poll"
    BY <1>3 DEF SchedReconcile, SameUsers
  <2>2. guarding /\ held
    BY <2>1 DEF ServicesInv, ReconcilesAlone, LoopGuarded
  <2> QED BY <2>1, <2>2, SameUsersCounted
          DEF GuardPart, LoopGuarded, ReconcilesAlone, GuardCoversWork
<1>4. CASE SchedStartFails
  <2>1. runner' = FALSE
    BY <1>4 DEF SchedStartFails, ServicesInv, ReconcilesAlone, Typed
  <2> QED BY <1>4, <2>1, StopKeeps DEF SchedStartFails
<1>5. CASE SchedStop
  <2>1. SameUsers /\ UNCHANGED <<users, held, guarding, runner, shutdown, pc>> /\ co' # "schedReconcile"
    BY <1>5 DEF SchedStop, guardVars, workVars, SameUsers
  <2> QED BY <2>1, GuardUntouched
<1>6. CASE SchedStopped
  BY <1>6, StopKeeps DEF SchedStopped
<1>7. CASE DeferredGuardRelease
  <2>1. SameUsers /\ UNCHANGED <<users, guarding, runner, shutdown, pc, co>>
    BY <1>7 DEF DeferredGuardRelease, workVars, leaseVars, SameUsers
  <2>2. held' = held \/ held' = GuardAfter(users, shutdown, guarding)
    BY <1>7 DEF DeferredGuardRelease
  <2>3. (\E m \in Requests : pc[m] \in AtGuard) => users > 0
    BY NoUsers, UsersFinite DEF ServicesInv, UsersCounted
  <2>4. guarding \/ AutoTask \in shutdown \/ users > 0 => (held' <=> held)
    BY <2>2 DEF GuardAfter
  <2> QED BY <2>1, <2>3, <2>4, SameUsersCounted
          DEF ServicesInv, GuardPart, LoopGuarded, ReconcilesAlone, GuardCoversWork
<1> QED BY <1>1, <1>2, <1>3, <1>4, <1>5, <1>6, <1>7 DEF SchedStep

\* After a crash nothing of the process is left.
LEMMA CrashKeepsGuard ==
    ASSUME ServicesInv, Crash
    PROVE  GuardPart'
<1>1. \A w \in Works : pc'[w] = "idle"
  BY DEF Crash
<1>2. AtGuardNow' = {} /\ ExecutingNow' = {} /\ users' = 0
  BY <1>1, WorksSplit DEF AtGuardNow, ExecutingNow, AtGuard, Executing, Crash
<1>3. UsersCounted'
  BY <1>2, FS_EmptySet DEF UsersCounted
<1> QED BY <1>1, <1>3, WorksSplit
        DEF Crash, GuardPart, LoopGuarded, ReconcilesAlone, GuardCoversWork, AtGuard

\* The scanner and the coordinator leave the scheduler alone.
LEMMA OthersKeepGuard ==
    ASSUME ServicesInv, ScanStep \/ (CoordStep /\ ~Crash)
    PROVE  GuardPart'
<1>1. UNCHANGED <<users, held, guarding, runner, shutdown, pc>>
  BY DEF ScanStep, ScannerStart, CreateScan, ScanEnds, ScannerStop, ScannerStopped,
         ScanWaitTimesOut, CoordStep, Acquire, Shutdown, ReleaseOrDefer, Release, QuietSeen,
         DeferredCheck, DeferredRelease, Boot, guardVars, workVars
<1>2. co' = "schedReconcile" => co = "schedReconcile"
  BY DEF ScanStep, ScannerStart, CreateScan, ScanEnds, ScannerStop, ScannerStopped,
         ScanWaitTimesOut, CoordStep, Acquire, Shutdown, ReleaseOrDefer, Release, QuietSeen,
         DeferredCheck, DeferredRelease, Boot, leaseVars, AtRest
<1> QED BY <1>1, <1>2, GuardUntouched DEF SameUsers

LEMMA GuardKept ==
    ASSUME ServicesInv, Next
    PROVE  GuardPart'
BY RequestKeepsGuard, WorkKeepsGuard, SchedKeepsGuard, CrashKeepsGuard, OthersKeepGuard DEF Next

-----------------------------------------------------------------------------
(* Live work keeps its row and its receipt.                                *)

WorkPart == LiveWorkKept /\ OrphansOver

\* What a work that moves on must bring along; the others stay as they are.
LEMMA OneMoves ==
    ASSUME ServicesInv, NEW w \in Works,
           \A x \in Works : x # w => pc'[x] = pc[x] /\ row'[x] = row[x],
           \A x \in Requests : x # w => receipt'[x] = receipt[x],
           orphan' \subseteq orphan,
           pc'[w] \in {"attach", "work", "record"} => row'[w].st = "running",
           w \in Requests => /\ pc'[w] \in {"run", "insert", "attach", "work", "record"}
                                   => receipt'[w] \in {"accepted", "running"}
                             /\ receipt[w] # "none" => receipt'[w] # "none",
           pc'[w] \in {"run", "insert", "attach", "work", "record"} => w \notin orphan
    PROVE  WorkPart'
<1>1. LiveWorkKept'
  BY WorksSplit DEF ServicesInv, LiveWorkKept, OpenReceipt
<1>2. OrphansOver'
  BY DEF ServicesInv, OrphansOver
<1> QED BY <1>1, <1>2 DEF WorkPart

LEMMA NothingMoves ==
    ASSUME ServicesInv, UNCHANGED <<pc, row, receipt, orphan>>
    PROVE  WorkPart'
BY DEF ServicesInv, WorkPart, LiveWorkKept, OrphansOver, OpenReceipt

\* A reconciliation while no work is executed finds none to spoil.
LEMMA ReconciledKeeps ==
    ASSUME ServicesInv, UNCHANGED orphan,
           \A w \in Works : pc'[w] = pc[w]
                            \/ pc'[w] \notin {"run", "insert", "attach", "work", "record"},
           \A w \in Works : pc'[w] \in {"attach", "work", "record"} => row'[w] = row[w],
           \A m \in Requests : pc'[m] \in {"run", "insert", "attach", "work", "record"}
                                  => receipt'[m] = receipt[m],
           \A m \in Requests : receipt[m] # "none" => receipt'[m] # "none"
    PROVE  WorkPart'
BY WorksSplit DEF ServicesInv, WorkPart, LiveWorkKept, OrphansOver, OpenReceipt

LEMMA RequestKeepsWork ==
    ASSUME ServicesInv, NEW m \in Requests, RequestStep(m)
    PROVE  WorkPart'
<1>1. ASSUME NEW p, p \notin {"run", "insert", "attach", "work", "record"},
             pc' = [pc EXCEPT ![m] = p], UNCHANGED <<row, receipt, orphan>>
      PROVE  WorkPart'
  BY <1>1, OneMoves, WorksSplit DEF ServicesInv, Typed
<1>2. CASE Submit(m) \/ Find(m) \/ BeginUse(m) \/ EndRun(m) \/ EndUse(m)
  BY <1>1, <1>2 DEF Submit, Find, BeginUse, EndRun, EndUse, WorkEnds
<1>3. CASE ReconcileRequests(m)
  <2>1. pc[m] = "reconcile" /\ pc' = [pc EXCEPT ![m] = "reserve"] /\ UNCHANGED orphan
    BY <1>3 DEF ReconcileRequests
  <2>2. CASE users = 1 /\ ~guarding
    <3>1. \A x \in Requests : x # m => pc[x] \notin AtGuard
      BY <2>1, <2>2, OnlyUser DEF AtGuard
    <3>2. \A x \in Works : x \notin Requests => row'[x] = row[x]
      BY <1>3, <2>2 DEF ReconcileRequests
    <3>3. \A x \in Requests : receipt[x] # "none" => receipt'[x] # "none"
      BY <1>3, <2>2 DEF ReconcileRequests, ReceiptsReconciled, OpenReceipt
    <3>4. \A x \in Works : /\ pc'[x] = IF x = m THEN "reserve" ELSE pc[x]
                           /\ x \in Requests =>
                                pc'[x] \notin {"run", "insert", "attach", "work", "record"}
      BY <2>1, <3>1 DEF ServicesInv, Typed, AtGuard
    <3> QED BY <2>1, <3>2, <3>3, <3>4, ReconciledKeeps, WorksSplit
  <2>3. CASE ~(users = 1 /\ ~guarding)
    BY <1>1, <1>3, <2>1, <2>3 DEF ReconcileRequests
  <2> QED BY <2>2, <2>3
<1>4. CASE Reserve(m)
  <2>1. \A x \in Works : x # m => pc'[x] = pc[x] /\ row'[x] = row[x]
    BY <1>4 DEF Reserve, ServicesInv, Typed
  <2>2. \A x \in Requests : x # m => receipt'[x] = receipt[x]
    BY <1>4 DEF Reserve, ServicesInv, Typed
  <2>3. \/ receipt[m] = "none" /\ pc'[m] = "run" /\ receipt'[m] = "accepted"
        \/ receipt'[m] = receipt[m] /\ pc'[m] = "unguard"
    BY <1>4, WorksSplit DEF Reserve, ServicesInv, Typed
  <2>4. receipt[m] = "none" => m \notin orphan
    BY WorksSplit DEF ServicesInv, OrphansOver
  <2> QED BY <1>4, <2>1, <2>2, <2>3, <2>4, OneMoves, WorksSplit DEF Reserve
<1>5. CASE BeginRun(m)
  <2>1. pc[m] = "run" /\ pc' = [pc EXCEPT ![m] = "insert"] /\ UNCHANGED <<row, receipt, orphan>>
    BY <1>5 DEF BeginRun
  <2>2. receipt[m] \in {"accepted", "running"} /\ m \notin orphan
    BY <2>1, WorksSplit DEF ServicesInv, LiveWorkKept, OpenReceipt, OrphansOver
  <2> QED BY <2>1, <2>2, OneMoves, WorksSplit DEF ServicesInv, Typed
<1>6. CASE Attach(m)
  <2>1. pc[m] = "attach" /\ pc' = [pc EXCEPT ![m] = "work"] /\ UNCHANGED <<row, orphan>>
    BY <1>6 DEF Attach
  <2>2. /\ receipt[m] \in {"accepted", "running"} /\ m \notin orphan
        /\ row[m].st = "running"
    BY <2>1, WorksSplit DEF ServicesInv, LiveWorkKept, OpenReceipt, OrphansOver
  <2>3. /\ receipt'[m] \in {"accepted", "running"}
        /\ \A x \in Requests : x # m => receipt'[x] = receipt[x]
    BY <1>6, <2>2 DEF Attach, ServicesInv, Typed
  <2> QED BY <2>1, <2>2, <2>3, OneMoves, WorksSplit DEF ServicesInv, Typed
<1>7. CASE FinishReceipt(m)
  <2>1. pc' = [pc EXCEPT ![m] = "unguard"] /\ UNCHANGED <<row, orphan>>
    BY <1>7 DEF FinishReceipt
  <2>2. /\ receipt[m] # "none" => receipt'[m] # "none"
        /\ \A x \in Requests : x # m => receipt'[x] = receipt[x]
    BY <1>7 DEF FinishReceipt, ServicesInv, Typed
  <2> QED BY <2>1, <2>2, OneMoves, WorksSplit DEF ServicesInv, Typed
<1> QED BY <1>2, <1>3, <1>4, <1>5, <1>6, <1>7 DEF RequestStep

LEMMA WorkKeepsWork ==
    ASSUME ServicesInv, NEW w \in Works, WorkStep(w)
    PROVE  WorkPart'
<1>1. CASE Insert(w)
  <2>1. pc[w] = "insert" /\ UNCHANGED <<receipt, orphan>>
    BY <1>1 DEF Insert
  <2>2. /\ w \notin orphan
        /\ w \in Requests => receipt[w] \in {"accepted", "running"}
    BY <2>1 DEF ServicesInv, LiveWorkKept, OpenReceipt, OrphansOver
  <2>3. /\ row'[w].st = "running"
        /\ \A x \in Works : x # w => pc'[x] = pc[x] /\ row'[x] = row[x]
    BY <1>1 DEF Insert, ServicesInv, Typed
  <2> QED BY <2>1, <2>2, <2>3, OneMoves
<1>2. CASE Work(w)
  <2>1. /\ pc[w] = "work" /\ UNCHANGED <<row, receipt, orphan>>
        /\ pc' = [pc EXCEPT ![w] = "record"]
    BY <1>2 DEF Work
  <2>2. /\ w \notin orphan /\ row[w].st = "running"
        /\ w \in Requests => receipt[w] \in {"accepted", "running"}
    BY <2>1 DEF ServicesInv, LiveWorkKept, OpenReceipt, OrphansOver
  <2> QED BY <2>1, <2>2, OneMoves DEF ServicesInv, Typed
<1>3. CASE Record(w)
  <2>1. PICK p \in {"unrun", "idle"} : pc' = [pc EXCEPT ![w] = p]
    BY <1>3 DEF Record, WorkEnds
  <2>2. UNCHANGED <<receipt, orphan>> /\ \A x \in Works : x # w => row'[x] = row[x]
    BY <1>3 DEF Record, ServicesInv, Typed
  <2> QED BY <2>1, <2>2, OneMoves DEF ServicesInv, Typed
\* The late insert of a cancelled work touches the row of no live one.
<1>4. CASE OrphanInserts(w)
  <2>1. w \in orphan /\ orphan' = orphan \ {w} /\ UNCHANGED <<pc, receipt>>
    BY <1>4 DEF OrphanInserts
  <2>2. pc[w] \notin {"run", "insert", "attach", "work", "record"}
    BY <2>1 DEF ServicesInv, OrphansOver
  <2>3. \A x \in Works : x # w => row'[x] = row[x]
    BY <1>4 DEF OrphanInserts, ServicesInv, Typed
  <2> QED BY <2>1, <2>2, <2>3, OneMoves
<1> QED BY <1>1, <1>2, <1>3, <1>4 DEF WorkStep

LEMMA CancelledKeepsWork ==
    ASSUME ServicesInv, NEW S \in SUBSET Active, Cancelled(S)
    PROVE  WorkPart'
<1>1. \A w \in Works \ S : pc'[w] = pc[w] /\ row'[w] = row[w]
  BY CancelledPlaces DEF ServicesInv
<1>2. \A m \in Requests \ S : receipt'[m] = receipt[m]
  BY CancelledPlaces DEF ServicesInv
<1>3. \A w \in Works : w \in S => pc'[w] \in {"idle", "unrun", "unguard"}
  BY CancelledPlaces DEF ServicesInv, Works
<1>4. \A m \in Requests : receipt[m] # "none" => receipt'[m] # "none"
  BY DEF Cancelled, OpenReceipt
<1>5. LiveWorkKept'
  <2>1. ASSUME NEW w \in Works, pc'[w] \in {"attach", "work", "record"}
        PROVE  row'[w].st = "running"
    BY <1>1, <1>3, <2>1 DEF ServicesInv, LiveWorkKept
  <2>2. ASSUME NEW m \in Requests, pc'[m] \in {"run", "insert", "attach", "work", "record"}
        PROVE  OpenReceipt(m)'
    BY <1>1, <1>2, <1>3, <2>2, WorksSplit DEF ServicesInv, LiveWorkKept, OpenReceipt
  <2> QED BY <2>1, <2>2 DEF LiveWorkKept
<1>6. OrphansOver'
  <2> SUFFICES ASSUME NEW w \in Works, w \in orphan'
               PROVE  /\ pc'[w] \notin {"run", "insert", "attach", "work", "record"}
                      /\ w \in Requests => receipt'[w] # "none"
    BY DEF OrphansOver
  <2>1. CASE w \in orphan
    BY <1>1, <1>3, <1>4, <2>1 DEF ServicesInv, OrphansOver
  <2>2. CASE w \notin orphan
    <3>1. w \in S /\ pc[w] = "insert"
      BY <2>2 DEF Cancelled
    <3>2. w \in Requests => receipt[w] # "none"
      BY <3>1 DEF ServicesInv, RanHasReceipt
    <3> QED BY <1>3, <1>4, <3>1, <3>2
  <2> QED BY <2>1, <2>2
<1> QED BY <1>5, <1>6 DEF WorkPart

LEMMA SchedKeepsWork ==
    ASSUME ServicesInv, SchedStep
    PROVE  WorkPart'
<1>1. CASE LoopRuns
  <2>1. pc' = [pc EXCEPT ![AutoTask] = "insert"] /\ UNCHANGED <<row, receipt, orphan>>
        /\ AutoTask \notin orphan
    BY <1>1 DEF LoopRuns
  <2> QED BY <2>1, OneMoves, WorksSplit DEF ServicesInv, Typed
<1>2. CASE SchedReconcile
  <2>1. UNCHANGED <<pc, orphan>> /\ receipt' = ReceiptsReconciled
    BY <1>2 DEF SchedReconcile
  <2>2. users = 0 /\ pc[AutoTask] = "idle"
    BY <1>2 DEF SchedReconcile, ServicesInv, ReconcilesAlone, LoopGuarded
  <2>3. \A w \in Works : pc[w] \notin {"run", "insert", "attach", "work", "record"}
    BY <2>2, NoUsers DEF AtGuard, Works
  <2>4. \A m \in Requests : receipt[m] # "none" => receipt'[m] # "none"
    BY <2>1 DEF ReceiptsReconciled, OpenReceipt
  <2> QED BY <2>1, <2>3, <2>4, ReconciledKeeps, WorksSplit
<1>3. CASE SchedStartFails \/ SchedStopped
  BY <1>3, CancelledKeepsWork DEF SchedStartFails, SchedStopped
<1>4. CASE SchedStart \/ SchedStop \/ DeferredGuardRelease
  BY <1>4, NothingMoves DEF SchedStart, SchedStop, DeferredGuardRelease, workVars
<1> QED BY <1>1, <1>2, <1>3, <1>4 DEF SchedStep

LEMMA WorkKept ==
    ASSUME ServicesInv, Next
    PROVE  WorkPart'
<1>1. CASE Crash
  <2>1. \A w \in Works : pc'[w] = "idle"
    BY <1>1 DEF Crash
  <2> QED BY <1>1, <2>1, WorksSplit DEF Crash, WorkPart, LiveWorkKept, OrphansOver
<1>2. CASE ScanStep \/ (CoordStep /\ ~Crash)
  BY <1>2, NothingMoves
     DEF ScanStep, ScannerStart, CreateScan, ScanEnds, ScannerStop, ScannerStopped,
         ScanWaitTimesOut, CoordStep, Acquire, Shutdown, ReleaseOrDefer, Release, QuietSeen,
         DeferredCheck, DeferredRelease, Boot, workVars
<1> QED BY <1>1, <1>2, RequestKeepsWork, WorkKeepsWork, SchedKeepsWork DEF Next

-----------------------------------------------------------------------------
(* Type correctness.                                                       *)

LEMMA GuardTyped ==
    ASSUME NEW n, NEW s, NEW g \in BOOLEAN, held \in BOOLEAN
    PROVE  GuardAfter(n, s, g) \in BOOLEAN
BY DEF GuardAfter

LEMMA ReconciledTyped ==
    ASSUME Typed
    PROVE  RowsReconciled \in [Works -> Rows] /\ ReceiptsReconciled \in [Requests -> Receipts]
BY DEF Typed, RowsReconciled, ReceiptsReconciled, Rows, Receipts

LEMMA CancelledTyped ==
    ASSUME Typed, NEW S \in SUBSET Active, Cancelled(S)
    PROVE  /\ pc' \in [Works -> Places]
           /\ row' \in [Works -> Rows]
           /\ receipt' \in [Requests -> Receipts]
<1>1. pc' \in [Works -> Places]
  BY CancelledPlaces
<1>2. row' \in [Works -> Rows]
  BY DEF Cancelled, Typed, Rows
<1>3. receipt' \in [Requests -> Receipts]
  BY DEF Cancelled, Typed, Receipts
<1> QED BY <1>1, <1>2, <1>3

LEMMA RequestTyped ==
    ASSUME Typed, NEW m \in Requests, RequestStep(m)
    PROVE  Typed'
<1>0. \A p \in Places : [pc EXCEPT ![m] = p] \in [Works -> Places]
  BY WorksSplit DEF Typed
<1>1. {"idle", "find", "guard", "reconcile", "reserve", "run", "insert", "attach", "work",
       "record", "unrun", "receipt", "unguard"} = Places
  BY DEF Places, AlivePlaces, AtGuard
<1>2. CASE Submit(m)
  BY <1>0, <1>1, <1>2 DEF Typed, Submit, Counts, guardVars
<1>3. CASE Find(m) \/ BeginUse(m) \/ BeginRun(m)
  <2>1. pc' \in [Works -> Places]
    <3>1. CASE Find(m)
      BY <1>0, <1>1, <3>1 DEF Find, WorkEnds
    <3>2. CASE BeginUse(m)
      BY <1>0, <1>1, <3>2 DEF BeginUse, WorkEnds
    <3>3. CASE BeginRun(m)
      BY <1>0, <1>1, <3>3 DEF BeginRun
    <3> QED BY <1>3, <3>1, <3>2, <3>3
  <2>2. held' \in BOOLEAN
    BY <1>3 DEF Typed, Find, BeginUse, BeginRun
  <2>3. UNCHANGED <<guarding, runner, row, receipt, ran, count>>
    BY <1>3 DEF Find, BeginUse, BeginRun
  <2> QED BY <2>1, <2>2, <2>3 DEF Typed
<1>4. CASE ReconcileRequests(m)
  <2>1. row' \in [Works -> Rows] /\ receipt' \in [Requests -> Receipts]
    BY <1>4, ReconciledTyped DEF Typed, ReconcileRequests
  <2> QED BY <1>0, <1>1, <1>4, <2>1 DEF Typed, ReconcileRequests, guardVars
<1>5. CASE Reserve(m)
  BY <1>0, <1>1, <1>5 DEF Typed, Reserve, Receipts, guardVars
<1>6. CASE Attach(m)
  BY <1>0, <1>1, <1>6 DEF Typed, Attach, Receipts, guardVars
<1>7. CASE FinishReceipt(m)
  BY <1>0, <1>1, <1>7 DEF Typed, FinishReceipt, Receipts, guardVars
<1>8. CASE EndRun(m) \/ EndUse(m)
  <2>1. held' \in BOOLEAN
    BY <1>8 DEF Typed, EndRun, EndUse, GuardAfter
  <2> QED BY <1>0, <1>1, <1>8, <2>1 DEF Typed, EndRun, EndUse, WorkEnds
<1> QED BY <1>2, <1>3, <1>4, <1>5, <1>6, <1>7, <1>8 DEF RequestStep

LEMMA WorkTyped ==
    ASSUME Typed, NEW w \in Works, WorkStep(w)
    PROVE  Typed'
<1>0. \A p \in Places : [pc EXCEPT ![w] = p] \in [Works -> Places]
  BY DEF Typed
<1>1. {"attach", "work", "record", "unrun", "idle"} \subseteq Places
  BY DEF Places, AlivePlaces, AtGuard
<1>2. Now \in Nat
  BY DEF Now, Typed, Counts
<1>3. CASE Insert(w)
  <2>1. row' \in [Works -> Rows]
    BY <1>2, <1>3 DEF Typed, Insert, Rows
  <2> QED BY <1>0, <1>1, <1>3, <2>1 DEF Typed, Insert, guardVars
<1>4. CASE Work(w)
  BY <1>0, <1>1, <1>4 DEF Typed, Work, guardVars
<1>5. CASE Record(w)
  <2>1. row' \in [Works -> Rows]
    BY <1>5 DEF Typed, Record, Rows
  <2>2. pc' \in [Works -> Places]
    BY <1>0, <1>1, <1>5 DEF Record, WorkEnds
  <2> QED BY <1>5, <2>1, <2>2 DEF Typed, Record
<1>6. CASE OrphanInserts(w)
  <2>1. row' \in [Works -> Rows]
    BY <1>2, <1>6 DEF Typed, OrphanInserts, Rows
  <2> QED BY <1>6, <2>1 DEF Typed, OrphanInserts, guardVars
<1> QED BY <1>3, <1>4, <1>5, <1>6 DEF WorkStep

LEMMA TypedKept ==
    ASSUME Typed, Next
    PROVE  Typed'
<1>1. CASE LoopRuns
  <2>1. pc' \in [Works -> Places]
    BY <1>1, WorksSplit DEF LoopRuns, Typed, Places, AlivePlaces, AtGuard
  <2>2. count' \in Counts
    BY <1>1 DEF LoopRuns, Typed, Counts
  <2> QED BY <1>1, <2>1, <2>2 DEF LoopRuns, Typed, guardVars
<1>2. CASE SchedStart \/ SchedStop
  BY <1>2 DEF SchedStart, SchedStop, Typed, workVars, guardVars
<1>3. CASE SchedReconcile
  BY <1>3, ReconciledTyped DEF SchedReconcile, Typed
<1>4. CASE SchedStartFails
  <2>1. /\ pc' \in [Works -> Places] /\ row' \in [Works -> Rows]
        /\ receipt' \in [Requests -> Receipts]
    BY <1>4, CancelledTyped DEF SchedStartFails
  <2>2. held' \in BOOLEAN /\ guarding' = FALSE
    BY <1>4 DEF SchedStartFails, GuardAfter, Typed
  <2>3. count' \in Counts
    BY <1>4 DEF SchedStartFails, Typed, Counts
  <2> QED BY <1>4, <2>1, <2>2, <2>3 DEF SchedStartFails, Typed
<1>5. CASE SchedStopped
  <2>1. /\ pc' \in [Works -> Places] /\ row' \in [Works -> Rows]
        /\ receipt' \in [Requests -> Receipts]
    BY <1>5, CancelledTyped DEF SchedStopped
  <2>2. held' \in BOOLEAN /\ guarding' = FALSE /\ runner' = FALSE
    BY <1>5 DEF SchedStopped, GuardAfter, Typed
  <2> QED BY <1>5, <2>1, <2>2 DEF SchedStopped, Typed
<1>6. CASE DeferredGuardRelease
  <2>1. held' \in BOOLEAN
    BY <1>6 DEF DeferredGuardRelease, GuardAfter, Typed
  <2> QED BY <1>6, <2>1 DEF DeferredGuardRelease, Typed, workVars
<1>7. CASE ScanStep
  <2>1. UNCHANGED <<guardVars, workVars>>
    BY <1>7 DEF ScanStep, ScannerStart, CreateScan, ScanEnds, ScannerStop, ScannerStopped,
                ScanWaitTimesOut, guardVars, workVars
  <2>2. count' \in Counts
    <3>1. CASE CreateScan
      BY <3>1 DEF CreateScan, Typed, Counts
    <3>2. CASE UNCHANGED count
      BY <3>2 DEF Typed
    <3> QED BY <1>7, <3>1, <3>2 DEF ScanStep, ScannerStart, ScanEnds, ScannerStop,
                                    ScannerStopped, ScanWaitTimesOut
  <2> QED BY <2>1, <2>2 DEF Typed, guardVars, workVars
<1>8. CASE CoordStep /\ ~Crash
  <2>1. UNCHANGED <<guardVars, workVars, count>>
    BY <1>8 DEF CoordStep, Acquire, Shutdown, ReleaseOrDefer, Release, QuietSeen,
                DeferredCheck, DeferredRelease, Boot
  <2> QED BY <2>1 DEF Typed, guardVars, workVars
<1>9. CASE Crash
  <2>1. count' \in Counts /\ pc' \in [Works -> Places]
    BY <1>9 DEF Crash, Typed, Counts, Places
  <2> QED BY <1>9, <2>1 DEF Crash, Typed
<1> QED BY <1>1, <1>2, <1>3, <1>4, <1>5, <1>6, <1>7, <1>8, <1>9, RequestTyped, WorkTyped
        DEF Next, SchedStep, CoordStep

-----------------------------------------------------------------------------
(* The invariant.                                                          *)

LEMMA InitHasServicesInv ==
    ASSUME Init
    PROVE  ServicesInv
<1>1. Typed
  BY DEF Init, Typed, Places, Rows, Receipts, Counts
<1>2. AtGuardNow = {} /\ ExecutingNow = {}
  BY WorksSplit DEF Init, AtGuardNow, ExecutingNow, AtGuard, Executing
<1>3. UsersCounted
  BY <1>2, FS_EmptySet DEF Init, UsersCounted
<1>4. \A w \in Works : pc[w] = "idle" /\ row[w].st = "none" /\ row[w].by = 0
  BY DEF Init
<1>5. Now = 0
  BY DEF Init, Now
<1> QED BY <1>1, <1>3, <1>4, <1>5, WorksSplit
        DEF Init, ServicesInv, RanHasReceipt, RowsAreOfThePast, RowHasOwner, LoopGuarded,
            ReconcilesAlone, OrphansOver, GuardCoversWork, LiveWorkKept, AtGuard

LEMMA ServicesInvInductive ==
    ASSUME ServicesInv, [Next]_vars
    PROVE  ServicesInv'
<1>1. CASE Next
  <2>1. Typed' /\ RanHasReceipt' /\ RowsAreOfThePast' /\ RowHasOwner'
    BY <1>1, TypedKept, RanHasReceiptKept, RowsKept DEF ServicesInv
  <2>2. GuardPart' /\ WorkPart'
    BY <1>1, GuardKept, WorkKept
  <2> QED BY <2>1, <2>2 DEF ServicesInv, GuardPart, WorkPart
<1>2. CASE UNCHANGED vars
  <2>1. GuardPart'
    BY <1>2, GuardUntouched DEF vars, leaseVars, guardVars, workVars, SameUsers
  <2>2. WorkPart'
    BY <1>2, NothingMoves DEF vars, workVars
  <2>3. Typed' /\ RanHasReceipt' /\ RowsAreOfThePast' /\ RowHasOwner'
    BY <1>2 DEF vars, guardVars, workVars, ServicesInv, Typed, RanHasReceipt, RowsAreOfThePast,
                RowHasOwner, Now
  <2> QED BY <2>1, <2>2, <2>3 DEF ServicesInv, GuardPart, WorkPart
<1> QED BY <1>1, <1>2

\* The users of the guard are counted and reconciliation happens alone, in
\* every reachable state (RuntimeServices).
THEOREM ServicesInvariant == Spec => []ServicesInv
<1> QED BY InitHasServicesInv, ServicesInvInductive, PTL DEF Spec

\* A manual request is executed at most once, across resubmissions, crashes and
\* restarts (_admit_manual_request).
THEOREM RequestsRunAtMostOnce == Spec => []RequestRunsOnce
<1>1. ServicesInv => RequestRunsOnce
  BY DEF ServicesInv, RanHasReceipt, RequestRunsOnce
<1> QED BY <1>1, ServicesInvariant, PTL

\* No reconciliation, by a start or by the first user of the guard, takes live
\* work for an orphan (reconcile_orphaned_task_runs, reconcile_task_requests).
THEOREM ReconciliationSparesLiveWork == Spec => []LiveWorkKept
<1>1. ServicesInv => LiveWorkKept
  BY DEF ServicesInv
<1> QED BY <1>1, ServicesInvariant, PTL

\* The guard outlives whichever of the loop, the manual runs and the stop ends
\* first (_release_instance_guard).
THEOREM GuardOutlivesWork == Spec => []GuardCoversWork
<1>1. ServicesInv => GuardCoversWork
  BY DEF ServicesInv
<1> QED BY <1>1, ServicesInvariant, PTL

\* A row in progress has an owner (start_task_run_cancel_safe).
THEOREM RowsAreOwned == Spec => []RowHasOwner
<1>1. ServicesInv => RowHasOwner
  BY DEF ServicesInv
<1> QED BY <1>1, ServicesInvariant, PTL
-----------------------------------------------------------------------------
(* The types of the remaining variables, and the bounds.                   *)

CoPlaces == {"poll", "off", "down", "scanStart", "schedStart", "schedReconcile", "schedStop",
             "schedWait", "scanStop", "scanWait", "release", "releasing"}
Releases == [pc : {"none", "wait", "lock", "releasing"}, sched : BOOLEAN, scan : BOOLEAN]
Scanners == [started : BOOLEAN, guard : BOOLEAN, stopping : BOOLEAN, closed : BOOLEAN,
             quiet : BOOLEAN]

FlagsTyped ==
    /\ lease \in BOOLEAN /\ final \in BOOLEAN /\ releasing \in BOOLEAN
    /\ co \in CoPlaces
    /\ rel \in Releases
    /\ scanner \in Scanners
    /\ scan \in {"none", "running", "old"}

Bounded == count \in [submits : 0..MaxSubmits, autos : 0..MaxAutos, scans : 0..MaxScans,
                      faults : 0..MaxFaults, crashes : 0..MaxCrashes]

\* A stop waits for works that are still alive, and a late insert is a work's.
ShutdownAlive == shutdown \subseteq Active /\ orphan \subseteq Works

LEMMA FlagsKept ==
    ASSUME FlagsTyped, Next
    PROVE  FlagsTyped'
<1>1. ASSUME NEW w \in Works, NEW n, WorkEnds(w, n)
      PROVE  releasing' \in BOOLEAN
  BY <1>1 DEF WorkEnds, FlagsTyped
<1>2. ASSUME NEW m \in Requests, RequestStep(m)
      PROVE  FlagsTyped'
  <2>1. releasing' \in BOOLEAN /\ UNCHANGED <<leaseVars, scanVars>>
    BY <1>1, <1>2, WorksSplit
       DEF RequestStep, Submit, Find, BeginUse, ReconcileRequests, Reserve, BeginRun, Attach,
           EndRun, FinishReceipt, EndUse, guardVars, FlagsTyped
  <2> QED BY <2>1 DEF FlagsTyped, leaseVars, scanVars
<1>3. ASSUME NEW w \in Works, WorkStep(w)
      PROVE  FlagsTyped'
  <2>1. releasing' \in BOOLEAN /\ UNCHANGED <<leaseVars, scanVars>>
    BY <1>1, <1>3 DEF WorkStep, Insert, Work, Record, OrphanInserts, guardVars, FlagsTyped
  <2> QED BY <2>1 DEF FlagsTyped, leaseVars, scanVars
<1>4. CASE SchedStep
  <2>1. co' \in CoPlaces
    BY <1>4 DEF SchedStep, LoopRuns, SchedStart, SchedReconcile, SchedStartFails, SchedStop,
                SchedStopped, DeferredGuardRelease, leaseVars, FlagsTyped, CoPlaces
  <2>2. releasing' \in BOOLEAN /\ UNCHANGED <<lease, final, rel, scanVars>>
    BY <1>4 DEF SchedStep, LoopRuns, SchedStart, SchedReconcile, SchedStartFails, SchedStop,
                SchedStopped, DeferredGuardRelease, leaseVars, guardVars, FlagsTyped
  <2> QED BY <2>1, <2>2 DEF FlagsTyped, scanVars
<1>5. \A x \in Scanners, b \in BOOLEAN : Marked(x, b) \in Scanners
  BY DEF Marked, Scanners
<1>6. CASE ScanStep
  <2>1. co' \in CoPlaces /\ scan' \in {"none", "running", "old"}
    BY <1>6 DEF ScanStep, ScannerStart, CreateScan, ScanEnds, ScannerStop, ScannerStopped,
                ScanWaitTimesOut, leaseVars, scanVars, FlagsTyped, CoPlaces
  <2>2. UNCHANGED <<lease, final, rel, releasing>>
    BY <1>6 DEF ScanStep, ScannerStart, CreateScan, ScanEnds, ScannerStop, ScannerStopped,
                ScanWaitTimesOut, leaseVars, guardVars
  <2>3. scanner' \in Scanners
    <3>1. CASE ScannerStart \/ CreateScan \/ ScanWaitTimesOut
      BY <3>1 DEF ScannerStart, CreateScan, ScanWaitTimesOut, scanVars, FlagsTyped, Scanners
    <3>2. CASE ScanEnds
      BY <1>5, <3>2 DEF ScanEnds, FlagsTyped
    <3>3. CASE ScannerStop
      BY <3>3 DEF ScannerStop, FlagsTyped, Scanners
    <3>4. CASE ScannerStopped
      <4>1. [scanner EXCEPT !.started = FALSE, !.guard = FALSE, !.stopping = FALSE] \in Scanners
        BY DEF FlagsTyped, Scanners
      <4>2. (scan = "none") \in BOOLEAN
        OBVIOUS
      <4> QED BY <1>5, <3>4, <4>1, <4>2 DEF ScannerStopped
    <3> QED BY <1>6, <3>1, <3>2, <3>3, <3>4 DEF ScanStep
  <2> QED BY <2>1, <2>2, <2>3 DEF FlagsTyped
<1>7. CASE CoordStep /\ ~Crash
  <2>1. rel' \in Releases
    <3>1. /\ [rel EXCEPT !.sched = TRUE] \in Releases /\ [rel EXCEPT !.scan = TRUE] \in Releases
          /\ [rel EXCEPT !.pc = "lock"] \in Releases
          /\ [rel EXCEPT !.pc = "releasing"] \in Releases
      BY DEF FlagsTyped, Releases
    <3>2. rel \in Releases /\ NoRelease \in Releases
          /\ [NoRelease EXCEPT !.pc = "wait"] \in Releases
      BY DEF NoRelease, FlagsTyped, Releases
    <3>3. CASE UNCHANGED rel
      BY <3>2, <3>3
    <3>4. CASE ReleaseOrDefer
      BY <3>2, <3>4 DEF ReleaseOrDefer
    <3>5. CASE QuietSeen
      BY <3>1, <3>5 DEF QuietSeen
    <3>6. CASE DeferredCheck \/ DeferredRelease
      BY <3>1, <3>2, <3>6 DEF DeferredCheck, DeferredRelease
    <3> QED BY <1>7, <3>3, <3>4, <3>5, <3>6
            DEF CoordStep, Acquire, Shutdown, Release, Boot
  <2>2. co' \in CoPlaces /\ lease' \in BOOLEAN /\ final' \in BOOLEAN
    BY <1>7 DEF CoordStep, Acquire, Shutdown, ReleaseOrDefer, Release, QuietSeen, DeferredCheck,
                DeferredRelease, Boot, AtRest, FlagsTyped, CoPlaces
  <2>3. UNCHANGED <<scanVars, releasing>>
    BY <1>7 DEF CoordStep, Acquire, Shutdown, ReleaseOrDefer, Release, QuietSeen, DeferredCheck,
                DeferredRelease, Boot, guardVars
  <2> QED BY <2>1, <2>2, <2>3 DEF FlagsTyped, scanVars
<1>8. CASE Crash
  BY <1>8 DEF Crash, NoRelease, FlagsTyped, CoPlaces, Releases, Scanners
<1> QED BY <1>2, <1>3, <1>4, <1>6, <1>7, <1>8 DEF Next, CoordStep

LEMMA BoundsKept ==
    ASSUME Bounded, Next
    PROVE  Bounded'
<1>1. \A n, max \in Nat : n < max => n + 1 \in 0..max
  OBVIOUS
<1>2. {MaxSubmits, MaxAutos, MaxScans, MaxFaults, MaxCrashes} \subseteq Nat
  BY RuntimeAssumption
<1>3. CASE UNCHANGED count
  BY <1>3 DEF Bounded
<1>4. ASSUME NEW m \in Requests, Submit(m)
      PROVE  Bounded'
  BY <1>1, <1>2, <1>4 DEF Submit, Bounded
<1>5. CASE LoopRuns
  BY <1>1, <1>2, <1>5 DEF LoopRuns, Bounded
<1>6. CASE SchedStartFails
  BY <1>1, <1>2, <1>6 DEF SchedStartFails, Bounded
<1>7. CASE CreateScan
  BY <1>1, <1>2, <1>7 DEF CreateScan, Bounded
<1>8. CASE Crash
  BY <1>1, <1>2, <1>8 DEF Crash, Bounded
<1>9. ASSUME NEW m \in Requests, RequestStep(m)
      PROVE  Bounded'
  BY <1>3, <1>4, <1>9
     DEF RequestStep, Find, BeginUse, ReconcileRequests, Reserve, BeginRun, Attach, EndRun,
         FinishReceipt, EndUse
<1>10. ASSUME NEW w \in Works, WorkStep(w)
       PROVE  Bounded'
  BY <1>3, <1>10 DEF WorkStep, Insert, Work, Record, OrphanInserts
<1>11. CASE SchedStep
  BY <1>3, <1>5, <1>6, <1>11
     DEF SchedStep, SchedStart, SchedReconcile, SchedStop, SchedStopped, DeferredGuardRelease
<1>12. CASE ScanStep
  BY <1>3, <1>7, <1>12
     DEF ScanStep, ScannerStart, ScanEnds, ScannerStop, ScannerStopped, ScanWaitTimesOut
<1>13. CASE CoordStep
  BY <1>3, <1>8, <1>13
     DEF CoordStep, Acquire, Shutdown, ReleaseOrDefer, Release, QuietSeen, DeferredCheck,
         DeferredRelease, Boot
<1> QED BY <1>9, <1>10, <1>11, <1>12, <1>13 DEF Next

LEMMA ShutdownAliveKept ==
    ASSUME Typed, ShutdownAlive, Next
    PROVE  ShutdownAlive'
<1>1. \A w \in Works : w \in Active <=> pc[w] \in AlivePlaces
  BY DEF Active, Alive
<1>2. \A w \in Works : w \in Active' <=> pc'[w] \in AlivePlaces
  BY DEF Active, Alive
<1>3. ASSUME NEW w \in Works, NEW p \in AlivePlaces, pc' = [pc EXCEPT ![w] = p],
             shutdown' = shutdown, orphan' \subseteq orphan
      PROVE  ShutdownAlive'
  BY <1>1, <1>2, <1>3 DEF ShutdownAlive, Typed, Active
<1>4. ASSUME NEW w \in Works, NEW n, WorkEnds(w, n), orphan' \subseteq orphan
      PROVE  ShutdownAlive'
  BY <1>1, <1>2, <1>4 DEF WorkEnds, ShutdownAlive, Typed, Active
<1>5. ASSUME NEW S \in SUBSET Active, Cancelled(S), shutdown' = {w \in Active : pc'[w] # "idle"}
      PROVE  ShutdownAlive'
  <2>1. pc' \in [Works -> Places]
    BY <1>5, CancelledPlaces
  <2>2. orphan' \subseteq Works
    BY <1>5 DEF Cancelled, ShutdownAlive, Active
  <2> QED BY <1>2, <1>5, <2>1, <2>2 DEF ShutdownAlive, Places, Active
<1>6. CASE UNCHANGED <<pc, shutdown>> /\ orphan' \subseteq orphan
  BY <1>6 DEF ShutdownAlive, Active, Alive
<1>7. {"find", "guard", "reconcile", "reserve", "run", "insert", "attach", "work", "record",
       "unrun", "receipt", "unguard"} = AlivePlaces
  BY DEF AlivePlaces, AtGuard
<1>8. ASSUME NEW m \in Requests, RequestStep(m)
      PROVE  ShutdownAlive'
  <2>1. orphan' \subseteq orphan
    BY <1>8 DEF RequestStep, Submit, Find, BeginUse, ReconcileRequests, Reserve, BeginRun,
                Attach, EndRun, FinishReceipt, EndUse
  <2>2. \/ \E p \in AlivePlaces : pc' = [pc EXCEPT ![m] = p] /\ shutdown' = shutdown
        \/ \E n : WorkEnds(m, n)
    BY <1>7, <1>8 DEF RequestStep, Submit, Find, BeginUse, ReconcileRequests, Reserve, BeginRun,
                      Attach, EndRun, FinishReceipt, EndUse, guardVars
  <2> QED BY <1>3, <1>4, <2>1, <2>2, WorksSplit
<1>9. ASSUME NEW w \in Works, WorkStep(w)
      PROVE  ShutdownAlive'
  <2>1. orphan' \subseteq orphan
    BY <1>9 DEF WorkStep, Insert, Work, Record, OrphanInserts
  <2>2. \/ \E p \in AlivePlaces : pc' = [pc EXCEPT ![w] = p] /\ shutdown' = shutdown
        \/ \E n : WorkEnds(w, n)
        \/ UNCHANGED <<pc, shutdown>>
    BY <1>7, <1>9 DEF WorkStep, Insert, Work, Record, OrphanInserts, guardVars
  <2> QED BY <1>3, <1>4, <1>6, <2>1, <2>2
<1>10. CASE LoopRuns
  BY <1>3, <1>7, <1>10, WorksSplit DEF LoopRuns, guardVars
<1>11. CASE SchedStartFails \/ SchedStopped
  BY <1>5, <1>11 DEF SchedStartFails, SchedStopped
<1>12. CASE SchedStart \/ SchedReconcile \/ SchedStop \/ DeferredGuardRelease
  BY <1>6, <1>12 DEF SchedStart, SchedReconcile, SchedStop, DeferredGuardRelease, guardVars,
                     workVars
<1>13. CASE ScanStep \/ (CoordStep /\ ~Crash)
  BY <1>6, <1>13
     DEF ScanStep, ScannerStart, CreateScan, ScanEnds, ScannerStop, ScannerStopped,
         ScanWaitTimesOut, CoordStep, Acquire, Shutdown, ReleaseOrDefer, Release, QuietSeen,
         DeferredCheck, DeferredRelease, Boot, guardVars, workVars
<1>14. CASE Crash
  BY <1>14 DEF Crash, ShutdownAlive
<1> QED BY <1>8, <1>9, <1>10, <1>11, <1>12, <1>13, <1>14 DEF Next, SchedStep

TypesInv == ServicesInv /\ FlagsTyped /\ Bounded /\ ShutdownAlive

\* The counted users are at most two for each request.
LEMMA TypesInvTypes ==
    ASSUME TypesInv
    PROVE  TypeOK
<1>1. users \in 0..(2 * Cardinality(Requests))
  <2>1. /\ AtGuardNow \in SUBSET Requests /\ ExecutingNow \in SUBSET Requests
    BY DEF AtGuardNow, ExecutingNow
  <2>2. /\ Cardinality(AtGuardNow) \in Nat /\ Cardinality(ExecutingNow) \in Nat
        /\ Cardinality(Requests) \in Nat
    BY <2>1, RequestSetsFinite
  <2>3. /\ Cardinality(AtGuardNow) <= Cardinality(Requests)
        /\ Cardinality(ExecutingNow) <= Cardinality(Requests)
    BY <2>1, FS_Subset, RuntimeAssumption
  <2>4. users = Cardinality(AtGuardNow) + Cardinality(ExecutingNow)
    BY DEF TypesInv, ServicesInv, UsersCounted
  <2> QED BY <2>2, <2>3, <2>4
<1>2. row \in [Works -> [st : {"none", "running", "ended", "cancelled"}, by : 0..MaxCrashes]]
  <2>1. Now \in 0..MaxCrashes
    BY DEF TypesInv, Bounded, Now
  <2>2. MaxCrashes \in Nat
    BY RuntimeAssumption
  <2>3. \A w \in Works : row[w].by \in 0..MaxCrashes
    BY <2>1, <2>2 DEF TypesInv, ServicesInv, Typed, Rows, RowsAreOfThePast
  <2> QED BY <2>3 DEF TypesInv, ServicesInv, Typed, Rows
<1> QED BY <1>1, <1>2
        DEF TypesInv, ServicesInv, Typed, Places, Receipts, FlagsTyped, CoPlaces, Releases,
            Scanners, Bounded, ShutdownAlive, TypeOK

\* Every variable of the runtime keeps its type: the guard has at most two users
\* for each request, and a stop waits only for works that are alive
\* (_shutdown_tasks).
THEOREM RuntimeTypeCorrect == Spec => []TypeOK
<1>1. Init => TypesInv
  <2> SUFFICES ASSUME Init PROVE TypesInv
    OBVIOUS
  <2>1. FlagsTyped
    BY DEF Init, FlagsTyped, CoPlaces, Releases, Scanners, NoRelease
  <2>2. Bounded
    BY RuntimeAssumption DEF Init, Bounded
  <2>3. ShutdownAlive
    BY DEF Init, ShutdownAlive
  <2> QED BY <2>1, <2>2, <2>3, InitHasServicesInv DEF TypesInv
<1>2. TypesInv /\ [Next]_vars => TypesInv'
  <2> SUFFICES ASSUME TypesInv, [Next]_vars PROVE TypesInv'
    OBVIOUS
  <2>1. ServicesInv'
    BY ServicesInvInductive DEF TypesInv
  <2>2. CASE Next
    BY <2>1, <2>2, FlagsKept, BoundsKept, ShutdownAliveKept DEF TypesInv, ServicesInv
  <2>3. CASE UNCHANGED vars
    BY <2>1, <2>3 DEF vars, leaseVars, scanVars, guardVars, workVars, TypesInv, FlagsTyped,
                      Bounded, ShutdownAlive, Active, Alive
  <2> QED BY <2>2, <2>3
<1>3. TypesInv => TypeOK
  BY TypesInvTypes
<1> QED BY <1>1, <1>2, <1>3, PTL DEF Spec
-----------------------------------------------------------------------------
(* The clients of the requests see a RequestLedger.                        *)

\* The receipt of a request is running from the start of its execution, and not
\* before; after the execution it is running or answered.
ReceiptStage ==
    \A m \in Requests :
        /\ pc[m] \in {"run", "insert", "attach"} => receipt[m] # "running"
        /\ pc[m] \in {"work", "record", "unrun", "receipt"} => receipt[m] \notin {"none", "accepted"}

SeenInv == ServicesInv /\ ReceiptStage

ExecutingSeen == {m \in Requests : pc[m] = "work"}

\* A reconciliation finds nobody executing.
LEMMA ReconcilesIdle ==
    ASSUME ServicesInv
    PROVE  /\ \A m \in Requests : ReconcileRequests(m) /\ users = 1 =>
                 \A x \in Requests : x # m => pc[x] \notin AtGuard
           /\ SchedReconcile => \A x \in Requests : pc[x] \notin AtGuard
<1>1. ASSUME NEW m \in Requests, ReconcileRequests(m), users = 1
      PROVE  \A x \in Requests : x # m => pc[x] \notin AtGuard
  <2>1. pc[m] \in AtGuard
    BY <1>1 DEF ReconcileRequests, AtGuard
  <2> QED BY <1>1, <2>1, OnlyUser
<1>2. ASSUME SchedReconcile
      PROVE  \A x \in Requests : pc[x] \notin AtGuard
  <2>1. users = 0
    BY <1>2 DEF SchedReconcile, ServicesInv, ReconcilesAlone
  <2> QED BY <2>1, NoUsers
<1> QED BY <1>1, <1>2

\* What a request does to its own place and receipt.
LEMMA RequestMoves ==
    ASSUME Typed, NEW m \in Requests, RequestStep(m), ~ReconcileRequests(m)
    PROVE  /\ \A x \in Requests : x # m => pc'[x] = pc[x] /\ receipt'[x] = receipt[x]
           /\ \/ /\ pc[m] \in {"idle", "find", "guard", "run", "unrun", "unguard"}
                 /\ pc'[m] \in {"idle", "find", "guard", "reconcile", "insert", "receipt"}
                 /\ pc'[m] = "insert" => pc[m] = "run"
                 /\ pc'[m] = "receipt" => pc[m] = "unrun"
                 /\ UNCHANGED <<receipt, ran>>
              \/ Reserve(m) /\ pc'[m] \in {"run", "unguard"}
                 /\ (pc'[m] = "run" => receipt'[m] = "accepted")
              \/ Attach(m) /\ pc'[m] = "work"
              \/ FinishReceipt(m) /\ pc'[m] = "unguard"
<1>1. CASE Submit(m)
  BY <1>1, WorksSplit DEF Submit, Typed
<1>2. CASE Find(m)
  BY <1>2, WorksSplit DEF Find, WorkEnds, Typed
<1>3. CASE BeginUse(m)
  BY <1>3, WorksSplit DEF BeginUse, WorkEnds, Typed
<1>4. CASE BeginRun(m) \/ EndRun(m)
  BY <1>4, WorksSplit DEF BeginRun, EndRun, Typed
<1>5. CASE EndUse(m)
  BY <1>5, WorksSplit DEF EndUse, WorkEnds, Typed
<1>6. CASE Reserve(m)
  BY <1>6, WorksSplit DEF Reserve, Typed
<1>7. CASE Attach(m)
  BY <1>7, WorksSplit DEF Attach, Typed
<1>8. CASE FinishReceipt(m)
  BY <1>8, WorksSplit DEF FinishReceipt, Typed
<1> QED BY <1>1, <1>2, <1>3, <1>4, <1>5, <1>6, <1>7, <1>8 DEF RequestStep

\* A step of the remaining actors leaves places and receipts alone, or ends all
\* works at once.
LEMMA OthersMoveNothing ==
    ASSUME Next, ~(\E m \in Requests : RequestStep(m)), ~(\E w \in Works : WorkStep(w)),
           ~LoopRuns, ~SchedReconcile, ~SchedStartFails, ~SchedStopped, ~Crash
    PROVE  UNCHANGED <<pc, receipt, ran>>
BY DEF Next, SchedStep, SchedStart, SchedStop, DeferredGuardRelease, ScanStep, ScannerStart,
       CreateScan, ScanEnds, ScannerStop, ScannerStopped, ScanWaitTimesOut, CoordStep, Acquire,
       Shutdown, ReleaseOrDefer, Release, QuietSeen, DeferredCheck, DeferredRelease, Boot, workVars

LEMMA WorkMoves ==
    ASSUME Typed, NEW w \in Works, WorkStep(w)
    PROVE  /\ \A x \in Works : x # w => pc'[x] = pc[x]
           /\ \/ pc[w] = "insert" /\ pc'[w] = IF w \in Requests THEN "attach" ELSE "work"
              \/ pc[w] = "work" /\ pc'[w] = "record"
              \/ pc[w] = "record" /\ pc'[w] = IF w \in Requests THEN "unrun" ELSE "idle"
              \/ pc'[w] = pc[w]
           /\ UNCHANGED <<receipt, ran>>
<1>1. CASE Insert(w)
  BY <1>1 DEF Insert, Typed
<1>2. CASE Work(w)
  BY <1>2 DEF Work, Typed
<1>3. CASE Record(w)
  BY <1>3 DEF Record, WorkEnds, Typed
<1>4. CASE OrphanInserts(w)
  BY <1>4 DEF OrphanInserts
<1> QED BY <1>1, <1>2, <1>3, <1>4 DEF WorkStep

\* The receipts a cancellation interrupts.
Interrupted(S) ==
    {m \in Requests : /\ m \in S
                      /\ pc[m] \in {"run", "insert", "attach", "work", "record", "unrun"}
                      /\ OpenReceipt(m)}

LEMMA CancelledReceipts ==
    ASSUME Typed, NEW S \in SUBSET Active, Cancelled(S)
    PROVE  receipt' = [m \in Requests |-> IF m \in Interrupted(S) THEN "interrupted" ELSE receipt[m]]
BY DEF Cancelled, Interrupted

LEMMA ReceiptStageKept ==
    ASSUME SeenInv, Next
    PROVE  ReceiptStage'
<1> USE DEF SeenInv
<1>0. Typed
  BY DEF ServicesInv
<1>1. CASE UNCHANGED <<pc, receipt>>
  BY <1>1 DEF ReceiptStage
<1>2. ASSUME NEW m \in Requests, RequestStep(m), ~ReconcileRequests(m)
      PROVE  ReceiptStage'
  <2>1. CASE Reserve(m)
    BY <1>0, <1>2, <2>1, RequestMoves DEF ReceiptStage, Reserve, Attach, FinishReceipt
  <2>2. CASE Attach(m)
    <3>1. receipt'[m] = IF receipt[m] = "accepted" THEN "running" ELSE receipt[m]
      BY <1>0, <2>2 DEF Attach, Typed
    <3>2. OpenReceipt(m)
      BY <2>2 DEF Attach, ServicesInv, LiveWorkKept
    <3> QED BY <1>0, <1>2, <2>2, <3>1, <3>2, RequestMoves DEF ReceiptStage, OpenReceipt
  <2>3. CASE FinishReceipt(m)
    BY <1>0, <1>2, <2>3, RequestMoves DEF ReceiptStage, FinishReceipt, Reserve, Attach
  <2>4. CASE ~Reserve(m) /\ ~Attach(m) /\ ~FinishReceipt(m)
    BY <1>0, <1>2, <2>4, RequestMoves DEF ReceiptStage
  <2> QED BY <2>1, <2>2, <2>3, <2>4
<1>3. ASSUME NEW m \in Requests, ReconcileRequests(m)
      PROVE  ReceiptStage'
  <2>1. /\ pc'[m] = "reserve" /\ \A x \in Requests : x # m => pc'[x] = pc[x]
    BY <1>0, <1>3, WorksSplit DEF ReconcileRequests, Typed
  <2>2. CASE receipt' = receipt
    BY <2>1, <2>2 DEF ReceiptStage
  <2>3. CASE receipt' # receipt
    BY <1>3, <2>1, <2>3, ReconcilesIdle DEF ReconcileRequests, ReceiptStage, AtGuard
  <2> QED BY <2>2, <2>3
<1>4. ASSUME NEW w \in Works, WorkStep(w)
      PROVE  ReceiptStage'
  BY <1>0, <1>4, WorkMoves, WorksSplit DEF ReceiptStage
<1>5. CASE LoopRuns
  BY <1>0, <1>5, WorksSplit DEF LoopRuns, Typed, ReceiptStage
<1>6. CASE SchedReconcile
  <2>1. pc' = pc /\ \A x \in Requests : pc[x] \notin AtGuard
    BY <1>6, ReconcilesIdle DEF SchedReconcile
  <2> QED BY <2>1 DEF ReceiptStage, AtGuard
<1>7. ASSUME NEW S \in SUBSET Active, Cancelled(S)
      PROVE  ReceiptStage'
  <2> SUFFICES ASSUME NEW m \in Requests
               PROVE  /\ pc'[m] \in {"run", "insert", "attach"} => receipt'[m] # "running"
                      /\ pc'[m] \in {"work", "record", "unrun", "receipt"}
                            => receipt'[m] \notin {"none", "accepted"}
    BY DEF ReceiptStage
  <2>1. receipt'[m] = IF m \in Interrupted(S) THEN "interrupted" ELSE receipt[m]
    BY <1>0, <1>7, CancelledReceipts
  <2>2. CASE m \notin S
    <3>1. pc'[m] = pc[m]
      BY <1>0, <1>7, <2>2, CancelledPlaces, WorksSplit
    <3> QED BY <2>1, <2>2, <3>1 DEF ReceiptStage, Interrupted
  <2>3. CASE m \in S
    <3>1. pc'[m] = IF pc[m] \in {"find", "guard"} THEN "idle"
                   ELSE IF pc[m] \in Executing THEN "unrun" ELSE "unguard"
      BY <1>0, <1>7, <2>3, CancelledPlaces
    <3>2. CASE pc[m] \in {"insert", "attach", "work", "record"}
      <4>1. OpenReceipt(m)
        BY <3>2 DEF ServicesInv, LiveWorkKept
      <4> QED BY <2>1, <2>3, <3>1, <3>2, <4>1 DEF Interrupted, Executing
    <3>3. CASE pc[m] = "unrun"
      BY <2>1, <3>1, <3>3 DEF Executing, ReceiptStage
    <3>4. CASE pc[m] \notin Executing
      BY <3>1, <3>4
    <3> QED BY <3>2, <3>3, <3>4 DEF Executing
  <2> QED BY <2>2, <2>3
<1>8. CASE Crash
  BY <1>8, WorksSplit DEF Crash, ReceiptStage
<1> QED BY <1>1, <1>2, <1>3, <1>4, <1>5, <1>6, <1>7, <1>8, OthersMoveNothing
        DEF SchedStartFails, SchedStopped

\* Every step of the runtime is a step of the ledger or invisible.
LEMMA SeenStep ==
    ASSUME SeenInv, Next
    PROVE  RequestsSeen!Next \/ UNCHANGED RequestsSeen!ledgerVars
<1> DEFINE Goal == RequestsSeen!Next \/ UNCHANGED RequestsSeen!ledgerVars
<1> USE DEF SeenInv
<1>0. Typed
  BY DEF ServicesInv
<1>1. ASSUME UNCHANGED <<receipt, ran>>, \A m \in Requests : pc'[m] = "work" <=> pc[m] = "work"
      PROVE  Goal
  BY <1>1 DEF RequestsSeen!ledgerVars
\* A set of open requests is interrupted; those of them that execute do so no longer.
<1>2. ASSUME NEW S \in SUBSET Requests, S \subseteq RequestsSeen!Open, UNCHANGED ran,
             receipt' = [m \in Requests |-> IF m \in S THEN "interrupted" ELSE receipt[m]],
             \A m \in Requests : pc'[m] = "work" <=> pc[m] = "work" /\ m \notin S
      PROVE  Goal
  <2>1. CASE S = {}
    <3>1. receipt' = receipt
      BY <1>0, <1>2, <2>1 DEF Typed
    <3> QED BY <1>1, <1>2, <2>1, <3>1
  <2>2. CASE S # {}
    <3>1. RequestsSeen!Interrupt(S)
      BY <1>2, <2>2 DEF RequestsSeen!Interrupt
    <3> QED BY <3>1 DEF RequestsSeen!Next
  <2> QED BY <2>1, <2>2
<1>3. ASSUME NEW m \in Requests, Reserve(m)
      PROVE  Goal
  <2>1. \A x \in Requests : pc'[x] = "work" <=> pc[x] = "work"
    BY <1>0, <1>3, WorksSplit DEF Reserve, Typed
  <2>2. CASE receipt[m] = "none"
    <3>1. RequestsSeen!Accept(m)
      BY <1>3, <2>1, <2>2 DEF Reserve, RequestsSeen!Accept
    <3> QED BY <3>1 DEF RequestsSeen!Next
  <2>3. CASE receipt[m] # "none"
    <3>1. receipt' = receipt
      BY <1>0, <1>3, <2>3 DEF Reserve, Typed
    <3> QED BY <1>1, <1>3, <2>1, <3>1 DEF Reserve
  <2> QED BY <2>2, <2>3
<1>4. ASSUME NEW m \in Requests, Attach(m)
      PROVE  Goal
  <2>1. receipt[m] = "accepted" /\ ran[m] = 0
    BY <1>4 DEF Attach, ServicesInv, RanHasReceipt, LiveWorkKept, OpenReceipt, ReceiptStage
  <2>2. {x \in Requests : pc'[x] = "work"} = ExecutingSeen \cup {m}
    BY <1>0, <1>4, WorksSplit DEF Attach, Typed, ExecutingSeen
  <2>3. receipt' = [receipt EXCEPT ![m] = "running"] /\ ran' = [ran EXCEPT ![m] = 1]
    BY <1>0, <1>4, <2>1 DEF Attach, Typed
  <2>4. RequestsSeen!Execute(m)
    BY <2>1, <2>2, <2>3 DEF RequestsSeen!Execute, ExecutingSeen
  <2> QED BY <2>4 DEF RequestsSeen!Next
<1>5. ASSUME NEW m \in Requests, FinishReceipt(m)
      PROVE  Goal
  <2>1. \A x \in Requests : pc'[x] = "work" <=> pc[x] = "work"
    BY <1>0, <1>5, WorksSplit DEF FinishReceipt, Typed
  <2>2. pc[m] # "work" /\ (OpenReceipt(m) => receipt[m] = "running")
    BY <1>5 DEF FinishReceipt, ReceiptStage, OpenReceipt
  <2>3. PICK st \in {"completed", "failed"} :
           receipt' = [receipt EXCEPT ![m] = IF OpenReceipt(m) THEN st ELSE @]
    BY <1>5 DEF FinishReceipt
  <2>4. CASE OpenReceipt(m)
    <3>1. RequestsSeen!Answer(m, st)
      BY <1>5, <2>1, <2>2, <2>3, <2>4 DEF FinishReceipt, RequestsSeen!Answer
    <3> QED BY <3>1 DEF RequestsSeen!Next
  <2>5. CASE ~OpenReceipt(m)
    <3>1. receipt' = receipt
      BY <1>0, <2>3, <2>5 DEF Typed
    <3> QED BY <1>1, <1>5, <2>1, <3>1 DEF FinishReceipt
  <2> QED BY <2>4, <2>5
<1>6. ASSUME NEW m \in Requests, RequestStep(m), ~ReconcileRequests(m)
      PROVE  Goal
  <2>1. CASE ~Reserve(m) /\ ~Attach(m) /\ ~FinishReceipt(m)
    <3>1. UNCHANGED <<receipt, ran>> /\ \A x \in Requests : pc'[x] = "work" <=> pc[x] = "work"
      BY <1>0, <1>6, <2>1, RequestMoves
    <3> QED BY <1>1, <3>1
  <2> QED BY <1>3, <1>4, <1>5, <2>1
\* A reconciliation interrupts every open request, and none of them executes.
<1>7. ASSUME receipt' = ReceiptsReconciled, UNCHANGED ran,
             \A m \in Requests : pc[m] # "work" /\ pc'[m] # "work"
      PROVE  Goal
  <2>1. receipt' = [m \in Requests |-> IF m \in RequestsSeen!Open THEN "interrupted" ELSE receipt[m]]
    BY <1>7 DEF ReceiptsReconciled, OpenReceipt, RequestsSeen!Open
  <2>2. RequestsSeen!Open \in SUBSET Requests
    BY DEF RequestsSeen!Open
  <2> QED BY <1>2, <1>7, <2>1, <2>2
<1>8. ASSUME NEW m \in Requests, ReconcileRequests(m)
      PROVE  Goal
  <2>1. /\ pc[m] = "reconcile" /\ pc'[m] = "reserve"
        /\ \A x \in Requests : x # m => pc'[x] = pc[x]
        /\ UNCHANGED ran
    BY <1>0, <1>8, WorksSplit DEF ReconcileRequests, Typed
  <2>2. CASE receipt' = receipt
    BY <1>1, <2>1, <2>2
  <2>3. CASE receipt' # receipt
    <3>1. receipt' = ReceiptsReconciled /\ users = 1
      BY <1>8, <2>3 DEF ReconcileRequests
    <3>2. \A x \in Requests : x # m => pc[x] # "work"
      BY <1>8, <3>1, ReconcilesIdle DEF AtGuard
    <3> QED BY <1>7, <2>1, <3>1, <3>2
  <2> QED BY <2>2, <2>3
<1>9. CASE SchedReconcile
  <2>1. \A x \in Requests : pc[x] # "work"
    BY <1>9, ReconcilesIdle DEF AtGuard
  <2> QED BY <1>7, <1>9, <2>1 DEF SchedReconcile
<1>10. ASSUME NEW w \in Works, WorkStep(w)
       PROVE  Goal
  <2>1. /\ \A x \in Works : x # w => pc'[x] = pc[x]
        /\ UNCHANGED <<receipt, ran>>
    BY <1>0, <1>10, WorkMoves
  <2>2. CASE w \in Requests /\ pc[w] = "work" /\ pc'[w] # "work"
    <3>1. {x \in Requests : pc'[x] = "work"} = ExecutingSeen \ {w}
      BY <2>1, <2>2, WorksSplit DEF ExecutingSeen
    <3>2. RequestsSeen!Return(w)
      BY <2>1, <2>2, <3>1 DEF RequestsSeen!Return, ExecutingSeen
    <3> QED BY <2>2, <3>2 DEF RequestsSeen!Next
  <2>3. CASE ~(w \in Requests /\ pc[w] = "work" /\ pc'[w] # "work")
    <3>1. w \in Requests => (pc'[w] = "work" <=> pc[w] = "work")
      BY <1>0, <1>10, <2>3, WorkMoves
    <3> QED BY <1>1, <2>1, <3>1, WorksSplit
  <2> QED BY <2>2, <2>3
<1>11. CASE LoopRuns
  BY <1>0, <1>1, <1>11, WorksSplit DEF LoopRuns, Typed
<1>12. ASSUME NEW S \in SUBSET Active, Cancelled(S), UNCHANGED ran
       PROVE  Goal
  <2>1. Interrupted(S) \subseteq RequestsSeen!Open /\ Interrupted(S) \in SUBSET Requests
    BY DEF Interrupted, OpenReceipt, RequestsSeen!Open
  <2>2. ASSUME NEW m \in Requests
        PROVE  pc'[m] = "work" <=> pc[m] = "work" /\ m \notin Interrupted(S)
    <3>1. CASE m \notin S
      BY <1>0, <1>12, <3>1, CancelledPlaces, WorksSplit DEF Interrupted
    <3>2. CASE m \in S
      <4>1. pc[m] = "work" => OpenReceipt(m)
        BY DEF ServicesInv, LiveWorkKept
      <4>2. pc'[m] # "work"
        BY <1>0, <1>12, <3>2, CancelledPlaces
      <4> QED BY <3>2, <4>1, <4>2 DEF Interrupted
    <3> QED BY <3>1, <3>2
  <2>3. receipt' = [m \in Requests |-> IF m \in Interrupted(S) THEN "interrupted" ELSE receipt[m]]
    BY <1>0, <1>12, CancelledReceipts
  <2> QED BY <1>2, <1>12, <2>1, <2>2, <2>3
<1>13. CASE SchedStartFails \/ SchedStopped
  BY <1>12, <1>13 DEF SchedStartFails, SchedStopped
<1>14. CASE Crash
  <2>1. RequestsSeen!Die
    BY <1>14, WorksSplit DEF Crash, RequestsSeen!Die
  <2> QED BY <2>1 DEF RequestsSeen!Next
<1>15. CASE UNCHANGED <<pc, receipt, ran>>
  BY <1>1, <1>15
<1> QED BY <1>6, <1>8, <1>9, <1>10, <1>11, <1>13, <1>14, <1>15, OthersMoveNothing

\* The receipt a client reads never goes back: it is accepted once, answered once
\* and by an execution that has returned, or interrupted for good
\* (task_requests.py).
THEOREM RuntimeImplementsRequestLedger == Spec => ImplementsRequestLedger
<1>1. Init => SeenInv /\ RequestsSeen!Init
  <2> SUFFICES ASSUME Init PROVE SeenInv /\ RequestsSeen!Init
    OBVIOUS
  <2>1. \A m \in Requests : pc[m] = "idle"
    BY WorksSplit DEF Init
  <2> QED BY <2>1, InitHasServicesInv DEF Init, SeenInv, ReceiptStage, RequestsSeen!Init
<1>2. SeenInv /\ [Next]_vars => SeenInv'
  <2> SUFFICES ASSUME SeenInv, [Next]_vars PROVE SeenInv'
    OBVIOUS
  <2>1. ServicesInv'
    BY ServicesInvInductive DEF SeenInv
  <2>2. ReceiptStage'
    BY ReceiptStageKept DEF SeenInv, ReceiptStage, vars, workVars
  <2> QED BY <2>1, <2>2 DEF SeenInv
<1>3. SeenInv /\ [Next]_vars => [RequestsSeen!Next]_(RequestsSeen!ledgerVars)
  BY SeenStep DEF vars, workVars, RequestsSeen!ledgerVars
<1> QED BY <1>1, <1>2, <1>3, PTL DEF Spec, ImplementsRequestLedger, RequestsSeen!Spec
=============================================================================
