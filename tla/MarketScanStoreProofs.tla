------------------------ MODULE MarketScanStoreProofs ------------------------
(***************************************************************************)
(* Proofs about MarketScanStore, for every set of runs and of shares:      *)
(* whatever calls are made of the store and in whatever order, its rows    *)
(* stay well formed and consistent with one another, history does not      *)
(* change, and readers see a ScanLedger.                                   *)
(*                                                                         *)
(* The argument is one inductive invariant, StoreInv.  Each of its parts   *)
(* is preserved by every step for a reason of its own and has a lemma of   *)
(* its own; the theorems put them together.                                *)
(***************************************************************************)
EXTENDS MarketScanStore, TLAPS

\* What the other parts need of a run that does not exist yet: no call has
\* linked a task row to it.
FreshRunsUnlinked == \A r \in Runs : status[r] = "absent" => taskRow[r] = "none"

StoreInv ==
    /\ TypeOK
    /\ SingleActiveRun
    /\ FreshRunsUnlinked
    /\ TaskRowFollowsRun
    /\ PublishedIsComplete
    /\ SealMatchesRows
    /\ CaptureQueuedExactly

-----------------------------------------------------------------------------
(* The steps of the store, with the data of a call reduced to its type.    *)

\* Seeding and saving rewrite the rows of a running scan and nothing else.
RowsWritten(r, rows) ==
    /\ status[r] = "running"
    /\ result' = [result EXCEPT ![r] = rows]
    /\ UNCHANGED <<rowVars, sealed, taskRow, outbox>>

RunStep(r) ==
    \/ \E k \in Kinds, stale \in BOOLEAN, src \in Runs \cup {NoRun},
          rows \in [Symbols -> RowState] : InsertQueued(r, k, stale, src, rows)
    \/ CreateAndAttachTaskRun(r)
    \/ StartRun(r)
    \/ \E stale \in BOOLEAN : RecordStockPoolSource(r, stale)
    \/ \E rows \in [Symbols -> RowState] : RowsWritten(r, rows)
    \/ RequestCancel(r)
    \/ \E st \in Terminal, auth \in BOOLEAN : FinishActive(r, st, auth)
    \/ FinishAgain(r)

\* Whatever way a run is created, a well-typed queued row is inserted.
LEMMA CreateInserts ==
    ASSUME TypeOK, Create
    PROVE  \E r \in Runs, k \in Kinds, stale \in BOOLEAN, src \in Runs \cup {NoRun},
              rows \in [Symbols -> RowState] : InsertQueued(r, k, stale, src, rows)
<1>1. ASSUME NEW r \in Runs, NEW k \in Kinds, CreateRun(r, k)
      PROVE  InsertQueued(r, k, FALSE, NoRun, NoRows)
  BY <1>1 DEF CreateRun
<1>2. NoRows \in [Symbols -> RowState]
  BY DEF NoRows, RowState
<1>3. ASSUME NEW r \in Runs, NEW src \in Runs, PrepareRetry(src, r)
      PROVE  /\ InsertQueued(r, kind[src], stalePool[src], src, RetryRows(src))
             /\ kind[src] \in Kinds /\ stalePool[src] \in BOOLEAN
             /\ RetryRows(src) \in [Symbols -> RowState]
  BY <1>3 DEF PrepareRetry, RetryRows, RowState, TypeOK
<1>4. ASSUME NEW r \in Runs, NEW src \in Runs, NEW leaders \in SUBSET Symbols,
             PrepareTop100Refresh(src, r, leaders)
      PROVE  /\ InsertQueued(r, "refresh", FALSE, src, LeaderRows(leaders))
             /\ "refresh" \in Kinds
             /\ LeaderRows(leaders) \in [Symbols -> RowState]
  BY <1>4 DEF PrepareTop100Refresh, LeaderRows, RowState, Kinds
<1>5. PICK r \in Runs :
          \/ \E k \in Kinds : CreateRun(r, k)
          \/ \E src \in Runs : PrepareRetry(src, r)
          \/ \E src \in Runs, leaders \in SUBSET Symbols :
                PrepareTop100Refresh(src, r, leaders)
  BY DEF Create
<1>6. CASE \E k \in Kinds : CreateRun(r, k)
  BY <1>1, <1>2, <1>6
<1>7. CASE \E src \in Runs : PrepareRetry(src, r)
  BY <1>3, <1>7
<1>8. CASE \E src \in Runs, leaders \in SUBSET Symbols : PrepareTop100Refresh(src, r, leaders)
  BY <1>4, <1>8
<1> QED BY <1>5, <1>6, <1>7, <1>8

\* A step of the store is a call about one run, one of the two reconciliations or a stutter.
LEMMA StepCases ==
    ASSUME TypeOK, [Next]_storeVars
    PROVE  \/ \E r \in Runs : RunStep(r)
           \/ ReconcileIncompleteRuns
           \/ ReconcileOrphanedTaskRuns
           \/ UNCHANGED storeVars
<1>1. CASE Create
  BY <1>1, CreateInserts DEF RunStep
<1>2. ASSUME NEW r \in Runs, Progress(r)
      PROVE  RunStep(r)
  <2>1. ASSUME SeedResults(r)
        PROVE  \E rows \in [Symbols -> RowState] : RowsWritten(r, rows)
    <3> DEFINE rows == [s \in Symbols |-> IF result[r][s] = "none" THEN "pending"
                                          ELSE result[r][s]]
    <3>1. rows \in [Symbols -> RowState]
      BY DEF TypeOK, RowState
    <3>2. RowsWritten(r, rows)
      BY <2>1 DEF SeedResults, RowsWritten
    <3> QED BY <3>1, <3>2
  <2>2. ASSUME NEW batch \in SUBSET Symbols, NEW outcome \in [batch -> Outcome],
               SaveResultBatch(r, batch, outcome)
        PROVE  \E rows \in [Symbols -> RowState] : RowsWritten(r, rows)
    <3> DEFINE rows == [s \in Symbols |-> IF s \in batch THEN outcome[s]
                                          ELSE result[r][s]]
    <3>1. rows \in [Symbols -> RowState]
      BY DEF TypeOK, RowState
    <3>2. RowsWritten(r, rows)
      BY <2>2 DEF SaveResultBatch, RowsWritten
    <3> QED BY <3>1, <3>2
  <2> QED BY <1>2, <2>1, <2>2 DEF Progress, RunStep
<1>3. ASSUME NEW r \in Runs, Finish(r)
      PROVE  RunStep(r)
  BY <1>3 DEF Finish, FinishRun, RunStep
<1> QED BY <1>1, <1>2, <1>3 DEF Next

-----------------------------------------------------------------------------
(* Type correctness.                                                       *)

\* A seal and a task row written by a terminal call are of their types.
LEMMA FinishTypes ==
    ASSUME TypeOK, NEW r \in Runs, NEW st \in Terminal
    PROVE  /\ SealFor(r, st) \in [Symbols -> RowState]
           /\ FinishedTask(r, st) \in {"none", "success", "degraded", "failed", "cancelled"}
<1>1. SealFor(r, st) \in [Symbols -> RowState]
  BY DEF SealFor, Unsealed, NoRows, RowState, TypeOK
<1>2. FinishedTask(r, st) \in {"none", "success", "degraded", "failed", "cancelled"}
  BY DEF FinishedTask, TaskStatusForScan, Terminal, Published
<1> QED BY <1>1, <1>2

LEMMA TypeInit == Init => TypeOK
  BY DEF Init, TypeOK, Kinds, NoRows, Unsealed, RowState

LEMMA TypeStep ==
    ASSUME TypeOK, [Next]_storeVars
    PROVE  TypeOK'
<1>1. ASSUME NEW r \in Runs, RunStep(r)
      PROVE  TypeOK'
  <2> USE DEF TypeOK
  <2>1. ASSUME NEW k \in Kinds, NEW stale \in BOOLEAN, NEW src \in Runs \cup {NoRun},
               NEW rows \in [Symbols -> RowState], InsertQueued(r, k, stale, src, rows)
        PROVE  TypeOK'
    BY <2>1 DEF InsertQueued, Active
  <2>2. CASE CreateAndAttachTaskRun(r)
    BY <2>2 DEF CreateAndAttachTaskRun, rowVars
  <2>3. CASE StartRun(r)
    BY <2>3 DEF StartRun, Active
  <2>4. ASSUME NEW stale \in BOOLEAN, RecordStockPoolSource(r, stale)
        PROVE  TypeOK'
    BY <2>4 DEF RecordStockPoolSource
  <2>5. ASSUME NEW rows \in [Symbols -> RowState], RowsWritten(r, rows)
        PROVE  TypeOK'
    BY <2>5 DEF RowsWritten, rowVars
  <2>6. CASE RequestCancel(r)
    BY <2>6 DEF RequestCancel, Active
  <2>7. ASSUME NEW st \in Terminal, NEW auth \in BOOLEAN, FinishActive(r, st, auth)
        PROVE  TypeOK'
    BY <2>7, FinishTypes DEF FinishActive
  <2>8. CASE FinishAgain(r)
    BY <2>8, FinishTypes DEF FinishAgain, IsTerminal, rowVars
  <2> QED BY <1>1, <2>1, <2>2, <2>3, <2>4, <2>5, <2>6, <2>7, <2>8 DEF RunStep
<1>2. CASE ReconcileIncompleteRuns
  <2>1. "interrupted" \in Terminal
    BY DEF Terminal
  <2>2. status' \in [Runs -> {"absent"} \cup Active \cup Terminal]
    BY <1>2, <2>1 DEF ReconcileIncompleteRuns, TypeOK
  <2>3. taskRow' \in [Runs -> {"none", "running", "success", "degraded", "failed",
                               "cancelled"}]
    BY <1>2, <2>1, FinishTypes DEF ReconcileIncompleteRuns, TypeOK, IsTerminal
  <2> QED BY <1>2, <2>2, <2>3 DEF ReconcileIncompleteRuns, TypeOK
<1>3. CASE UNCHANGED storeVars
  BY <1>3 DEF storeVars, TypeOK
<1>4. CASE ReconcileOrphanedTaskRuns
  BY <1>4 DEF ReconcileOrphanedTaskRuns, rowVars, TypeOK
<1> QED BY <1>1, <1>2, <1>3, <1>4, StepCases

\* The rows of the store are always of the types its schema and its callers
\* give them, whatever calls are made.
THEOREM TypeCorrect == Spec => []TypeOK
<1>1. TypeOK /\ [Next]_storeVars => TypeOK'
  BY TypeStep
<1> QED BY TypeInit, <1>1, PTL DEF Spec

-----------------------------------------------------------------------------
(* The parts of StoreInv one by one.                                       *)

\* A status is in exactly one of the classes the code sorts it into.
LEMMA StatusClasses ==
    /\ Active \cap Terminal = {}
    /\ "absent" \notin Active \cup Terminal
    /\ Published \subseteq Terminal
    /\ "queued" \in Active /\ "running" \in Active /\ "cancelling" \in Active
    /\ "interrupted" \in Terminal \ Published
  BY DEF Active, Terminal, Published

\* Only an insertion makes a run active, and it asks for no active run.
LEMMA SingleActiveStep ==
    ASSUME StoreInv, [Next]_storeVars
    PROVE  SingleActiveRun'
<1> USE StatusClasses DEF StoreInv, TypeOK, SingleActiveRun, IsActive
<1>1. ASSUME NEW r \in Runs, RunStep(r)
      PROVE  SingleActiveRun'
  <2>1. ASSUME NEW k \in Kinds, NEW stale \in BOOLEAN, NEW src \in Runs \cup {NoRun},
               NEW rows \in [Symbols -> RowState], InsertQueued(r, k, stale, src, rows)
        PROVE  SingleActiveRun'
    BY <2>1 DEF InsertQueued, NoActiveRun
  <2>2. CASE status' = status
    BY <2>2
  <2>3. CASE StartRun(r)
    BY <2>3 DEF StartRun
  <2>4. CASE RequestCancel(r)
    BY <2>4 DEF RequestCancel
  <2>5. ASSUME NEW st \in Terminal, NEW auth \in BOOLEAN, FinishActive(r, st, auth)
        PROVE  SingleActiveRun'
    BY <2>5 DEF FinishActive
  <2> QED BY <1>1, <2>1, <2>2, <2>3, <2>4, <2>5
          DEF RunStep, CreateAndAttachTaskRun, RecordStockPoolSource, RowsWritten,
              FinishAgain, rowVars
<1>2. CASE ReconcileIncompleteRuns
  BY <1>2 DEF ReconcileIncompleteRuns
<1>3. CASE UNCHANGED storeVars
  BY <1>3 DEF storeVars
<1>4. CASE ReconcileOrphanedTaskRuns
  BY <1>4 DEF ReconcileOrphanedTaskRuns, rowVars
<1> QED BY <1>1, <1>2, <1>3, <1>4, StepCases

\* A task row is linked only to a queued run, and a terminal call writes no
\* task row where there is none.
LEMMA FreshStep ==
    ASSUME StoreInv, [Next]_storeVars
    PROVE  FreshRunsUnlinked'
<1> USE StatusClasses DEF StoreInv, TypeOK, FreshRunsUnlinked
<1>1. ASSUME NEW r \in Runs, RunStep(r)
      PROVE  FreshRunsUnlinked'
  <2>1. CASE taskRow' = taskRow /\ (\A q \in Runs : status'[q] = "absent" => status[q] = "absent")
    BY <2>1
  <2>2. CASE CreateAndAttachTaskRun(r)
    BY <2>2 DEF CreateAndAttachTaskRun, rowVars
  <2>3. ASSUME NEW st \in Terminal, NEW auth \in BOOLEAN, FinishActive(r, st, auth)
        PROVE  FreshRunsUnlinked'
    BY <2>3 DEF FinishActive, FinishedTask
  <2>4. CASE FinishAgain(r)
    BY <2>4 DEF FinishAgain, FinishedTask, rowVars
  <2> QED BY <1>1, <2>1, <2>2, <2>3, <2>4
          DEF RunStep, InsertQueued, StartRun, RecordStockPoolSource, RowsWritten,
              RequestCancel, rowVars
<1>2. CASE ReconcileIncompleteRuns
  BY <1>2 DEF ReconcileIncompleteRuns, FinishedTask, IsActive, IsTerminal
<1>3. CASE UNCHANGED storeVars
  BY <1>3 DEF storeVars
<1>4. CASE ReconcileOrphanedTaskRuns
  BY <1>4 DEF ReconcileOrphanedTaskRuns, rowVars
<1> QED BY <1>1, <1>2, <1>3, <1>4, StepCases

\* No terminal status maps to an open task row.
LEMMA TaskStatusCloses ==
    ASSUME NEW st \in Terminal
    PROVE  TaskStatusForScan(st) \notin {"none", "running"}
  BY DEF TaskStatusForScan, Terminal, Published

\* Whoever ends a run gives its task row that end in the same transaction, and
\* the scheduler closes rows that are open, never one that shows an end.
LEMMA TaskRowStep ==
    ASSUME StoreInv, [Next]_storeVars
    PROVE  TaskRowFollowsRun'
<1> USE StatusClasses DEF StoreInv, TypeOK, TaskRowFollowsRun, IsActive, IsTerminal
<1>1. ASSUME NEW r \in Runs, RunStep(r)
      PROVE  TaskRowFollowsRun'
  <2>1. ASSUME NEW k \in Kinds, NEW stale \in BOOLEAN, NEW src \in Runs \cup {NoRun},
               NEW rows \in [Symbols -> RowState], InsertQueued(r, k, stale, src, rows)
        PROVE  TaskRowFollowsRun'
    BY <2>1 DEF InsertQueued, FreshRunsUnlinked
  <2>2. CASE CreateAndAttachTaskRun(r)
    BY <2>2 DEF CreateAndAttachTaskRun, rowVars
  <2>3. CASE StartRun(r)
    BY <2>3 DEF StartRun
  <2>4. CASE status' = status /\ taskRow' = taskRow
    BY <2>4
  <2>5. CASE RequestCancel(r)
    BY <2>5 DEF RequestCancel
  <2>6. ASSUME NEW st \in Terminal, NEW auth \in BOOLEAN, FinishActive(r, st, auth)
        PROVE  TaskRowFollowsRun'
    BY <2>6, TaskStatusCloses DEF FinishActive, FinishedTask
  <2>7. CASE FinishAgain(r)
    BY <2>7, TaskStatusCloses DEF FinishAgain, FinishedTask, rowVars
  <2> QED BY <1>1, <2>1, <2>2, <2>3, <2>4, <2>5, <2>6, <2>7
          DEF RunStep, RecordStockPoolSource, RowsWritten, rowVars
<1>2. CASE ReconcileIncompleteRuns
  BY <1>2, TaskStatusCloses DEF ReconcileIncompleteRuns, FinishedTask
<1>3. CASE UNCHANGED storeVars
  BY <1>3 DEF storeVars
<1>4. CASE ReconcileOrphanedTaskRuns
  BY <1>4, TaskStatusCloses DEF ReconcileOrphanedTaskRuns, rowVars
<1> QED BY <1>1, <1>2, <1>3, <1>4, StepCases

-----------------------------------------------------------------------------
(* What happens to a run that has ended, and how a run comes to be         *)
(* published.                                                              *)

\* No step touches the row, the ranking or the seal of a run that has ended.
LEMMA TerminalFrozen ==
    ASSUME TypeOK, [Next]_storeVars, NEW q \in Runs, IsTerminal(q)
    PROVE  /\ status'[q] = status[q]
           /\ kind'[q] = kind[q]
           /\ result'[q] = result[q]
           /\ sealed'[q] = sealed[q]
           /\ stalePool'[q] = stalePool[q]
           /\ sourceRun'[q] = sourceRun[q]
           /\ authorized'[q] = authorized[q]
<1> USE StatusClasses DEF TypeOK, IsTerminal
<1> DEFINE Same == /\ status'[q] = status[q]
                   /\ kind'[q] = kind[q]
                   /\ result'[q] = result[q]
                   /\ sealed'[q] = sealed[q]
                   /\ stalePool'[q] = stalePool[q]
                   /\ sourceRun'[q] = sourceRun[q]
                   /\ authorized'[q] = authorized[q]
<1>1. ASSUME NEW r \in Runs, RunStep(r)
      PROVE  Same
  <2>1. ASSUME NEW k \in Kinds, NEW stale \in BOOLEAN, NEW src \in Runs \cup {NoRun},
               NEW rows \in [Symbols -> RowState], InsertQueued(r, k, stale, src, rows)
        PROVE  Same
    BY <2>1 DEF InsertQueued
  <2>2. CASE CreateAndAttachTaskRun(r) \/ FinishAgain(r)
    BY <2>2 DEF CreateAndAttachTaskRun, FinishAgain, rowVars
  <2>3. CASE StartRun(r)
    BY <2>3 DEF StartRun
  <2>4. ASSUME NEW stale \in BOOLEAN, RecordStockPoolSource(r, stale)
        PROVE  Same
    BY <2>4 DEF RecordStockPoolSource
  <2>5. ASSUME NEW rows \in [Symbols -> RowState], RowsWritten(r, rows)
        PROVE  Same
    BY <2>5 DEF RowsWritten, rowVars
  <2>6. CASE RequestCancel(r)
    BY <2>6 DEF RequestCancel, IsActive
  <2>7. ASSUME NEW st \in Terminal, NEW auth \in BOOLEAN, FinishActive(r, st, auth)
        PROVE  Same
    BY <2>7 DEF FinishActive, IsActive
  <2> QED BY <1>1, <2>1, <2>2, <2>3, <2>4, <2>5, <2>6, <2>7 DEF RunStep
<1>2. CASE ReconcileIncompleteRuns
  BY <1>2 DEF ReconcileIncompleteRuns, IsActive
<1>3. CASE UNCHANGED storeVars
  BY <1>3 DEF storeVars
<1>4. CASE ReconcileOrphanedTaskRuns
  BY <1>4 DEF ReconcileOrphanedTaskRuns, rowVars
<1> QED BY <1>1, <1>2, <1>3, <1>4, StepCases

\* A ranking is published by a terminal call, or was published already.
LEMMA PublishedBy ==
    ASSUME TypeOK, [Next]_storeVars, NEW q \in Runs, IsPublished(q)'
    PROVE  \/ IsPublished(q)
           \/ \E st \in Published, auth \in BOOLEAN : FinishActive(q, st, auth)
<1> USE StatusClasses DEF TypeOK, IsPublished
<1> DEFINE Goal == \/ IsPublished(q)
                   \/ \E st \in Published, auth \in BOOLEAN : FinishActive(q, st, auth)
<1>1. ASSUME NEW r \in Runs, RunStep(r)
      PROVE  Goal
  <2>1. CASE status' = status
    BY <2>1
  <2>2. CASE \E st \in {"queued", "running", "cancelling"} :
                status' = [status EXCEPT ![r] = st]
    BY <2>2
  <2>3. ASSUME NEW st \in Terminal, NEW auth \in BOOLEAN, FinishActive(r, st, auth)
        PROVE  Goal
    BY <2>3 DEF FinishActive
  <2> QED BY <1>1, <2>1, <2>2, <2>3
          DEF RunStep, InsertQueued, CreateAndAttachTaskRun, StartRun,
              RecordStockPoolSource, RowsWritten, RequestCancel, FinishAgain, rowVars
<1>2. CASE ReconcileIncompleteRuns
  BY <1>2 DEF ReconcileIncompleteRuns, IsActive
<1>3. CASE UNCHANGED storeVars
  BY <1>3 DEF storeVars
<1>4. CASE ReconcileOrphanedTaskRuns
  BY <1>4 DEF ReconcileOrphanedTaskRuns, rowVars
<1> QED BY <1>1, <1>2, <1>3, <1>4, StepCases

\* A published ranking does not change, and one is published only when
\* validate_terminal_status accepts its rows.
LEMMA PublishedStep ==
    ASSUME StoreInv, [Next]_storeVars
    PROVE  PublishedIsComplete'
<1> SUFFICES ASSUME NEW q \in Runs, IsPublished(q)'
             PROVE  /\ Processed(result'[q])
                    /\ Successes(result'[q]) # {}
                    /\ status'[q] = "success" => CleanSuccess(result'[q], stalePool'[q])
  BY DEF PublishedIsComplete
<1>1. CASE IsPublished(q)
  BY <1>1, TerminalFrozen, StatusClasses
     DEF StoreInv, PublishedIsComplete, IsPublished, IsTerminal
<1>2. ASSUME NEW st \in Published, NEW auth \in BOOLEAN, FinishActive(q, st, auth)
      PROVE  /\ Processed(result'[q])
             /\ Successes(result'[q]) # {}
             /\ status'[q] = "success" => CleanSuccess(result'[q], stalePool'[q])
  <2>1. status'[q] = st /\ result' = result /\ stalePool' = stalePool
    BY <1>2 DEF FinishActive, StoreInv, TypeOK
  <2>2. /\ Processed(result[q])
        /\ IF st = "success" THEN CleanSuccess(result[q], stalePool[q])
                             ELSE DegradedSuccess(result[q], stalePool[q])
    BY <1>2 DEF FinishActive, TerminalStatusValid
  <2>3. CASE st = "success"
    <3>1. PICK s \in Symbols : result[q][s] = "clean"
      BY <2>2, <2>3 DEF Processed, CleanSuccess, Listed
    <3>2. s \in Successes(result[q])
      BY <3>1 DEF Successes, Succeeded
    <3> QED BY <2>1, <2>2, <2>3, <3>2
  <2>4. CASE st # "success"
    BY <2>1, <2>2, <2>4 DEF DegradedSuccess
  <2> QED BY <2>3, <2>4
<1> QED BY <1>1, <1>2, PublishedBy DEF StoreInv

\* The terminal call that publishes a ranking seals it, and no other call
\* writes a seal.
LEMMA SealStep ==
    ASSUME StoreInv, [Next]_storeVars
    PROVE  SealMatchesRows'
<1> SUFFICES ASSUME NEW q \in Runs
             PROVE  IF IsPublished(q)' THEN sealed'[q] = result'[q]
                                       ELSE sealed'[q] = Unsealed
  BY DEF SealMatchesRows, Unsealed, NoRows
<1> USE DEF StoreInv, SealMatchesRows
<1>1. CASE IsPublished(q)
  BY <1>1, TerminalFrozen, StatusClasses DEF IsPublished, IsTerminal
<1>2. ASSUME NEW st \in Terminal, NEW auth \in BOOLEAN, FinishActive(q, st, auth)
      PROVE  IF IsPublished(q)' THEN sealed'[q] = result'[q]
                                ELSE sealed'[q] = Unsealed
  BY <1>2 DEF FinishActive, SealFor, TypeOK, IsPublished
<1>3. CASE ~IsPublished(q) /\ ~(\E st \in Terminal, auth \in BOOLEAN : FinishActive(q, st, auth))
  <2>1. ~IsPublished(q)'
    BY <1>3, PublishedBy, StatusClasses
  <2>2. sealed'[q] = sealed[q]
    <3>1. ASSUME NEW r \in Runs, RunStep(r)
          PROVE  sealed'[q] = sealed[q]
      <4>1. ASSUME NEW st \in Terminal, NEW auth \in BOOLEAN, FinishActive(r, st, auth)
            PROVE  sealed'[q] = sealed[q]
        BY <1>3, <4>1 DEF FinishActive, TypeOK
      <4> QED BY <3>1, <4>1
              DEF RunStep, InsertQueued, CreateAndAttachTaskRun, StartRun,
                  RecordStockPoolSource, RowsWritten, RequestCancel, FinishAgain
    <3> QED BY <3>1, StepCases DEF ReconcileIncompleteRuns, ReconcileOrphanedTaskRuns,
                               storeVars
  <2> QED BY <1>3, <2>1, <2>2
<1> QED BY <1>1, <1>2, <1>3

\* The capture entry of a run is written with its status, in one transaction;
\* writing it again is idempotent.
LEMMA CaptureStep ==
    ASSUME StoreInv, [Next]_storeVars
    PROVE  CaptureQueuedExactly'
<1> SUFFICES ASSUME NEW q \in Runs
             PROVE  q \in outbox' <=> IsPublished(q)' /\ kind'[q] = "official" /\ authorized'[q]
  BY DEF CaptureQueuedExactly
<1> USE DEF StoreInv, CaptureQueuedExactly
<1>1. ASSUME NEW st \in Terminal, NEW auth \in BOOLEAN, FinishActive(q, st, auth)
      PROVE  q \in outbox' <=> IsPublished(q)' /\ kind'[q] = "official" /\ authorized'[q]
  BY <1>1, StatusClasses
     DEF FinishActive, CaptureDue, TypeOK, IsPublished, IsActive
<1>2. CASE ~(\E st \in Terminal, auth \in BOOLEAN : FinishActive(q, st, auth))
  <2>1. q \in outbox' <=> q \in outbox
    <3>1. ASSUME NEW r \in Runs, RunStep(r)
          PROVE  q \in outbox' <=> q \in outbox
      <4>1. CASE FinishAgain(r)
        BY <4>1 DEF FinishAgain, CaptureDue, IsPublished
      <4>2. ASSUME NEW st \in Terminal, NEW auth \in BOOLEAN, FinishActive(r, st, auth)
            PROVE  q \in outbox' <=> q \in outbox
        BY <1>2, <4>2 DEF FinishActive
      <4> QED BY <3>1, <4>1, <4>2
              DEF RunStep, InsertQueued, CreateAndAttachTaskRun, StartRun,
                  RecordStockPoolSource, RowsWritten, RequestCancel
    <3> QED BY <3>1, StepCases DEF ReconcileIncompleteRuns, ReconcileOrphanedTaskRuns,
                               storeVars
  <2>2. CASE IsPublished(q)
    BY <2>1, <2>2, TerminalFrozen, StatusClasses DEF IsPublished, IsTerminal
  <2>3. CASE ~IsPublished(q)
    BY <1>2, <2>1, <2>3, PublishedBy, StatusClasses
  <2> QED BY <2>2, <2>3
<1> QED BY <1>1, <1>2

-----------------------------------------------------------------------------
(* The invariant.                                                          *)

LEMMA InvInit == Init => StoreInv
<1> SUFFICES ASSUME Init
             PROVE  StoreInv
  OBVIOUS
<1>1. \A r \in Runs : ~IsActive(r) /\ ~IsTerminal(r) /\ ~IsPublished(r)
  BY StatusClasses DEF Init, IsActive, IsTerminal, IsPublished
<1>2. SingleActiveRun /\ PublishedIsComplete
  BY <1>1 DEF SingleActiveRun, PublishedIsComplete
<1>3. FreshRunsUnlinked /\ TaskRowFollowsRun
  BY DEF Init, FreshRunsUnlinked, TaskRowFollowsRun
<1>4. SealMatchesRows /\ CaptureQueuedExactly
  BY <1>1 DEF Init, SealMatchesRows, CaptureQueuedExactly
<1> QED BY <1>2, <1>3, <1>4, TypeInit DEF StoreInv

LEMMA InvStep == StoreInv /\ [Next]_storeVars => StoreInv'
<1> SUFFICES ASSUME StoreInv, [Next]_storeVars
             PROVE  StoreInv'
  OBVIOUS
<1>1. TypeOK'
  BY TypeStep DEF StoreInv
<1> QED BY <1>1, SingleActiveStep, FreshStep, TaskRowStep, PublishedStep, SealStep,
           CaptureStep DEF StoreInv

\* StoreInv is an inductive invariant of the store.
THEOREM StoreInvariant == Spec => []StoreInv
  BY InvInit, InvStep, PTL DEF Spec

-----------------------------------------------------------------------------
(* What follows from it.                                                   *)

\* Two scans are never active together: the unique index is enough, whoever
\* creates, retries, refreshes, cancels or reconciles.
THEOREM SingleActiveAlways == Spec => []SingleActiveRun
  BY StoreInvariant, PTL DEF StoreInv

\* No task row stays open behind a scan that has ended, shows another end than the
\* scan's, or calls a scan done before it is, the scheduler's cleaning up included.
THEOREM TaskRowAlwaysFollows == Spec => []TaskRowFollowsRun
  BY StoreInvariant, PTL DEF StoreInv

\* No incomplete or empty ranking is ever published.
THEOREM PublishedAlwaysComplete == Spec => []PublishedIsComplete
  BY StoreInvariant, PTL DEF StoreInv

\* The digest of a published ranking stays valid for ever.
THEOREM SealAlwaysMatches == Spec => []SealMatchesRows
  BY StoreInvariant, PTL DEF StoreInv

\* The capture outbox and the scans agree at every moment.
THEOREM CaptureAlwaysExact == Spec => []CaptureQueuedExactly
  BY StoreInvariant, PTL DEF StoreInv

\* No call changes a run that has ended.
THEOREM HistoryAlwaysImmutable == Spec => HistoryIsImmutable
<1>1. TypeOK /\ [Next]_storeVars
        => [\A r \in Runs : IsTerminal(r) =>
              /\ status'[r] = status[r]
              /\ result'[r] = result[r]
              /\ sealed'[r] = sealed[r]
              /\ stalePool'[r] = stalePool[r]
              /\ sourceRun'[r] = sourceRun[r]
              /\ authorized'[r] = authorized[r]]_storeVars
  BY TerminalFrozen
<1> QED BY <1>1, TypeCorrect, PTL DEF Spec, HistoryIsImmutable

-----------------------------------------------------------------------------
(* The store implements the ledger.                                        *)

\* The phase a reader sees, from the status class.
LEMMA PhaseOf ==
    ASSUME TypeOK, NEW r \in Runs
    PROVE  /\ Phase(r) = "absent" <=> status[r] = "absent"
           /\ Phase(r) = "open" <=> IsActive(r)
           /\ Phase(r) = "published" <=> IsPublished(r)
           /\ Phase(r) \in {"absent", "open", "published", "closed"}
  BY StatusClasses DEF TypeOK, Phase, IsActive, IsPublished

LEMMA PhaseOfNext ==
    ASSUME TypeOK', NEW r \in Runs
    PROVE  /\ Phase(r)' = "absent" <=> status'[r] = "absent"
           /\ Phase(r)' = "open" <=> IsActive(r)'
           /\ Phase(r)' = "published" <=> IsPublished(r)'
           /\ Phase(r)' \in {"absent", "open", "published", "closed"}
  BY StatusClasses DEF TypeOK, Phase, IsActive, IsPublished

LEMMA LedgerInit == Init => Ledger!Init
<1> SUFFICES ASSUME Init
             PROVE  Ledger!Init
  OBVIOUS
<1>1. \A r \in Runs : Phase(r) = "absent"
  BY TypeInit, PhaseOf DEF Init
<1>2. \A r \in Runs : Board(r) = NoRows
  BY StatusClasses DEF Init, Board, IsPublished
<1> QED BY <1>1, <1>2 DEF Ledger!Init, Init

\* Neither the board nor the capture entry of a run changes unless the run is
\* published by the step.
LEMMA ReadersKeep ==
    ASSUME StoreInv, StoreInv', [Next]_storeVars, NEW q \in Runs,
           IsPublished(q)' => IsPublished(q)
    PROVE  /\ IsPublished(q) => IsPublished(q)'
           /\ Board(q)' = Board(q)
           /\ q \in outbox' <=> q \in outbox
<1> USE DEF StoreInv
<1>1. CASE IsPublished(q)
  <2>1. /\ IsPublished(q)'
        /\ result'[q] = result[q] /\ kind'[q] = kind[q] /\ authorized'[q] = authorized[q]
    BY <1>1, TerminalFrozen, StatusClasses DEF IsPublished, IsTerminal
  <2> QED BY <1>1, <2>1 DEF Board, CaptureQueuedExactly
<1>2. CASE ~IsPublished(q)
  BY <1>2 DEF Board, CaptureQueuedExactly, NoRows
<1> QED BY <1>1, <1>2

\* A step that leaves every run in the phase it was in is invisible.
LEMMA Invisible ==
    ASSUME StoreInv, StoreInv', [Next]_storeVars,
           \A r \in Runs : Phase(r)' = Phase(r)
    PROVE  UNCHANGED Ledger!ledgerVars
<1>1. \A r \in Runs : Board(r)' = Board(r) /\ (r \in outbox' <=> r \in outbox)
  BY ReadersKeep, PhaseOf, PhaseOfNext DEF StoreInv
<1>2. outbox' = outbox
  BY <1>1 DEF StoreInv, TypeOK
<1> QED BY <1>1, <1>2 DEF Ledger!ledgerVars

\* A step that changes no status class but that of r, and publishes nothing,
\* moves the phase of r and nothing else a reader sees.
LEMMA OnlyPhaseMoves ==
    ASSUME StoreInv, StoreInv', [Next]_storeVars, NEW r \in Runs,
           \A q \in Runs \ {r} : status'[q] = status[q],
           IsPublished(r)' => IsPublished(r)
    PROVE  /\ [q \in Runs |-> Phase(q)]' = [[q \in Runs |-> Phase(q)] EXCEPT ![r] = Phase(r)']
           /\ [q \in Runs |-> Board(q)]' = [q \in Runs |-> Board(q)]
           /\ outbox' = outbox
<1>1. \A q \in Runs \ {r} : Phase(q)' = Phase(q)
  BY DEF Phase, IsActive, IsPublished
<1>2. \A q \in Runs : Board(q)' = Board(q) /\ (q \in outbox' <=> q \in outbox)
  BY ReadersKeep DEF IsPublished
<1>3. outbox' = outbox
  BY <1>2 DEF StoreInv, TypeOK
<1> QED BY <1>1, <1>2, <1>3

\* An insertion opens a run of the ledger.
LEMMA InsertOpens ==
    ASSUME StoreInv, StoreInv', [Next]_storeVars, NEW r \in Runs,
           status[r] = "absent", NoActiveRun,
           status' = [status EXCEPT ![r] = "queued"]
    PROVE  Ledger!Open(r)
<1> USE DEF StoreInv
<1>1. status'[r] = "queued" /\ \A q \in Runs \ {r} : status'[q] = status[q]
  BY DEF TypeOK
<1>2. Phase(r) = "absent" /\ Phase(r)' = "open" /\ ~IsPublished(r)'
  BY <1>1, PhaseOf, PhaseOfNext, StatusClasses DEF IsActive, IsPublished
<1>3. \A q \in Runs : Phase(q) # "open"
  BY PhaseOf DEF NoActiveRun
<1> QED BY <1>1, <1>2, <1>3, OnlyPhaseMoves DEF Ledger!Open

\* Ending a run without a ranking closes it in the ledger.
LEMMA EndCloses ==
    ASSUME StoreInv, StoreInv', [Next]_storeVars, NEW r \in Runs, IsActive(r),
           NEW st \in Terminal \ Published, status' = [status EXCEPT ![r] = st]
    PROVE  Ledger!Close(r)
<1> USE DEF StoreInv
<1>1. status'[r] = st /\ \A q \in Runs \ {r} : status'[q] = status[q]
  BY DEF TypeOK
<1>2. Phase(r) = "open"
  BY PhaseOf
<1>3. Phase(r)' = "closed" /\ ~IsPublished(r)'
  BY <1>1, PhaseOfNext, StatusClasses DEF IsActive, IsPublished
<1> QED BY <1>1, <1>2, <1>3, OnlyPhaseMoves DEF Ledger!Close

\* A terminal call that publishes does so in one step of the ledger.
LEMMA FinishPublishes ==
    ASSUME StoreInv, StoreInv', [Next]_storeVars, NEW r \in Runs,
           NEW st \in Published, NEW auth \in BOOLEAN, FinishActive(r, st, auth)
    PROVE  Ledger!Publish(r)
<1> USE DEF StoreInv
<1>1. status'[r] = st /\ \A q \in Runs \ {r} : status'[q] = status[q]
  BY DEF FinishActive, TypeOK
<1>2. Phase(r) = "open"
  BY PhaseOf DEF FinishActive
<1>3. Phase(r)' = "published" /\ IsPublished(r)'
  BY <1>1, PhaseOfNext, StatusClasses DEF IsPublished
<1>4. \A q \in Runs \ {r} : Phase(q)' = Phase(q)
  BY <1>1 DEF Phase, IsActive, IsPublished
<1>5. \A q \in Runs \ {r} : Board(q)' = Board(q)
  BY <1>1, ReadersKeep DEF IsPublished
<1>6. Board(r)' \in CompleteRankings
  BY <1>3 DEF Board, CompleteRankings, PublishedIsComplete, TypeOK
<1>7. outbox' \in {outbox, outbox \cup {r}}
  BY DEF FinishActive
<1> QED BY <1>2, <1>3, <1>4, <1>5, <1>6, <1>7 DEF Ledger!Publish

\* Every step of the store is a step of the ledger or invisible.
LEMMA LedgerStep ==
    ASSUME StoreInv, StoreInv', [Next]_storeVars
    PROVE  [Ledger!Next]_(Ledger!ledgerVars)
<1> USE DEF StoreInv
<1> DEFINE Goal == Ledger!Next \/ UNCHANGED Ledger!ledgerVars
<1>1. ASSUME \A q \in Runs : status'[q] = status[q] \/ (IsActive(q) /\ IsActive(q)')
      PROVE  Goal
  <2>1. ASSUME NEW q \in Runs, status'[q] = status[q]
        PROVE  Phase(q)' = Phase(q)
    BY <2>1 DEF Phase, IsActive, IsPublished
  <2>2. ASSUME NEW q \in Runs, IsActive(q), IsActive(q)'
        PROVE  Phase(q)' = Phase(q)
    BY <2>2, PhaseOf, PhaseOfNext
  <2> QED BY <1>1, <2>1, <2>2, Invisible
<1>2. ASSUME NEW r \in Runs, RunStep(r)
      PROVE  Goal
  <2>1. ASSUME NEW k \in Kinds, NEW stale \in BOOLEAN, NEW src \in Runs \cup {NoRun},
               NEW rows \in [Symbols -> RowState], InsertQueued(r, k, stale, src, rows)
        PROVE  Goal
    BY <2>1, InsertOpens DEF InsertQueued, Ledger!Next
  <2>2. ASSUME NEW st \in Terminal, NEW auth \in BOOLEAN, FinishActive(r, st, auth)
        PROVE  Goal
    <3>1. CASE st \in Published
      BY <2>2, <3>1, FinishPublishes DEF Ledger!Next
    <3>2. CASE st \notin Published
      BY <2>2, <3>2, EndCloses DEF FinishActive, Ledger!Next
    <3> QED BY <3>1, <3>2
  <2>3. CASE StartRun(r) \/ RequestCancel(r)
    BY <2>3, <1>1, StatusClasses DEF StartRun, RequestCancel, IsActive, TypeOK
  <2>4. CASE status' = status
    BY <2>4, <1>1
  <2> QED BY <1>2, <2>1, <2>2, <2>3, <2>4
          DEF RunStep, CreateAndAttachTaskRun, RecordStockPoolSource, RowsWritten,
              FinishAgain, rowVars
<1>3. CASE ReconcileIncompleteRuns
  <2>1. CASE \E r \in Runs : IsActive(r)
    <3>1. PICK r \in Runs : IsActive(r)
      BY <2>1
    <3>2. \A q \in Runs \ {r} : ~IsActive(q)
      BY <3>1 DEF SingleActiveRun
    <3>3. status' = [status EXCEPT ![r] = "interrupted"]
      BY <1>3, <3>1, <3>2 DEF ReconcileIncompleteRuns, TypeOK
    <3> QED BY <3>1, <3>3, EndCloses, StatusClasses DEF Ledger!Next
  <2>2. CASE \A r \in Runs : ~IsActive(r)
    BY <1>3, <2>2, <1>1 DEF ReconcileIncompleteRuns
  <2> QED BY <2>1, <2>2
<1>4. CASE ReconcileOrphanedTaskRuns \/ UNCHANGED storeVars
  BY <1>4, <1>1 DEF ReconcileOrphanedTaskRuns, storeVars, rowVars
<1> QED BY <1>2, <1>3, <1>4, StepCases

\* The store implements ScanLedger: a reader sees runs opened one at a time,
\* each ended once, and rankings that appear whole and never change.
THEOREM StoreImplementsLedger == Spec => ImplementsLedger
<1>1. StoreInv /\ StoreInv' /\ [Next]_storeVars => [Ledger!Next]_(Ledger!ledgerVars)
  BY LedgerStep
<1> QED BY <1>1, LedgerInit, StoreInvariant, PTL DEF Spec, ImplementsLedger, Ledger!Spec

=============================================================================
