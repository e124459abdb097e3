--------------------------- MODULE MarketScanStore ---------------------------
(***************************************************************************)
(* The persistent half of a full-market scan: the rows of market_scan_run, *)
(* of market_scan_result, the task_run row linked to a scan and the        *)
(* probability-capture outbox, all in one SQLite file.  Every action is    *)
(* one repository call, that is one transaction; a call whose guard fails  *)
(* raises in the code and changes nothing, so it is simply not enabled.    *)
(*                                                                         *)
(* Nothing here says who calls what or when: Next lets any call happen at  *)
(* any time, so what holds of Spec holds whatever the callers do.  The     *)
(* callers are in MarketScanManager.                                       *)
(***************************************************************************)
EXTENDS Naturals, FiniteSets

CONSTANTS
    Runs,      \* identifiers market_scan_run can hand out
    Symbols,   \* listed shares of the stock pool
    NoRun      \* NULL of market_scan_run.retry_of_run_id

ASSUME NoRunAssumption == NoRun \notin Runs

VARIABLES
    status,      \* market_scan_run.status, "absent" before the INSERT
    kind,        \* what market_scan_run.mode and .scope make of the run
    stalePool,   \* stock_pool_source = 'stale-fallback'
    cancelAsked, \* cancel_requested_at IS NOT NULL
    sourceRun,   \* retry_of_run_id
    authorized,  \* publication_diagnostics_json carries the score gate
    result,      \* market_scan_result.status of each share of each run
    sealed,      \* the result rows the snapshot digest was computed from
    taskRow,     \* status of the linked task_run row, "none" while NULL
    outbox       \* runs with a market_scan_probability_capture_outbox row

rowVars   == <<status, kind, stalePool, cancelAsked, sourceRun, authorized>>
storeVars == <<status, kind, stalePool, cancelAsked, sourceRun, authorized,
               result, sealed, taskRow, outbox>>

-----------------------------------------------------------------------------
Active    == {"queued", "running", "cancelling"}
Published == {"success", "degraded"}
Terminal  == Published \cup {"failed", "cancelled", "interrupted"}
Retryable == Terminal \ {"success"}

\* A processed share: scored from primary data, scored with a fallback source
\* or incomplete metadata, or without a score (missing and skipped rows).
Outcome   == {"clean", "fallback", "missing"}
RowState  == {"none", "pending"} \cup Outcome
Succeeded == {"clean", "fallback"}

\* The whole market in 'official' mode, the whole market in another mode, or
\* only the leaders of an earlier ranking.
Kinds == {"official", "provisional", "refresh"}

NoRows   == [s \in Symbols |-> "none"]
Unsealed == NoRows

IsActive(r)    == status[r] \in Active
IsTerminal(r)  == status[r] \in Terminal
IsPublished(r) == status[r] \in Published

\* Seeded fault: the index covers running scans only.
NoActiveRun_RunningOnly == \A r \in Runs : status[r] # "running"

\* uq_market_scan_single_active: a partial unique index over a constant.
NoActiveRun == \A r \in Runs : ~IsActive(r)

Listed(rows)    == {s \in Symbols : rows[s] # "none"}
Pending(rows)   == {s \in Symbols : rows[s] = "pending"}
Successes(rows) == {s \in Symbols : rows[s] \in Succeeded}
Processed(rows) == Listed(rows) # {} /\ Pending(rows) = {}

-----------------------------------------------------------------------------
TypeOK ==
    /\ status      \in [Runs -> {"absent"} \cup Active \cup Terminal]
    /\ kind        \in [Runs -> Kinds]
    /\ stalePool   \in [Runs -> BOOLEAN]
    /\ cancelAsked \in [Runs -> BOOLEAN]
    /\ sourceRun   \in [Runs -> Runs \cup {NoRun}]
    /\ authorized  \in [Runs -> BOOLEAN]
    /\ result      \in [Runs -> [Symbols -> RowState]]
    /\ sealed      \in [Runs -> [Symbols -> RowState]]
    /\ taskRow     \in [Runs -> {"none", "running", "success", "degraded",
                                 "failed", "cancelled"}]
    /\ outbox      \subseteq Runs

Init ==
    /\ status      = [r \in Runs |-> "absent"]
    /\ kind        = [r \in Runs |-> "official"]
    /\ stalePool   = [r \in Runs |-> FALSE]
    /\ cancelAsked = [r \in Runs |-> FALSE]
    /\ sourceRun   = [r \in Runs |-> NoRun]
    /\ authorized  = [r \in Runs |-> FALSE]
    /\ result      = [r \in Runs |-> NoRows]
    /\ sealed      = [r \in Runs |-> Unsealed]
    /\ taskRow     = [r \in Runs |-> "none"]
    /\ outbox      = {}

-----------------------------------------------------------------------------
(* Creating a run.  All three ways insert a fresh 'queued' row, and the    *)
(* unique index refuses it while any other run is active.                  *)

InsertQueued(r, k, stale, src, rows) ==
    /\ status[r] = "absent"
    /\ NoActiveRun
    /\ status'    = [status    EXCEPT ![r] = "queued"]
    /\ kind'      = [kind      EXCEPT ![r] = k]
    /\ stalePool' = [stalePool EXCEPT ![r] = stale]
    /\ sourceRun' = [sourceRun EXCEPT ![r] = src]
    /\ result'    = [result    EXCEPT ![r] = rows]
    /\ UNCHANGED <<cancelAsked, authorized, sealed, taskRow, outbox>>

CreateRun(r, k) == InsertQueued(r, k, FALSE, NoRun, NoRows)

\* Every rule version the service creates today is a v6 one, for which a retry
\* recomputes every share it copies.
RetryRows(src) ==
    [s \in Symbols |-> IF result[src][s] = "none" THEN "none" ELSE "pending"]

\* The digest of a published run is recomputed before anything is built on it.
SealHolds(r) == IsPublished(r) => sealed[r] = result[r]

PrepareRetry(src, r) ==
    /\ status[src] \in Retryable
    /\ SealHolds(src)
    /\ InsertQueued(r, kind[src], stalePool[src], src, RetryRows(src))

\* The leaders of a published ranking, the best of its scored shares up to a
\* limit, to be scored again from fresh quotes.  The source must be a full-market
\* run that still authorizes actions.
LeaderRows(leaders) ==
    [s \in Symbols |-> IF s \in leaders THEN "pending" ELSE "none"]

PrepareTop100Refresh(src, r, leaders) ==
    /\ status[src] \in Published
    /\ SealHolds(src)
    /\ authorized[src]
    /\ kind[src] # "refresh"
    /\ leaders # {}
    /\ leaders \subseteq Successes(result[src])
    /\ InsertQueued(r, "refresh", FALSE, src, LeaderRows(leaders))

-----------------------------------------------------------------------------
(* A run in progress.                                                      *)

CreateAndAttachTaskRun(r) ==
    /\ status[r] = "queued"
    /\ taskRow[r] = "none"
    /\ taskRow' = [taskRow EXCEPT ![r] = "running"]
    /\ UNCHANGED <<rowVars, result, sealed, outbox>>

StartRun(r) ==
    /\ status[r] = "queued"
    /\ status'      = [status      EXCEPT ![r] = "running"]
    /\ cancelAsked' = [cancelAsked EXCEPT ![r] = FALSE]
    /\ UNCHANGED <<kind, stalePool, sourceRun, authorized,
                   result, sealed, taskRow, outbox>>

RecordStockPoolSource(r, stale) ==
    /\ status[r] \in {"queued", "running"}
    /\ stalePool' = [stalePool EXCEPT ![r] = stale]
    /\ UNCHANGED <<status, kind, cancelAsked, sourceRun, authorized,
                   result, sealed, taskRow, outbox>>

\* ON CONFLICT leaves the status of a share that is already there alone.
SeedResults(r) ==
    /\ status[r] = "running"
    /\ result' = [result EXCEPT ![r] =
                    [s \in Symbols |-> IF result[r][s] = "none" THEN "pending"
                                       ELSE result[r][s]]]
    /\ UNCHANGED <<rowVars, sealed, taskRow, outbox>>

SaveResultBatch(r, batch, outcome) ==
    /\ status[r] = "running"
    /\ batch # {}
    /\ batch \subseteq Pending(result[r])
    /\ result' = [result EXCEPT ![r] =
                    [s \in Symbols |-> IF s \in batch THEN outcome[s]
                                       ELSE result[r][s]]]
    /\ UNCHANGED <<rowVars, sealed, taskRow, outbox>>

\* Seeded fault: a run that has ended may be cancelled.
RequestCancel_Unguarded(r) ==
    /\ status[r] # "absent"
    /\ status'      = [status      EXCEPT ![r] = "cancelling"]
    /\ cancelAsked' = [cancelAsked EXCEPT ![r] = TRUE]
    /\ UNCHANGED <<kind, stalePool, sourceRun, authorized,
                   result, sealed, taskRow, outbox>>

RequestCancel(r) ==
    /\ IsActive(r)
    /\ status'      = [status      EXCEPT ![r] = "cancelling"]
    /\ cancelAsked' = [cancelAsked EXCEPT ![r] = TRUE]
    /\ UNCHANGED <<kind, stalePool, sourceRun, authorized,
                   result, sealed, taskRow, outbox>>

-----------------------------------------------------------------------------
(* Finishing a run.  finish_run is one transaction: the terminal status,   *)
(* the snapshot seal, the linked task_run and the capture outbox entry     *)
(* commit together or not at all.                                          *)

\* Seeded fault: the status of the scan is copied as it is.
TaskStatusForScan_Copied(st) == st

TaskStatusForScan(st) ==
    IF st \in {"cancelled", "interrupted"} THEN "cancelled" ELSE st

\* validate_terminal_status: what may be called a success or a degraded run.
CleanSuccess(rows, stale) ==
    /\ \A s \in Listed(rows) : rows[s] = "clean"
    /\ ~stale

DegradedSuccess(rows, stale) ==
    /\ Successes(rows) # {}
    /\ \/ \E s \in Symbols : rows[s] \in {"missing", "fallback"}
       \/ stale

\* Seeded fault: shares still pending do not stand in the way.
TerminalStatusValid_Partial(rows, stale, st) ==
    st \in Published =>
        IF st = "success" THEN CleanSuccess(rows, stale)
                          ELSE DegradedSuccess(rows, stale)

TerminalStatusValid(rows, stale, st) ==
    st \in Published =>
        /\ Processed(rows)
        /\ IF st = "success" THEN CleanSuccess(rows, stale)
                             ELSE DegradedSuccess(rows, stale)

\* Seeded fault: the score gate is not asked.
CaptureDue_Ungated(r, st, auth) == st \in Published /\ kind[r] = "official"

\* enqueue_probability_source_capture, INSERT OR IGNORE.
CaptureDue(r, st, auth) == st \in Published /\ kind[r] = "official" /\ auth

\* Seeded fault: a degraded ranking is published without a seal.
SealFor_SuccessOnly(r, st) == IF st = "success" THEN result[r] ELSE Unsealed

SealFor(r, st) == IF st \in Published THEN result[r] ELSE Unsealed

FinishedTask(r, st) ==
    IF taskRow[r] = "none" THEN "none" ELSE TaskStatusForScan(st)

\* auth says that the diagnostics stored with the run authorize actions; they
\* never do for a run that is not published.
FinishActive(r, st, auth) ==
    /\ IsActive(r)
    /\ TerminalStatusValid(result[r], stalePool[r], st)
    /\ status'     = [status     EXCEPT ![r] = st]
    /\ authorized' = [authorized EXCEPT ![r] = st \in Published /\ auth]
    /\ sealed'     = [sealed     EXCEPT ![r] = SealFor(r, st)]
    /\ taskRow'    = [taskRow    EXCEPT ![r] = FinishedTask(r, st)]
    /\ outbox'     = IF CaptureDue(r, st, auth) THEN outbox \cup {r} ELSE outbox
    /\ UNCHANGED <<kind, stalePool, cancelAsked, sourceRun, result>>

\* Seeded fault: a late terminal write queues the capture of any ranking.
FinishAgain_Enqueues(r) ==
    /\ IsTerminal(r)
    /\ SealHolds(r)
    /\ taskRow' = [taskRow EXCEPT ![r] = FinishedTask(r, status[r])]
    /\ outbox'  = IF IsPublished(r) THEN outbox \cup {r} ELSE outbox
    /\ UNCHANGED <<rowVars, result, sealed>>

\* A run that is already terminal keeps its status; the linked task row and
\* the outbox entry are brought in line with it once more.
FinishAgain(r) ==
    /\ IsTerminal(r)
    /\ SealHolds(r)
    /\ taskRow' = [taskRow EXCEPT ![r] = FinishedTask(r, status[r])]
    /\ outbox'  = IF CaptureDue(r, status[r], authorized[r])
                  THEN outbox \cup {r} ELSE outbox
    /\ UNCHANGED <<rowVars, result, sealed>>

FinishRun(r, st, auth) == FinishActive(r, st, auth) \/ FinishAgain(r)

\* Seeded fault: the task_run rows of interrupted scans are left running.
ReconcileIncompleteRuns_ScansOnly ==
    /\ status'  = [r \in Runs |-> IF IsActive(r) THEN "interrupted" ELSE status[r]]
    /\ UNCHANGED <<kind, stalePool, cancelAsked, sourceRun, authorized,
                   result, sealed, taskRow, outbox>>

\* Run once by the process that takes the runtime lease over.
ReconcileIncompleteRuns ==
    /\ status'  = [r \in Runs |-> IF IsActive(r) THEN "interrupted" ELSE status[r]]
    /\ taskRow' = [r \in Runs |-> IF IsActive(r) THEN FinishedTask(r, "interrupted")
                                  ELSE IF IsTerminal(r) THEN FinishedTask(r, status[r])
                                  ELSE taskRow[r]]
    /\ UNCHANGED <<kind, stalePool, cancelAsked, sourceRun, authorized,
                   result, sealed, outbox>>

\* Run by every start of the scheduler, over the whole task_run table: a row that
\* a live scan has linked is closed with the others.
ReconcileOrphanedTaskRuns ==
    /\ taskRow' = [r \in Runs |-> IF taskRow[r] = "running" THEN "cancelled"
                                                            ELSE taskRow[r]]
    /\ UNCHANGED <<rowVars, result, sealed, outbox>>

-----------------------------------------------------------------------------
Create ==
    \E r \in Runs : \/ \E k \in Kinds \ {"refresh"} : CreateRun(r, k)
                    \/ \E src \in Runs : PrepareRetry(src, r)
                    \/ \E src \in Runs, leaders \in SUBSET Symbols :
                          PrepareTop100Refresh(src, r, leaders)

Progress(r) ==
    \/ CreateAndAttachTaskRun(r)
    \/ StartRun(r)
    \/ \E stale \in BOOLEAN : RecordStockPoolSource(r, stale)
    \/ SeedResults(r)
    \/ \E batch \in SUBSET Symbols :
          \E outcome \in [batch -> Outcome] : SaveResultBatch(r, batch, outcome)
    \/ RequestCancel(r)

Finish(r) ==
    \E st \in Terminal, auth \in BOOLEAN :
        (auth => st \in Published) /\ FinishRun(r, st, auth)

Next ==
    \/ Create
    \/ \E r \in Runs : Progress(r) \/ Finish(r)
    \/ ReconcileIncompleteRuns
    \/ ReconcileOrphanedTaskRuns

Spec == Init /\ [][Next]_storeVars

-----------------------------------------------------------------------------
(* Safety.                                                                 *)

\* At most one scan is queued, running or being cancelled at any time, over
\* creations, retries, quick refreshes, cancellations and restarts.
SingleActiveRun ==
    \A r1, r2 \in Runs : IsActive(r1) /\ IsActive(r2) => r1 = r2

\* The task_run row a user sees in the task history tells no lie about the scan it
\* was opened for.  It is never left open behind a scan that has ended; it shows
\* the status that scan ended with, also when the scheduler had closed it under
\* the running scan; and no row calls a scan done before the scan is.
TaskRowFollowsRun ==
    \A r \in Runs : taskRow[r] # "none" =>
        /\ IsActive(r)   => taskRow[r] \in {"running", "cancelled"}
        /\ IsTerminal(r) => taskRow[r] = TaskStatusForScan(status[r])

\* A ranking is published only from a universe every share of which has been
\* processed, with at least one score, and is called a success only if no
\* share is missing or rests on fallback data or a stale stock pool.
PublishedIsComplete ==
    \A r \in Runs : IsPublished(r) =>
        /\ Processed(result[r])
        /\ Successes(result[r]) # {}
        /\ status[r] = "success" => CleanSuccess(result[r], stalePool[r])

\* The digest of a published run still describes the rows stored under it, and
\* no unpublished run carries a seal.
SealMatchesRows ==
    \A r \in Runs : IF IsPublished(r) THEN sealed[r] = result[r]
                                      ELSE sealed[r] = Unsealed

\* The research outbox holds exactly the official full-market runs that were
\* published with a passed score gate: none lost in a crash between the two
\* writes, none queued for a run that failed.
CaptureQueuedExactly ==
    \A r \in Runs :
        r \in outbox <=> IsPublished(r) /\ kind[r] = "official" /\ authorized[r]

\* History is immutable: once a run is terminal no call changes its status,
\* its rows, its seal, its provenance or its gate, however late it arrives
\* and whatever is retried or refreshed from it.
HistoryIsImmutable ==
    [][\A r \in Runs : IsTerminal(r) =>
          /\ status'[r] = status[r]
          /\ result'[r] = result[r]
          /\ sealed'[r] = sealed[r]
          /\ stalePool'[r] = stalePool[r]
          /\ sourceRun'[r] = sourceRun[r]
          /\ authorized'[r] = authorized[r]]_storeVars
-----------------------------------------------------------------------------
(* What the store promises its readers, as the abstract ledger: a run is    *)
(* opened alone, and either closed or published once, with its complete     *)
(* ranking and its capture entry in one step.                               *)

CompleteRankings ==
    {rows \in [Symbols -> RowState] : Processed(rows) /\ Successes(rows) # {}}

Phase(r) == CASE status[r] = "absent" -> "absent"
              [] IsActive(r)          -> "open"
              [] IsPublished(r)       -> "published"
              [] OTHER                -> "closed"

Board(r) == IF IsPublished(r) THEN result[r] ELSE NoRows

Ledger == INSTANCE ScanLedger WITH
              Rankings <- CompleteRankings,
              Blank    <- NoRows,
              phase    <- [r \in Runs |-> Phase(r)],
              board    <- [r \in Runs |-> Board(r)],
              captures <- outbox

\* Every behaviour of the store, as its readers see it, is one of the ledger:
\* no run is reopened or published twice, no ranking appears in part, changes or
\* disappears, and no capture is queued at any other moment than publication.
ImplementsLedger == Ledger!Spec
=============================================================================
