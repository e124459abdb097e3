-------------------------- MODULE ProbabilityCapture --------------------------
(***************************************************************************)
(* ProbabilityCapture: the archiving of published scans for probability     *)
(* research.  An outbox row per published scan is claimed under a lease,    *)
(* its inputs are written to an archive file, and the row is closed; the    *)
(* refresh coordinator turns the requests of query threads into refreshes   *)
(* of the research index, each of which re-activates the capture.           *)
(*                                                                         *)
(* Four tasks share the process: "warm" (the warm-up) and "coord" (the      *)
(* coordinator's refresh task) resume the runtime; "worker" (the capture    *)
(* loop) and "scan" (the publishing scan, or the manager's stop) drain the  *)
(* outbox.  An action is one database transaction, one thread call, or the  *)
(* code between two awaits.  The process may crash and start again.         *)
(***************************************************************************)
EXTENDS Naturals, FiniteSets

CONSTANTS
    Runs,         \* market scans eligible for an archive
    MaxAttempts,  \* PROBABILITY_SOURCE_CAPTURE_MAX_ATTEMPTS
    MaxRequests,  \* bound on refresh requests of query threads
    MaxFaults,    \* bound on transient failures of the disk or the database
    MaxStarts     \* bound on starts of the runtime, over all processes

ASSUME CaptureAssumption ==
    /\ "none" \notin Runs
    /\ MaxAttempts \in Nat \ {0}
    /\ MaxRequests \in Nat /\ MaxFaults \in Nat
    /\ MaxStarts \in Nat \ {0}

VARIABLES
    row,        \* the outbox: status, lease and attempts of each run
    archived,   \* runs whose archive file is on disk
    sealed,     \* runs whose action-source receipt verifies
    life,       \* the runtime of the current process
    starts,     \* starts so far
    owner,      \* _capture_owner: the start that created the process
    audited,    \* _archives_audited
    auditMap,   \* the digests handed to the audit
    reading,    \* bindings read by the preload in progress
    index,      \* runs bound in the verified research index
    requested,  \* _requested of the coordinator
    queued,     \* _notification_queued of the coordinator
    unserved,   \* an accepted request no later refresh has taken (history)
    pc,         \* where each task is
    job,        \* the claim each drain is working on
    hits,       \* whether a drain has captured something
    requests,   \* refresh requests so far
    faults      \* failures so far

outboxVars == <<row, archived, sealed>>
indexVars  == <<reading, index>>
auditVars  == <<audited, auditMap>>
coordVars  == <<requested, queued, unserved>>
drainVars  == <<job, hits>>
lifeVars   == <<life, starts, owner>>
boundVars  == <<requests, faults>>
vars == <<outboxVars, indexVars, auditVars, coordVars, drainVars, lifeVars, boundVars, pc>>

-----------------------------------------------------------------------------
Refreshers == {"warm", "coord"}
Drains     == {"worker", "scan"}
Tasks      == Refreshers \cup Drains

NoJob == [run |-> "none", attempt |-> 0, outcome |-> "none"]

MostAttempts == MaxAttempts + 4 * MaxStarts + MaxRequests + 2 * MaxFaults

TypeOK ==
    /\ \A r \in Runs :
          /\ row[r].st \in {"none", "missing", "pending", "processing", "succeeded", "skipped"}
          /\ row[r].owner \in 0..MaxStarts
          /\ (row[r].st = "processing") <=> (row[r].owner # 0)
          /\ row[r].attempts \in 0..MostAttempts
          /\ row[r].due \in BOOLEAN /\ row[r].expired \in BOOLEAN
    /\ archived \subseteq Runs /\ sealed \subseteq Runs
    /\ auditMap \subseteq Runs /\ reading \subseteq Runs /\ index \subseteq Runs
    /\ life \in {"down", "up", "stopping", "draining", "ending", "stopped"}
    /\ starts \in 0..MaxStarts /\ owner \in 0..starts
    /\ audited \in BOOLEAN /\ requested \in BOOLEAN /\ queued \in BOOLEAN /\ unserved \in BOOLEAN
    /\ pc \in [Tasks -> {"off", "wait", "preload", "activate", "audit", "activated", "take", "sleep",
                         "left", "done", "poll", "lock", "claim", "capture", "close", "undo"}]
    /\ \A d \in Drains : job[d].run \in Runs \cup {"none"}
    /\ hits \in [Drains -> BOOLEAN]
    /\ requests \in 0..MaxRequests /\ faults \in 0..MaxFaults

Blank(st) == [st |-> st, owner |-> 0, attempts |-> 0, due |-> TRUE, expired |-> FALSE]

Init ==
    /\ row \in [Runs -> {Blank(st) : st \in {"none", "missing", "pending"}}]
    /\ archived = {}
    /\ sealed \in SUBSET Runs
    /\ life = "down" /\ starts = 0 /\ owner = 0
    /\ audited = FALSE /\ auditMap = {}
    /\ reading = {} /\ index = {}
    /\ requested = FALSE /\ queued = FALSE /\ unserved = FALSE
    /\ pc   = [t \in Tasks |-> "off"]
    /\ job  = [d \in Drains |-> NoJob]
    /\ hits = [d \in Drains |-> FALSE]
    /\ requests = 0 /\ faults = 0

-----------------------------------------------------------------------------
(* The outbox: one transaction each.                                       *)

\* Seeded fault: a claim given back keeps its owner.
Freed_Owned(x) == [x EXCEPT !.st = "pending", !.due = TRUE, !.expired = FALSE]

Freed(x) == [x EXCEPT !.st = "pending", !.owner = 0, !.due = TRUE, !.expired = FALSE]
Skipped(x) == [x EXCEPT !.st = "skipped", !.owner = 0, !.expired = FALSE]
Taken(x)   == [x EXCEPT !.st = "processing", !.owner = owner, !.attempts = @ + 1]

Backfilled(r, x) == IF x.st = "missing" /\ r \in sealed THEN Blank("pending") ELSE x

SkipUnsealed(r, x) == IF x.st \in {"pending", "processing"} /\ r \notin sealed THEN Skipped(x) ELSE x

\* Every row in progress is freed, whoever works on it.
Reconciled ==
    [r \in Runs |->
        LET x == Backfilled(r, row[r])
        IN  SkipUnsealed(r, IF x.st = "processing" THEN Freed(x) ELSE x)]

Audited(x, r) ==
    CASE x.st # "succeeded" -> x
      [] x.st = "succeeded" /\ r \notin sealed   -> Skipped(x)
      [] x.st = "succeeded" /\ r \in auditMap    -> x
      [] OTHER -> Freed(x)

\* Seeded fault: an expired lease is never reclaimed.
Reclaimed_Never == row

\* The rows once expired leases are reclaimed.
Reclaimed == [r \in Runs |-> IF row[r].expired THEN Freed(row[r]) ELSE row[r]]

ClaimableIn(rows) == {r \in Runs : rows[r].st = "pending" /\ rows[r].due}

\* The rows after a claim of run r, which may first skip rows without receipt.
Claimed(r, skipped) ==
    [x \in Runs |->
        CASE x = r                     -> Taken(Reclaimed[x])
          [] x # r /\ x \in skipped    -> Skipped(Reclaimed[x])
          [] x # r /\ x \notin skipped -> Reclaimed[x]]

\* Run r and the skipped runs of one claim; none claimed is r = "none".
Claims ==
    LET due == ClaimableIn(Reclaimed)
    IN  ((due \cap sealed) \X SUBSET (due \ sealed))
        \cup (IF due \cap sealed = {} THEN {<<"none", due>>} ELSE {})

Holds(d) == LET x == row[job[d].run] IN x.st = "processing" /\ x.owner = owner

\* The row a drain closes, when the lease is still its owner's.
Closed(d) ==
    LET r == job[d].run
    IN  [row EXCEPT ![r] = CASE job[d].outcome = "retry" -> [Freed(@) EXCEPT !.due = FALSE]
                             [] OTHER -> [@ EXCEPT !.st = job[d].outcome, !.owner = 0, !.expired = FALSE]]

-----------------------------------------------------------------------------
(* The coordinator of refresh requests.                                    *)

TaskRuns == pc["coord"] \notin {"off", "done"}

\* A query thread finds the index behind and asks for a refresh.
Request ==
    /\ life = "up" /\ requests < MaxRequests
    /\ requests'  = requests + 1
    /\ unserved'  = TRUE
    /\ requested' = TRUE
    /\ queued'    = (queued \/ ~TaskRuns)
    /\ UNCHANGED <<outboxVars, indexVars, auditVars, drainVars, lifeVars, faults, pc>>

Dispatch ==
    /\ queued
    /\ queued' = FALSE
    /\ pc' = IF TaskRuns THEN pc ELSE [pc EXCEPT !["coord"] = "take"]
    /\ UNCHANGED <<outboxVars, indexVars, auditVars, requested, unserved, drainVars, lifeVars, boundVars>>

\* The refresh task takes the request, or leaves its loop.
TakeRequest ==
    /\ life = "up" /\ pc["coord"] = "take"
    /\ requested' = FALSE
    /\ unserved'  = IF requested THEN FALSE ELSE unserved
    /\ pc' = [pc EXCEPT !["coord"] = IF requested THEN "wait" ELSE "left"]
    /\ UNCHANGED <<outboxVars, indexVars, auditVars, queued, drainVars, lifeVars, boundVars>>

\* The task becomes done; its done-callback is still to come.
TaskReturns ==
    /\ pc["coord"] = "left"
    /\ pc' = [pc EXCEPT !["coord"] = "done"]
    /\ UNCHANGED <<outboxVars, indexVars, auditVars, coordVars, drainVars, lifeVars, boundVars>>

\* Seeded fault: the done-callback forgets a request that met the dying task.
Finished_Forgets ==
    /\ pc["coord"] = "done"
    /\ pc' = [pc EXCEPT !["coord"] = "off"]
    /\ UNCHANGED <<outboxVars, indexVars, auditVars, coordVars, drainVars, lifeVars, boundVars>>

Finished ==
    /\ pc["coord"] = "done"
    /\ pc' = [pc EXCEPT !["coord"] = "off"]
    /\ queued' = (queued \/ requested)
    /\ UNCHANGED <<outboxVars, indexVars, auditVars, requested, unserved, drainVars, lifeVars, boundVars>>

RetryDelayEnds ==
    /\ pc["coord"] = "sleep"
    /\ pc' = [pc EXCEPT !["coord"] = "take"]
    /\ UNCHANGED <<outboxVars, indexVars, auditVars, coordVars, drainVars, lifeVars, boundVars>>

-----------------------------------------------------------------------------
(* Resuming the runtime: a refresh of the index, then the activation of the *)
(* capture.                                                                *)

PreloadFree    == \A t \in Tasks : pc[t] # "preload"
ActivationFree == \A t \in Refreshers : pc[t] \notin {"audit", "activated"}
Succeeded      == {r \in Runs : row[r].st = "succeeded"}

\* A refresh enters the preload lock and reads the bindings.
PreloadBegins(t) ==
    /\ pc[t] = "wait" /\ PreloadFree
    /\ (t \in Refreshers => life = "up")
    /\ reading' = Succeeded
    /\ pc' = [pc EXCEPT ![t] = "preload"]
    /\ UNCHANGED <<outboxVars, index, auditVars, coordVars, drainVars, lifeVars, boundVars>>

DrainEnd(d) == IF d = "worker" THEN "poll" ELSE "off"

\* The verified index is published.
PreloadEnds(t) ==
    /\ pc[t] = "preload"
    /\ (t \in Refreshers => life = "up")
    /\ index' = reading \cap archived
    /\ pc' = [pc EXCEPT ![t] = IF t \in Refreshers THEN "activate" ELSE DrainEnd(t)]
    /\ UNCHANGED <<outboxVars, reading, auditVars, coordVars, drainVars, lifeVars, boundVars>>

\* Under the activation lock the outbox is reconciled; the digests for the
\* one-time audit are taken after it.
Reconcile(t) ==
    /\ t \in Refreshers /\ pc[t] = "activate" /\ life = "up" /\ ActivationFree
    /\ row' = Reconciled
    /\ auditMap' = IF audited THEN auditMap ELSE index
    /\ pc' = [pc EXCEPT ![t] = IF audited THEN "activated" ELSE "audit"]
    /\ UNCHANGED <<archived, sealed, indexVars, audited, coordVars, drainVars, lifeVars, boundVars>>

\* Seeded fault: the audit trusts the bindings it is meant to check.
Audit_Trusting(t) ==
    /\ t \in Refreshers /\ pc[t] = "audit" /\ life = "up"
    /\ row' = row
    /\ pc' = [pc EXCEPT ![t] = "activated"]
    /\ UNCHANGED <<archived, sealed, indexVars, auditVars, coordVars, drainVars, lifeVars, boundVars>>

Audit(t) ==
    /\ t \in Refreshers /\ pc[t] = "audit" /\ life = "up"
    /\ row' = [r \in Runs |-> Audited(row[r], r)]
    /\ pc' = [pc EXCEPT ![t] = "activated"]
    /\ UNCHANGED <<archived, sealed, indexVars, auditVars, coordVars, drainVars, lifeVars, boundVars>>

\* What follows a resumption: the coordinator looks for the next request.
ResumeEnd(t) == IF t = "coord" THEN "take" ELSE "off"

\* The capture worker is started; the task has resumed the runtime.
Activated(t) ==
    /\ t \in Refreshers /\ pc[t] = "activated" /\ life = "up"
    /\ audited' = TRUE
    /\ pc' = [pc EXCEPT ![t] = ResumeEnd(t), !["worker"] = IF @ = "off" THEN "lock" ELSE @]
    /\ UNCHANGED <<outboxVars, indexVars, auditMap, coordVars, drainVars, lifeVars, boundVars>>

\* A refresh or an activation fails.  The coordinator asks itself again and
\* waits; the warm-up leaves a request to it.
ResumeFails(t) ==
    /\ t \in Refreshers /\ pc[t] \in {"preload", "activate", "audit"} /\ life = "up"
    /\ faults < MaxFaults
    /\ faults' = faults + 1
    /\ requested' = TRUE /\ unserved' = TRUE
    /\ queued' = (queued \/ (t = "warm" /\ ~TaskRuns))
    /\ pc' = [pc EXCEPT ![t] = IF t = "coord" THEN "sleep" ELSE "off"]
    /\ UNCHANGED <<outboxVars, indexVars, auditVars, drainVars, lifeVars, requests>>

\* The capture is active, but the optional historical reference failed.
HistoryFails(t) ==
    /\ t \in Refreshers /\ pc[t] = "activated" /\ life = "up"
    /\ faults < MaxFaults
    /\ faults'  = faults + 1
    /\ audited' = TRUE
    /\ requested' = TRUE /\ unserved' = TRUE
    /\ queued' = (queued \/ (t = "warm" /\ ~TaskRuns))
    /\ pc' = [pc EXCEPT ![t] = IF t = "coord" THEN "sleep" ELSE "off",
                        !["worker"] = IF @ = "off" THEN "lock" ELSE @]
    /\ UNCHANGED <<outboxVars, indexVars, auditMap, drainVars, lifeVars, requests>>

-----------------------------------------------------------------------------
(* Draining the outbox.                                                    *)

\* A scan is published with its row in one transaction, and drains the outbox.
Publish(r) ==
    /\ life \in {"up", "stopping"} /\ pc["scan"] = "off"
    /\ row[r].st = "none" /\ r \in sealed
    /\ row' = [row EXCEPT ![r] = Blank("pending")]
    /\ pc' = IF life = "up" THEN [pc EXCEPT !["scan"] = "lock"] ELSE pc
    /\ UNCHANGED <<archived, sealed, indexVars, auditVars, coordVars, drainVars, lifeVars, boundVars>>

\* The worker is woken, or its poll interval has passed.
PollEnds ==
    /\ pc["worker"] = "poll" /\ life # "ending"
    /\ pc' = [pc EXCEPT !["worker"] = "lock"]
    /\ UNCHANGED <<outboxVars, indexVars, auditVars, coordVars, drainVars, lifeVars, boundVars>>

CaptureFree == \A d \in Drains : pc[d] \in {"off", "poll", "lock"}

\* Seeded fault: the publishing scan drains beside the capture worker.
DrainBegins_Unlocked(d) ==
    /\ pc[d] = "lock"
    /\ pc'   = [pc EXCEPT ![d] = "claim"]
    /\ hits' = [hits EXCEPT ![d] = FALSE]
    /\ UNCHANGED <<outboxVars, indexVars, auditVars, coordVars, job, lifeVars, boundVars>>

DrainBegins(d) ==
    /\ pc[d] = "lock" /\ CaptureFree
    /\ pc'   = [pc EXCEPT ![d] = "claim"]
    /\ hits' = [hits EXCEPT ![d] = FALSE]
    /\ UNCHANGED <<outboxVars, indexVars, auditVars, coordVars, job, lifeVars, boundVars>>

\* Expired leases are reclaimed and a due row is claimed, or there is none.
Claim(d) ==
    /\ pc[d] = "claim"
    /\ \E c \in Claims :
          /\ row' = Claimed(c[1], c[2])
          /\ IF c[1] = "none"
             THEN /\ job' = [job EXCEPT ![d] = NoJob]
                  /\ pc' = [pc EXCEPT ![d] = IF hits[d] THEN "wait" ELSE DrainEnd(d)]
             ELSE /\ job' = [job EXCEPT ![d] = [run |-> c[1], attempt |-> row'[c[1]].attempts,
                                                outcome |-> "none"]]
                  /\ pc' = [pc EXCEPT ![d] = "capture"]
    /\ UNCHANGED <<archived, sealed, indexVars, auditVars, coordVars, hits, lifeVars, boundVars>>

\* Seeded fault: a capture that fails is retried for ever.
Capture_Tireless(d) ==
    /\ pc[d] = "capture"
    /\ \E outcome \in {"succeeded", "skipped", "retry"} :
          /\ archived' = IF outcome = "retry" THEN archived ELSE archived \cup {job[d].run}
          /\ job' = [job EXCEPT ![d].outcome = outcome]
    /\ pc' = [pc EXCEPT ![d] = "close"]
    /\ UNCHANGED <<row, sealed, indexVars, auditVars, coordVars, hits, lifeVars, boundVars>>

\* The capture thread returns: the archive is published, the run is refused
\* (before or after its archive was written), or a transient error occurred.
Capture(d) ==
    /\ pc[d] = "capture"
    /\ \E outcome \in {"succeeded", "skipped", "retry"} :
          /\ outcome = "succeeded" => archived' = archived \cup {job[d].run}
          /\ outcome = "skipped"   => archived' \in {archived, archived \cup {job[d].run}}
          /\ outcome = "retry"     => archived' = archived
          /\ job' = [job EXCEPT ![d].outcome =
                        IF outcome = "retry" /\ job[d].attempt >= MaxAttempts
                        THEN "skipped" ELSE outcome]
    /\ pc' = [pc EXCEPT ![d] = "close"]
    /\ UNCHANGED <<row, sealed, indexVars, auditVars, coordVars, hits, lifeVars, boundVars>>

\* The row is closed; a lost lease, or a receipt that no longer verifies, ends
\* the drain with an error.
Close(d) ==
    /\ pc[d] = "close"
    /\ job' = [job EXCEPT ![d] = NoJob]
    /\ IF Holds(d) THEN /\ row'  = Closed(d)
                        /\ hits' = [hits EXCEPT ![d] = @ \/ job[d].outcome = "succeeded"]
                        /\ pc'   = [pc EXCEPT ![d] = "claim"]
                   ELSE /\ pc'   = [pc EXCEPT ![d] = DrainEnd(d)]
                        /\ UNCHANGED <<row, hits>>
    /\ UNCHANGED <<archived, sealed, indexVars, auditVars, coordVars, lifeVars, boundVars>>

\* A database or index failure ends the drain with an error.
DrainFails(d) ==
    /\ pc[d] \in {"claim", "close", "preload"}
    /\ faults < MaxFaults
    /\ faults' = faults + 1
    /\ job' = [job EXCEPT ![d] = NoJob]
    /\ pc'  = [pc EXCEPT ![d] = DrainEnd(d)]
    /\ UNCHANGED <<outboxVars, indexVars, auditVars, coordVars, hits, lifeVars, requests>>

\* A cancelled capture gives its claim back at once.
Undo(d) ==
    /\ pc[d] = "undo"
    /\ row' = IF Holds(d) THEN [row EXCEPT ![job[d].run] = Freed(@)] ELSE row
    /\ job' = [job EXCEPT ![d] = NoJob]
    /\ pc'  = [pc EXCEPT ![d] = "off"]
    /\ UNCHANGED <<archived, sealed, indexVars, auditVars, coordVars, hits, lifeVars, boundVars>>

\* A retry falls due.
RetryDue(r) ==
    /\ ~row[r].due
    /\ row' = [row EXCEPT ![r].due = TRUE]
    /\ UNCHANGED <<archived, sealed, indexVars, auditVars, coordVars, drainVars, lifeVars, boundVars, pc>>

\* The lease of a row runs out.
LeaseExpires(r) ==
    /\ row[r].st = "processing" /\ ~row[r].expired
    /\ row' = [row EXCEPT ![r].expired = TRUE]
    /\ UNCHANGED <<archived, sealed, indexVars, auditVars, coordVars, drainVars, lifeVars, boundVars, pc>>

-----------------------------------------------------------------------------
(* Starts, stops and crashes.                                              *)

\* start(): the coordinator is bound and the warm-up begins.
StartRuntime ==
    /\ life' = "up"
    /\ starts' = starts + 1
    /\ pc' = [pc EXCEPT !["warm"] = "wait"]

\* A process starts; a restore may have lost archives while none ran.
Boot ==
    /\ life = "down" /\ starts < MaxStarts
    /\ StartRuntime
    /\ owner' = starts + 1
    /\ archived' \in SUBSET archived
    /\ UNCHANGED <<row, sealed, indexVars, auditVars, coordVars, drainVars, boundVars>>

\* The same process leads again.
Restart ==
    /\ life = "stopped" /\ starts < MaxStarts
    /\ StartRuntime
    /\ UNCHANGED <<outboxVars, indexVars, auditVars, coordVars, drainVars, owner, boundVars>>

\* A scan operation calls start() again: a failed warm-up is repeated.
Rewarm ==
    /\ life = "up" /\ pc["warm"] = "off" /\ ~(audited /\ pc["worker"] # "off")
    /\ pc' = [pc EXCEPT !["warm"] = "wait"]
    /\ UNCHANGED <<outboxVars, indexVars, auditVars, coordVars, drainVars, lifeVars, boundVars>>

\* The manager stops: scans are cancelled, requests revoked, refreshes cancelled.
Stop ==
    /\ life = "up"
    /\ life' = "stopping"
    /\ requested' = FALSE /\ queued' = FALSE /\ unserved' = FALSE
    /\ UNCHANGED <<outboxVars, indexVars, auditVars, drainVars, starts, owner, boundVars, pc>>

\* A cancelled refresh drains the thread it waits for, then ends.
RefreshCancelled(t) ==
    /\ t \in Refreshers /\ life = "stopping" /\ pc[t] # "off"
    /\ row'   \in {row} \cup (IF pc[t] = "activate" /\ ActivationFree THEN {Reconciled} ELSE {})
                        \cup (IF pc[t] = "audit" THEN {[r \in Runs |-> Audited(row[r], r)]} ELSE {})
    /\ index' \in {index} \cup (IF pc[t] = "preload" THEN {reading \cap archived} ELSE {})
    /\ pc' = [pc EXCEPT ![t] = "off"]
    /\ UNCHANGED <<archived, sealed, reading, auditVars, coordVars, drainVars, lifeVars, boundVars>>

\* A cancelled drain: a capture thread runs on but its claim is given back; a
\* transaction in progress may commit although nobody sees its result.
DrainCancelled(d) ==
    /\ \/ d = "scan" /\ life = "stopping"
       \/ d = "worker" /\ life = "ending"
    /\ pc[d] \notin {"off", "undo"}
    /\ row' \in {row}
                \cup (IF pc[d] = "claim" THEN {Claimed(c[1], c[2]) : c \in Claims} ELSE {})
                \cup (IF pc[d] = "close" /\ Holds(d) THEN {Closed(d)} ELSE {})
    /\ index' \in {index} \cup (IF pc[d] = "preload" THEN {reading \cap archived} ELSE {})
    /\ archived' \in {archived} \cup (IF pc[d] = "capture" THEN {archived \cup {job[d].run}} ELSE {})
    /\ pc'  = [pc EXCEPT ![d] = IF @ = "capture" THEN "undo" ELSE "off"]
    /\ job' = IF pc[d] = "capture" THEN job ELSE [job EXCEPT ![d] = NoJob]
    /\ UNCHANGED <<sealed, reading, auditVars, coordVars, hits, lifeVars, boundVars>>

\* With scans and refreshes gone, the stop drains the outbox once itself.
StopDrains ==
    /\ life = "stopping" /\ \A t \in Tasks \ {"worker"} : pc[t] = "off"
    /\ life' = "draining"
    /\ pc' = [pc EXCEPT !["scan"] = "lock"]
    /\ UNCHANGED <<outboxVars, indexVars, auditVars, coordVars, drainVars, starts, owner, boundVars>>

StopCapture ==
    /\ life = "draining" /\ pc["scan"] = "off"
    /\ life' = "ending"
    /\ UNCHANGED <<outboxVars, indexVars, auditVars, coordVars, drainVars, starts, owner, boundVars, pc>>

Stopped ==
    /\ life = "ending" /\ pc["worker"] = "off"
    /\ life' = "stopped"
    /\ UNCHANGED <<outboxVars, indexVars, auditVars, coordVars, drainVars, starts, owner, boundVars, pc>>

\* The process dies, or exits once stopped: only the database and files remain.
Crash ==
    /\ life # "down" /\ starts < MaxStarts
    /\ life' = "down"
    /\ owner' = 0
    /\ audited' = FALSE /\ auditMap' = {}
    /\ reading' = {} /\ index' = {}
    /\ requested' = FALSE /\ queued' = FALSE /\ unserved' = FALSE
    /\ pc'   = [t \in Tasks |-> "off"]
    /\ job'  = [d \in Drains |-> NoJob]
    /\ hits' = [d \in Drains |-> FALSE]
    /\ UNCHANGED <<outboxVars, starts, boundVars>>

-----------------------------------------------------------------------------
CoordStep   == Dispatch \/ TakeRequest \/ TaskReturns \/ Finished \/ RetryDelayEnds
RefreshStep(t) == \/ PreloadBegins(t) \/ PreloadEnds(t)
                  \/ Reconcile(t) \/ Audit(t) \/ Activated(t)
DrainStep(d) == \/ DrainBegins(d) \/ Claim(d) \/ Capture(d) \/ Close(d) \/ Undo(d)
                \/ PreloadBegins(d) \/ PreloadEnds(d)
StopStep    == \/ \E t \in Refreshers : RefreshCancelled(t)
               \/ \E d \in Drains : DrainCancelled(d)
               \/ StopDrains \/ StopCapture \/ Stopped
Environment == \/ Request \/ Boot \/ Restart \/ Rewarm \/ Stop \/ Crash
               \/ \E r \in Runs : Publish(r)
               \/ \E t \in Refreshers : ResumeFails(t) \/ HistoryFails(t)
               \/ \E d \in Drains : DrainFails(d)
TimePasses  == \E r \in Runs : RetryDue(r) \/ LeaseExpires(r)

Next ==
    \/ CoordStep \/ StopStep \/ Environment \/ TimePasses \/ PollEnds
    \/ \E t \in Refreshers : RefreshStep(t)
    \/ \E d \in Drains : DrainStep(d)

\* The capture loop never starves, nor do the other tasks together: each of
\* them ends or waits for one of the others.
Fairness ==
    /\ WF_vars(PollEnds \/ DrainStep("worker"))
    /\ WF_vars(CoordStep \/ (\E t \in Refreshers : RefreshStep(t)) \/ DrainStep("scan") \/ TimePasses)

Spec     == Init /\ [][Next]_vars
FairSpec == Spec /\ Fairness

-----------------------------------------------------------------------------
(* What must hold.                                                         *)

\* A request of a query thread that was accepted is never lost: until a refresh
\* takes it, it is recorded and a dispatch is queued or a task will look again.
RequestNotLost == unserved => requested /\ (queued \/ pc["coord"] # "off")

\* A drain closes a row only for the claim it made: revoked or expired leases
\* are claimed again by the same owner, and the first drain must not close the
\* second claim.
OutcomeMatchesClaim ==
    \A d \in Drains : pc[d] \in {"close", "undo"} /\ Holds(d) => row[job[d].run].attempts = job[d].attempt

\* Once the archives were audited, a row that claims success has its archive,
\* whatever a restore lost before.
SuccessIsArchived == audited => Succeeded \subseteq archived

\* A row is tried MaxAttempts times by captures that fail; a claim that was taken
\* away counts as a try too.  A start pays for four of these (its reconciliation
\* and audit, the cancellation of the scan's drain and of the worker's), a refresh
\* request for one, and a failure for two (the reconciliations of the refresh it
\* asks for and of a warm-up repeated, or the drain it ends).
Credit == 4 * starts + requests + 2 * faults
AttemptsAccounted == \A r \in Runs : row[r].attempts <= MaxAttempts + Credit

\* Every outbox row is eventually closed while the process stays the leader.
CaptureEnds ==
    \A r \in Runs : row[r].st \in {"pending", "processing"}
                        ~> (row[r].st \in {"succeeded", "skipped"} \/ life # "up")
=============================================================================
