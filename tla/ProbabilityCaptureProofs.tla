------------------------ MODULE ProbabilityCaptureProofs ------------------------
(***************************************************************************)
(* Proofs about ProbabilityCapture, for every set of runs and every bound  *)
(* on attempts, requests, faults and starts: an accepted refresh request   *)
(* is never lost, a drain closes only the claim it made, and after the     *)
(* audit a row that claims success has its archive.                        *)
(*                                                                         *)
(* None of the three is inductive.  A request survives the end of its      *)
(* process because a stop revokes it before anything else happens.  A      *)
(* claim is closed by the drain that made it because two drains never hold *)
(* the capture lock and no other step puts a row back in progress.  A      *)
(* success has its archive because the index, and so the digests of the    *)
(* audit, name only archives on disk, a drain closes a success only after  *)
(* its archive was written, and archives are lost only while no process    *)
(* remembers them.                                                         *)
(***************************************************************************)
EXTENDS ProbabilityCapture, TLAPS

Statuses == {"none", "missing", "pending", "processing", "succeeded", "skipped"}
Outcomes == {"succeeded", "skipped", "retry"}
Rows ==
    [st : Statuses, owner : Nat, attempts : Nat, due : BOOLEAN, expired : BOOLEAN]
Jobs == [run : Runs \cup {"none"}, attempt : Nat, outcome : Outcomes \cup {"none"}]

Places ==
    {"off", "wait", "preload", "activate", "audit", "activated", "take", "sleep", "left", "done",
     "poll", "lock", "claim", "capture", "close", "undo"}

Typed ==
    /\ row \in [Runs -> Rows]
    /\ pc \in [Tasks -> Places]
    /\ job \in [Drains -> Jobs]
    /\ owner \in Nat /\ starts \in Nat
    /\ requested \in BOOLEAN /\ queued \in BOOLEAN /\ unserved \in BOOLEAN

\* A stop revokes the requests before the process is no longer up.
RequestsRevoked == life # "up" => ~unserved

\* A drain that is past the capture lock.
Draining(d) == pc[d] \notin {"off", "poll", "lock"}

OneDrains == \A d, e \in Drains : Draining(d) /\ Draining(e) => d = e

\* A drain that has a claim in its hands.
Holding == {"capture", "close", "undo"}

\* The row of a claim, while it is in progress, is the one claimed.
ClaimKept ==
    \A d \in Drains : pc[d] \in Holding =>
        /\ job[d].run \in Runs
        /\ row[job[d].run].st = "processing" => row[job[d].run].attempts = job[d].attempt

\* A success is closed after its archive was written.
ArchivedFirst ==
    \A d \in Drains : pc[d] = "close" =>
        /\ job[d].outcome \in Outcomes
        /\ job[d].outcome = "succeeded" => job[d].run \in archived

\* Without a process nothing is remembered and nothing drains.
DownIsEmpty ==
    life = "down" =>
        /\ ~audited /\ index = {} /\ auditMap = {}
        /\ \A d \in Drains : pc[d] = "off"
        /\ \A t \in Refreshers : pc[t] # "activated"

\* What the index and the audit name is on disk; so is every success, from the
\* end of the audit on.
NamedIsArchived ==
    /\ index \subseteq archived /\ auditMap \subseteq archived
    /\ (audited \/ \E t \in Refreshers : pc[t] = "activated") => Succeeded \subseteq archived

CaptureInv ==
    /\ Typed
    /\ RequestNotLost /\ RequestsRevoked
    /\ OneDrains /\ ClaimKept /\ ArchivedFirst
    /\ DownIsEmpty /\ NamedIsArchived

LEMMA TasksSplit ==
    /\ Refreshers \subseteq Tasks /\ Drains \subseteq Tasks
    /\ "coord" \in Refreshers /\ "warm" \in Refreshers
    /\ "worker" \in Drains /\ "scan" \in Drains
    /\ \A t \in Refreshers : t \notin Drains
    /\ "coord" # "warm" /\ "worker" # "scan"
BY DEF Tasks, Refreshers, Drains

-----------------------------------------------------------------------------
(* The outbox.                                                             *)

\* Rows that no claim has touched: nothing is newly in progress, and what newly
\* succeeds has its archive.
Calm(rows) ==
    /\ rows \in [Runs -> Rows]
    /\ \A r \in Runs :
          /\ rows[r].st = "succeeded" => row[r].st = "succeeded" \/ r \in archived
          /\ rows[r].st = "processing" =>
                row[r].st = "processing" /\ rows[r].attempts = row[r].attempts

LEMMA RowChanges ==
    ASSUME NEW x \in Rows
    PROVE  /\ Freed(x) \in Rows /\ Freed(x).st = "pending"
           /\ Skipped(x) \in Rows /\ Skipped(x).st = "skipped"
           /\ Blank("pending") \in Rows /\ Blank("pending").st = "pending"
BY DEF Freed, Skipped, Blank, Rows, Statuses

LEMMA TakenRow ==
    ASSUME Typed, NEW x \in Rows
    PROVE  Taken(x) \in Rows /\ Taken(x).st = "processing"
<1>1. PICK n \in Nat, o \in Nat : n = x.attempts + 1 /\ o = owner
  BY DEF Typed, Rows
<1>2. Taken(x) = [x EXCEPT !.st = "processing", !.owner = o, !.attempts = n]
  BY <1>1 DEF Taken
<1> QED BY <1>1, <1>2 DEF Rows, Statuses

LEMMA ReconciledCalm ==
    ASSUME Typed
    PROVE  Calm(Reconciled)
<1>1. ASSUME NEW r \in Runs
      PROVE  /\ Reconciled[r] \in Rows /\ Reconciled[r].st # "processing"
             /\ Reconciled[r].st = "succeeded" => row[r].st = "succeeded"
  <2> DEFINE x == Backfilled(r, row[r])
             y == IF x.st = "processing" THEN Freed(x) ELSE x
  <2>1. x \in Rows /\ (x.st = "succeeded" => row[r].st = "succeeded")
    BY RowChanges DEF Typed, Backfilled
  <2>2. y \in Rows /\ y.st # "processing" /\ (y.st = "succeeded" => row[r].st = "succeeded")
    BY <2>1, RowChanges
  <2>3. Reconciled[r] = SkipUnsealed(r, y)
    BY DEF Reconciled
  <2> HIDE DEF y
  <2> QED BY <2>2, <2>3, RowChanges DEF SkipUnsealed
<1>2. Reconciled = [r \in Runs |-> Reconciled[r]]
  BY DEF Reconciled
<1>3. Reconciled \in [Runs -> Rows]
  BY <1>1, <1>2
<1> QED BY <1>1, <1>3 DEF Calm

AuditedRows == [r \in Runs |-> Audited(row[r], r)]

LEMMA AuditedCalm ==
    ASSUME Typed
    PROVE  /\ Calm(AuditedRows)
           /\ \A r \in Runs : AuditedRows[r].st = "succeeded" => r \in auditMap
<1>1. ASSUME NEW r \in Runs
      PROVE  /\ AuditedRows[r] \in Rows
             /\ AuditedRows[r] = row[r] \/ AuditedRows[r].st \in {"skipped", "pending"}
             /\ AuditedRows[r].st = "succeeded" => r \in auditMap
  <2>1. row[r] \in Rows /\ AuditedRows[r] = Audited(row[r], r)
    BY DEF Typed, AuditedRows
  <2> QED BY <2>1, RowChanges DEF Audited
<1>2. AuditedRows \in [Runs -> Rows]
  BY <1>1 DEF AuditedRows
<1> QED BY <1>1, <1>2 DEF Calm

LEMMA ReclaimedCalm ==
    ASSUME Typed
    PROVE  Calm(Reclaimed)
BY RowChanges DEF Typed, Calm, Reclaimed

LEMMA ClaimedRows ==
    ASSUME Typed, NEW c \in Claims
    PROVE  /\ Claimed(c[1], c[2]) \in [Runs -> Rows]
           /\ \A r \in Runs : Claimed(c[1], c[2])[r].st = "succeeded" =>
                 row[r].st = "succeeded" \/ r \in archived
           /\ c[1] # "none" => c[1] \in Runs
<1> DEFINE rows == Claimed(c[1], c[2])
<1>0. Reclaimed \in [Runs -> Rows]
  BY ReclaimedCalm DEF Calm
<1>1. ASSUME NEW r \in Runs
      PROVE  /\ rows[r] \in Rows
             /\ rows[r].st = "succeeded" => row[r].st = "succeeded" \/ r \in archived
  <2>1. CASE r = c[1]
    <3>1. rows[r] = Taken(Reclaimed[r])
      BY <2>1 DEF Claimed
    <3> QED BY <1>0, <3>1, TakenRow
  <2>2. CASE r # c[1]
    <3>1. rows[r] = Skipped(Reclaimed[r]) \/ rows[r] = Reclaimed[r]
      BY <2>2 DEF Claimed
    <3> QED BY <1>0, <3>1, ReclaimedCalm, RowChanges DEF Calm
  <2> QED BY <2>1, <2>2
<1>2. rows \in [Runs -> Rows]
  BY <1>1 DEF Claimed
<1>3. c[1] # "none" => c[1] \in Runs
  BY DEF Claims, ClaimableIn
<1> QED BY <1>1, <1>2, <1>3

LEMMA ClosedCalm ==
    ASSUME CaptureInv, NEW d \in Drains, pc[d] = "close"
    PROVE  Calm(Closed(d))
<1>1. PICK j \in Runs : j = job[d].run
  BY DEF CaptureInv, ClaimKept, Holding
<1>2. PICK o \in Outcomes : o = job[d].outcome
  BY DEF CaptureInv, ArchivedFirst
<1>3. o = "succeeded" => j \in archived
  BY <1>1, <1>2 DEF CaptureInv, ArchivedFirst
<1>4. row \in [Runs -> Rows]
  BY DEF CaptureInv, Typed
<1>5. /\ Freed(row[j]) \in Rows /\ Freed(row[j]).st = "pending"
  BY <1>4, RowChanges
<1>6. CASE o = "retry"
  <2>1. PICK y \in Rows : y = Freed(row[j]) /\ y.st = "pending"
    BY <1>5
  <2> DEFINE x == [y EXCEPT !.due = FALSE]
  <2>2. x \in Rows /\ x.st = "pending"
    BY <2>1 DEF Rows
  <2>3. Closed(d) = [row EXCEPT ![j] = x]
    BY <1>1, <1>2, <1>6, <2>1 DEF Closed
  <2> HIDE DEF x
  <2> QED BY <1>4, <2>2, <2>3 DEF Calm
<1>7. CASE o # "retry"
  <2>1. PICK y \in Rows : y = row[j]
    BY <1>4
  <2> DEFINE x == [y EXCEPT !.st = o, !.owner = 0, !.expired = FALSE]
  <2>2. x \in Rows /\ x.st = o
    BY <1>2, <1>7, <2>1 DEF Rows, Outcomes, Statuses
  <2>3. Closed(d) = [row EXCEPT ![j] = x]
    BY <1>1, <1>2, <1>7, <2>1 DEF Closed
  <2> HIDE DEF x
  <2> QED BY <1>3, <1>4, <1>7, <2>2, <2>3 DEF Calm, Outcomes
<1> QED BY <1>6, <1>7
LEMMA FreedCalm ==
    ASSUME Typed, NEW j \in Runs
    PROVE  Calm([row EXCEPT ![j] = Freed(@)])
BY RowChanges DEF Typed, Calm

ClaimEnds(d) == pc[d] = "claim" /\ pc'[d] \in {"off", "poll", "wait", "capture"}

\* A step leaves the rows calm, or ends the transaction of a claim.
LEMMA RowsKept ==
    ASSUME CaptureInv, Next
    PROVE  /\ row' \in [Runs -> Rows]
           /\ \A r \in Runs : row'[r].st = "succeeded" => row[r].st = "succeeded" \/ r \in archived
           /\ Calm(row') \/ \E d \in Drains : ClaimEnds(d)
<1> USE TasksSplit DEF outboxVars
<1>0. Typed
  BY DEF CaptureInv
<1>1. Calm(row) /\ Calm(Reconciled) /\ Calm(AuditedRows)
  BY <1>0, ReconciledCalm, AuditedCalm DEF Calm, Typed
<1>2. SUFFICES Calm(row') \/ \E d \in Drains : ClaimEnds(d) /\ \E c \in Claims : row' = Claimed(c[1], c[2])
  BY <1>0, ClaimedRows DEF Calm
<1>3. CASE CoordStep
  BY <1>1, <1>3 DEF CoordStep, Dispatch, TakeRequest, TaskReturns, Finished, RetryDelayEnds
<1>4. CASE \E t \in Refreshers : RefreshCancelled(t)
  BY <1>1, <1>4 DEF RefreshCancelled, AuditedRows
<1>5. CASE \E d \in Drains : DrainCancelled(d)
  <2>1. PICK d \in Drains : DrainCancelled(d)
    BY <1>5
  <2>2. CASE row' = row
    BY <1>1, <2>2
  <2>3. CASE pc[d] = "claim" /\ \E c \in Claims : row' = Claimed(c[1], c[2])
    BY <1>0, <2>1, <2>3 DEF DrainCancelled, ClaimEnds, Typed
  <2>4. CASE pc[d] = "close" /\ row' = Closed(d)
    BY <2>4, ClosedCalm
  <2> QED BY <2>1, <2>2, <2>3, <2>4 DEF DrainCancelled
<1>6. CASE StopDrains \/ StopCapture \/ Stopped \/ PollEnds
  BY <1>1, <1>6 DEF StopDrains, StopCapture, Stopped, PollEnds
<1>7. CASE TimePasses
  <2>1. PICK r \in Runs : RetryDue(r) \/ LeaseExpires(r)
    BY <1>7 DEF TimePasses
  <2>2. CASE RetryDue(r)
    BY <1>0, <2>2 DEF RetryDue, Calm, Typed, Rows
  <2>3. CASE LeaseExpires(r)
    BY <1>0, <2>3 DEF LeaseExpires, Calm, Typed, Rows
  <2> QED BY <2>1, <2>2, <2>3
<1>8. CASE \E t \in Refreshers : RefreshStep(t)
  BY <1>1, <1>8 DEF RefreshStep, PreloadBegins, PreloadEnds, Reconcile, Audit, Activated, AuditedRows
<1>9. CASE \E d \in Drains : DrainStep(d)
  <2>1. PICK d \in Drains : DrainStep(d)
    BY <1>9
  <2>2. CASE DrainBegins(d) \/ Capture(d) \/ PreloadBegins(d) \/ PreloadEnds(d)
    BY <1>1, <2>2 DEF DrainBegins, Capture, PreloadBegins, PreloadEnds
  <2>3. CASE Claim(d)
    BY <1>0, <2>3 DEF Claim, ClaimEnds, DrainEnd, Typed
  <2>4. CASE Close(d)
    BY <1>1, <2>4, ClosedCalm DEF Close
  <2>5. CASE Undo(d)
    <3>1. job[d].run \in Runs
      BY <2>5 DEF Undo, CaptureInv, ClaimKept, Holding
    <3> QED BY <1>0, <1>1, <2>5, <3>1, FreedCalm DEF Undo
  <2> QED BY <2>1, <2>2, <2>3, <2>4, <2>5 DEF DrainStep
<1>10. CASE \E r \in Runs : Publish(r)
  BY <1>0, <1>10, RowChanges DEF Publish, Calm, Typed
<1>11. CASE Environment /\ ~ \E r \in Runs : Publish(r)
  BY <1>1, <1>11 DEF Environment, Request, Boot, Restart, Rewarm, Stop, Crash, ResumeFails,
                     HistoryFails, DrainFails
<1> QED BY <1>3, <1>4, <1>5, <1>6, <1>7, <1>8, <1>9, <1>10, <1>11 DEF Next, StopStep

-----------------------------------------------------------------------------
(* Types.                                                                  *)

LEMMA PlaceSet ==
    ASSUME Typed, NEW t \in Tasks, NEW p \in Places
    PROVE  [pc EXCEPT ![t] = p] \in [Tasks -> Places]
BY DEF Typed

LEMMA EndPlaces ==
    /\ \A d \in Drains : DrainEnd(d) \in Places
    /\ \A t \in Refreshers : ResumeEnd(t) \in Places
    /\ {"off", "wait", "preload", "activate", "audit", "activated", "take", "sleep", "left", "done",
        "poll", "lock", "claim", "capture", "close", "undo"} = Places
BY DEF DrainEnd, ResumeEnd, Places

LEMMA PlacesTyped ==
    ASSUME Typed, Next
    PROVE  pc' \in [Tasks -> Places]
<1> USE TasksSplit, PlaceSet, EndPlaces
<1>1. CASE CoordStep
  BY <1>1 DEF CoordStep, Dispatch, TakeRequest, TaskReturns, Finished, RetryDelayEnds, Typed
<1>2. CASE StopStep
  <2>1. CASE \E d \in Drains : DrainCancelled(d)
    BY <2>1 DEF DrainCancelled
  <2>2. CASE StopStep /\ ~ \E d \in Drains : DrainCancelled(d)
    BY <2>2 DEF StopStep, RefreshCancelled, StopDrains, StopCapture, Stopped, Typed
  <2> QED BY <1>2, <2>1, <2>2
<1>3. CASE TimePasses \/ PollEnds
  BY <1>3 DEF TimePasses, RetryDue, LeaseExpires, PollEnds, Typed
<1>4. CASE \E t \in Refreshers : RefreshStep(t)
  <2>1. PICK t \in Refreshers : RefreshStep(t)
    BY <1>4
  <2>2. CASE Activated(t)
    BY <2>2 DEF Activated, Typed
  <2>3. CASE ~Activated(t)
    BY <2>1, <2>3 DEF RefreshStep, PreloadBegins, PreloadEnds, Reconcile, Audit
  <2> QED BY <2>2, <2>3
<1>5. CASE \E d \in Drains : DrainStep(d)
  <2>1. PICK d \in Drains : DrainStep(d)
    BY <1>5
  <2> QED BY <2>1 DEF DrainStep, DrainBegins, Claim, Capture, Close, Undo, PreloadBegins, PreloadEnds
<1>6. CASE Environment
  <2>1. CASE \E t \in Refreshers : ResumeFails(t) \/ HistoryFails(t)
    <3>1. PICK t \in Refreshers : ResumeFails(t) \/ HistoryFails(t)
      BY <2>1
    <3>2. CASE ResumeFails(t)
      BY <3>2 DEF ResumeFails
    <3>3. CASE HistoryFails(t)
      BY <3>3 DEF HistoryFails, Typed
    <3> QED BY <3>1, <3>2, <3>3
  <2>2. CASE \E d \in Drains : DrainFails(d)
    BY <2>2 DEF DrainFails
  <2>3. CASE \E r \in Runs : Publish(r)
    BY <2>3 DEF Publish, Typed
  <2>4. CASE Request \/ Boot \/ Restart \/ Rewarm \/ Stop
    BY <2>4 DEF Request, Boot, Restart, Rewarm, Stop, StartRuntime, Typed
  <2>5. CASE Crash
    BY <2>5 DEF Crash
  <2> QED BY <1>6, <2>1, <2>2, <2>3, <2>4, <2>5 DEF Environment
<1> QED BY <1>1, <1>2, <1>3, <1>4, <1>5, <1>6 DEF Next

-----------------------------------------------------------------------------
(* Requests.                                                               *)

LEMMA RequestsKept ==
    ASSUME CaptureInv, Next
    PROVE  RequestNotLost' /\ RequestsRevoked'
<1> USE TasksSplit DEF CaptureInv, RequestNotLost, RequestsRevoked, coordVars, lifeVars, Typed
<1>1. CASE CoordStep
  <2>1. CASE Dispatch
    BY <2>1 DEF Dispatch, TaskRuns
  <2>2. CASE TakeRequest
    BY <2>2 DEF TakeRequest
  <2>3. CASE TaskReturns \/ Finished \/ RetryDelayEnds
    BY <2>3 DEF TaskReturns, Finished, RetryDelayEnds
  <2> QED BY <1>1, <2>1, <2>2, <2>3 DEF CoordStep
<1>2. CASE StopStep
  BY <1>2 DEF StopStep, RefreshCancelled, DrainCancelled, StopDrains, StopCapture, Stopped
<1>3. CASE TimePasses \/ PollEnds
  BY <1>3 DEF TimePasses, RetryDue, LeaseExpires, PollEnds
<1>4. CASE \E t \in Refreshers : RefreshStep(t)
  BY <1>4 DEF RefreshStep, PreloadBegins, PreloadEnds, Reconcile, Audit, Activated, ResumeEnd
<1>5. CASE \E d \in Drains : DrainStep(d)
  BY <1>5 DEF DrainStep, DrainBegins, Claim, Capture, Close, Undo, PreloadBegins, PreloadEnds
<1>6. CASE \E t \in Refreshers : ResumeFails(t) \/ HistoryFails(t)
  BY <1>6 DEF ResumeFails, HistoryFails, TaskRuns, Refreshers
<1>7. CASE Environment /\ ~ \E t \in Refreshers : ResumeFails(t) \/ HistoryFails(t)
  <2>1. CASE Request
    BY <2>1 DEF Request, TaskRuns
  <2>2. CASE Boot \/ Restart
    BY <2>2 DEF Boot, Restart, StartRuntime
  <2>3. CASE Rewarm \/ Stop \/ Crash
    BY <2>3 DEF Rewarm, Stop, Crash
  <2>4. CASE \E r \in Runs : Publish(r)
    BY <2>4 DEF Publish
  <2>5. CASE \E d \in Drains : DrainFails(d)
    BY <2>5 DEF DrainFails, DrainEnd
  <2> QED BY <1>7, <2>1, <2>2, <2>3, <2>4, <2>5 DEF Environment
<1> QED BY <1>1, <1>2, <1>3, <1>4, <1>5, <1>6, <1>7 DEF Next
-----------------------------------------------------------------------------
(* Drains.                                                                 *)

\* What most steps do to the drains: none gets past the capture lock, and one
\* that has a claim in its hands had it before.
DrainsFollow ==
    \A d \in Drains :
        /\ Draining(d)' => Draining(d)
        /\ pc'[d] \in Holding => pc[d] \in Holding /\ job'[d] = job[d]
        /\ pc'[d] = "close" => pc[d] = "close"

DrainPart == OneDrains /\ ClaimKept /\ ArchivedFirst

LEMMA FollowKeepsDrains ==
    ASSUME CaptureInv, Next, DrainsFollow, archived \subseteq archived'
    PROVE  DrainPart'
<1>1. CASE Calm(row')
  <2>1. OneDrains'
    BY DEF CaptureInv, DrainsFollow, OneDrains
  <2>2. ASSUME NEW d \in Drains, pc'[d] \in Holding
        PROVE  /\ job'[d].run \in Runs
               /\ row'[job'[d].run].st = "processing" =>
                     row'[job'[d].run].attempts = job'[d].attempt
    BY <1>1, <2>2 DEF CaptureInv, DrainsFollow, ClaimKept, Calm
  <2>3. ASSUME NEW d \in Drains, pc'[d] = "close"
        PROVE  /\ job'[d].outcome \in Outcomes
               /\ job'[d].outcome = "succeeded" => job'[d].run \in archived'
    BY <2>3 DEF CaptureInv, DrainsFollow, ArchivedFirst, Holding
  <2> QED BY <2>1, <2>2, <2>3 DEF DrainPart, ClaimKept, ArchivedFirst
<1>2. CASE \E d \in Drains : ClaimEnds(d)
  <2>1. PICK d \in Drains : ClaimEnds(d)
    BY <1>2
  <2>2. \A e \in Drains : e # d => ~Draining(e)
    BY <2>1 DEF CaptureInv, OneDrains, Draining, ClaimEnds
  <2>3. \A e \in Drains : pc'[e] \notin Holding
    BY <2>1, <2>2 DEF DrainsFollow, Holding, Draining, ClaimEnds
  <2>4. OneDrains'
    BY DEF CaptureInv, DrainsFollow, OneDrains
  <2> QED BY <2>3, <2>4 DEF DrainPart, ClaimKept, ArchivedFirst, Holding
<1> QED BY <1>1, <1>2, RowsKept

\* A drain that begins finds the lock free.
LEMMA BeginKeepsDrains ==
    ASSUME CaptureInv, NEW d \in Drains, DrainBegins(d)
    PROVE  DrainPart'
<1>1. /\ pc' = [pc EXCEPT ![d] = "claim"] /\ pc \in [Tasks -> Places]
      /\ \A e \in Drains : ~Draining(e)
  BY DEF DrainBegins, CaptureFree, CaptureInv, Typed, Draining
<1>2. \A e \in Drains : Draining(e)' <=> e = d
  BY <1>1, TasksSplit DEF Draining
<1>3. \A e \in Drains : pc'[e] \notin Holding
  BY <1>1, TasksSplit DEF Draining, Holding
<1> QED BY <1>2, <1>3 DEF DrainPart, OneDrains, ClaimKept, ArchivedFirst, Holding

LEMMA ClaimKeepsDrains ==
    ASSUME CaptureInv, NEW d \in Drains, Claim(d)
    PROVE  DrainPart' /\ job'[d] \in Jobs
<1>1. pc \in [Tasks -> Places] /\ job \in [Drains -> Jobs] /\ d \in Tasks
  BY TasksSplit DEF CaptureInv, Typed
<1>2. \A e \in Drains : e # d => ~Draining(e)
  BY DEF CaptureInv, OneDrains, Claim, Draining
<1>3. \A e \in Drains : e # d => pc'[e] = pc[e]
  BY <1>1, TasksSplit DEF Claim
<1>4. OneDrains'
  BY <1>2, <1>3 DEF OneDrains, Draining
<1>5. PICK c \in Claims :
          /\ row' = Claimed(c[1], c[2])
          /\ IF c[1] = "none"
             THEN job' = [job EXCEPT ![d] = NoJob] /\ pc'[d] \in {"wait", "poll", "off"}
             ELSE /\ job' = [job EXCEPT ![d] = [run |-> c[1], attempt |-> row'[c[1]].attempts,
                                                outcome |-> "none"]]
                  /\ pc'[d] = "capture"
  BY <1>1 DEF Claim, DrainEnd
<1>6. row' \in [Runs -> Rows] /\ (c[1] # "none" => c[1] \in Runs)
  BY <1>5, ClaimedRows DEF CaptureInv
<1>7. CASE c[1] = "none"
  <2>1. job'[d] \in Jobs
    BY <1>1, <1>5, <1>7 DEF NoJob, Jobs
  <2>2. \A e \in Drains : pc'[e] \notin Holding
    BY <1>2, <1>3, <1>5, <1>7 DEF Holding, Draining
  <2> QED BY <1>4, <2>1, <2>2 DEF DrainPart, ClaimKept, ArchivedFirst, Holding
<1>8. CASE c[1] # "none"
  <2>1. PICK r \in Runs, n \in Nat : r = c[1] /\ n = row'[r].attempts
    BY <1>6, <1>8 DEF Rows
  <2>2. job'[d] = [run |-> r, attempt |-> n, outcome |-> "none"]
    BY <1>1, <1>5, <1>8, <2>1
  <2>3. \A e \in Drains : pc'[e] \in Holding => e = d
    BY <1>2, <1>3 DEF Holding, Draining
  <2>4. pc'[d] = "capture"
    BY <1>5, <1>8
  <2> QED BY <1>4, <2>1, <2>2, <2>3, <2>4 DEF DrainPart, ClaimKept, ArchivedFirst, Holding, Jobs
<1> QED BY <1>7, <1>8

LEMMA CaptureKeepsDrains ==
    ASSUME CaptureInv, NEW d \in Drains, Capture(d)
    PROVE  DrainPart' /\ job'[d] \in Jobs /\ archived \subseteq archived'
<1>1. pc \in [Tasks -> Places] /\ job \in [Drains -> Jobs] /\ d \in Tasks
  BY TasksSplit DEF CaptureInv, Typed
<1>2. \A e \in Drains : e # d => ~Draining(e)
  BY DEF CaptureInv, OneDrains, Capture, Draining
<1>3. \A e \in Drains : pc'[e] \in Holding => e = d
  BY <1>1, <1>2, TasksSplit DEF Capture, Holding, Draining
<1>4. OneDrains'
  BY <1>1, <1>2, TasksSplit DEF OneDrains, Draining, Capture
<1>5. PICK r \in Runs, n \in Nat :
          r = job[d].run /\ n = job[d].attempt /\ (row[r].st = "processing" => row[r].attempts = n)
  BY <1>1 DEF Jobs, CaptureInv, ClaimKept, Capture, Holding
<1>6. PICK o \in Outcomes :
          /\ o = "succeeded" => r \in archived'
          /\ archived \subseteq archived'
          /\ job' = [job EXCEPT ![d].outcome = o]
  <2>1. PICK q \in {"succeeded", "skipped", "retry"} :
            /\ q = "succeeded" => archived' = archived \cup {job[d].run}
            /\ q = "skipped"   => archived' \in {archived, archived \cup {job[d].run}}
            /\ q = "retry"     => archived' = archived
            /\ job' = [job EXCEPT ![d].outcome =
                         IF q = "retry" /\ job[d].attempt >= MaxAttempts THEN "skipped" ELSE q]
    BY DEF Capture
  <2>2. CASE q = "retry" /\ job[d].attempt >= MaxAttempts
    BY <2>1, <2>2 DEF Outcomes
  <2>3. CASE ~(q = "retry" /\ job[d].attempt >= MaxAttempts)
    BY <1>5, <2>1, <2>3 DEF Outcomes
  <2> QED BY <2>2, <2>3
<1>7. job'[d] \in Jobs /\ job'[d].run = r /\ job'[d].attempt = n /\ job'[d].outcome = o
  BY <1>1, <1>5, <1>6 DEF Jobs
<1>8. row' = row
  BY DEF Capture
<1> QED BY <1>3, <1>4, <1>5, <1>6, <1>7, <1>8 DEF DrainPart, ClaimKept, ArchivedFirst, Holding

\* The steps that only move a drain out of the lock's reach, or no drain at all.
LEMMA OthersFollow ==
    ASSUME CaptureInv, Next, ~ \E d \in Drains : DrainBegins(d) \/ Claim(d) \/ Capture(d), ~Boot
    PROVE  DrainsFollow /\ archived \subseteq archived' /\ job' \in [Drains -> Jobs]
<1> USE TasksSplit DEF drainVars, outboxVars
<1>0. /\ pc \in [Tasks -> Places] /\ job \in [Drains -> Jobs] /\ NoJob \in Jobs
      /\ {"off", "poll"} \cap Holding = {} /\ "close" \in Holding
  BY DEF CaptureInv, Typed, Jobs, NoJob, Holding
<1>1. CASE CoordStep
  BY <1>0, <1>1 DEF CoordStep, Dispatch, TakeRequest, TaskReturns, Finished, RetryDelayEnds,
                    DrainsFollow, Draining
<1>2. CASE \E t \in Refreshers : RefreshCancelled(t)
  BY <1>0, <1>2 DEF RefreshCancelled, DrainsFollow, Draining
<1>3. CASE \E d \in Drains : DrainCancelled(d)
  <2>1. PICK d \in Drains : DrainCancelled(d)
    BY <1>3
  <2>2. /\ pc' = [pc EXCEPT ![d] = IF pc[d] = "capture" THEN "undo" ELSE "off"]
        /\ job' = IF pc[d] = "capture" THEN job ELSE [job EXCEPT ![d] = NoJob]
        /\ archived \subseteq archived'
    BY <2>1 DEF DrainCancelled
  <2>3. DrainsFollow
    BY <1>0, <2>2 DEF DrainsFollow, Draining, Holding
  <2> QED BY <1>0, <2>2, <2>3
<1>4. CASE StopDrains \/ StopCapture \/ Stopped
  BY <1>0, <1>4 DEF StopDrains, StopCapture, Stopped, DrainsFollow, Draining, Holding
<1>5. CASE TimePasses \/ PollEnds
  BY <1>0, <1>5 DEF TimePasses, RetryDue, LeaseExpires, PollEnds, DrainsFollow, Draining, Holding
<1>6. CASE \E t \in Refreshers : RefreshStep(t)
  BY <1>0, <1>6 DEF RefreshStep, PreloadBegins, PreloadEnds, Reconcile, Audit, Activated,
                    DrainsFollow, Draining, Holding
<1>7. CASE \E d \in Drains : DrainStep(d)
  <2>1. PICK d \in Drains : DrainStep(d)
    BY <1>7
  <2>2. CASE Close(d)
    BY <1>0, <2>2 DEF Close, DrainEnd, DrainsFollow, Draining, Holding
  <2>3. CASE Undo(d)
    BY <1>0, <2>3 DEF Undo, DrainsFollow, Draining, Holding
  <2>4. CASE PreloadBegins(d) \/ PreloadEnds(d)
    BY <1>0, <2>4 DEF PreloadBegins, PreloadEnds, DrainEnd, DrainsFollow, Draining, Holding
  <2> QED BY <2>1, <2>2, <2>3, <2>4 DEF DrainStep
<1>8. CASE \E t \in Refreshers : ResumeFails(t) \/ HistoryFails(t)
  BY <1>0, <1>8 DEF ResumeFails, HistoryFails, DrainsFollow, Draining, Holding
<1>9. CASE \E d \in Drains : DrainFails(d)
  BY <1>0, <1>9 DEF DrainFails, DrainEnd, DrainsFollow, Draining, Holding
<1>10. CASE \E r \in Runs : Publish(r)
  BY <1>0, <1>10 DEF Publish, DrainsFollow, Draining, Holding
<1>11. CASE Request \/ Restart \/ Rewarm \/ Stop
  BY <1>0, <1>11 DEF Request, Restart, StartRuntime, Rewarm, Stop, DrainsFollow, Draining
<1>12. CASE Crash
  BY <1>0, <1>12 DEF Crash, DrainsFollow, Draining, Holding
<1> QED BY <1>1, <1>2, <1>3, <1>4, <1>5, <1>6, <1>7, <1>8, <1>9, <1>10, <1>11, <1>12
        DEF Next, StopStep, Environment

LEMMA BootKeepsDrains ==
    ASSUME CaptureInv, Boot
    PROVE  DrainPart' /\ job' \in [Drains -> Jobs]
<1>1. \A d \in Drains : pc'[d] = "off"
  BY TasksSplit DEF Boot, StartRuntime, CaptureInv, DownIsEmpty, Typed
<1> QED BY <1>1 DEF DrainPart, OneDrains, Draining, ClaimKept, ArchivedFirst, Holding, Boot,
                    drainVars, CaptureInv, Typed

LEMMA DrainsKept ==
    ASSUME CaptureInv, Next
    PROVE  DrainPart' /\ job' \in [Drains -> Jobs]
<1>1. CASE Boot
  BY <1>1, BootKeepsDrains
<1>2. ASSUME NEW d \in Drains, DrainBegins(d) \/ Claim(d) \/ Capture(d)
      PROVE  DrainPart' /\ job' \in [Drains -> Jobs]
  <2>1. DrainPart' /\ (job' = job \/ job'[d] \in Jobs)
    BY <1>2, BeginKeepsDrains, ClaimKeepsDrains, CaptureKeepsDrains DEF DrainBegins
  <2>2. \E j : job' = [job EXCEPT ![d] = j]
    BY <1>2 DEF DrainBegins, Claim, Capture, CaptureInv, Typed
  <2> QED BY <2>1, <2>2 DEF CaptureInv, Typed
<1>3. CASE ~Boot /\ ~ \E d \in Drains : DrainBegins(d) \/ Claim(d) \/ Capture(d)
  BY <1>3, OthersFollow, FollowKeepsDrains
<1> QED BY <1>1, <1>2, <1>3

-----------------------------------------------------------------------------
(* Archives.                                                               *)

ArchivePart == DownIsEmpty /\ NamedIsArchived

ActivatedNow == \E t \in Refreshers : pc[t] = "activated"

\* A step that loses no archive, publishes only what is on disk, and ends no
\* audit.
ArchiveFollows ==
    /\ archived \subseteq archived'
    /\ index' \subseteq index \cup archived
    /\ auditMap' \subseteq auditMap \cup index
    /\ audited' \/ ActivatedNow' => audited \/ ActivatedNow
    /\ life' = "down" => life = "down" /\ UNCHANGED <<index, auditMap, audited>>
                         /\ \A d \in Drains : pc[d] = "off" => pc'[d] = "off"

LEMMA FollowKeepsArchive ==
    ASSUME CaptureInv, Next, ArchiveFollows
    PROVE  ArchivePart'
<1>1. Succeeded' \subseteq Succeeded \cup archived
  BY RowsKept DEF Succeeded
<1>2. NamedIsArchived'
  BY <1>1 DEF CaptureInv, NamedIsArchived, ArchiveFollows, ActivatedNow
<1>3. DownIsEmpty'
  BY DEF CaptureInv, DownIsEmpty, ArchiveFollows, ActivatedNow
<1> QED BY <1>2, <1>3 DEF ArchivePart

LEMMA AuditKeepsArchive ==
    ASSUME CaptureInv, NEW t \in Refreshers, Audit(t)
    PROVE  ArchivePart'
<1>1. Succeeded' \subseteq auditMap
  BY AuditedCalm DEF CaptureInv, Audit, Succeeded, AuditedRows
<1> QED BY <1>1 DEF CaptureInv, NamedIsArchived, DownIsEmpty, ArchivePart, Audit, indexVars, auditVars,
                    lifeVars

LEMMA ArchiveKept ==
    ASSUME CaptureInv, Next
    PROVE  ArchivePart'
<1> USE TasksSplit DEF outboxVars, indexVars, auditVars, lifeVars
<1>0. pc \in [Tasks -> Places]
  BY DEF CaptureInv, Typed
<1>1. CASE Boot
  <2>1. /\ index' = {} /\ auditMap' = {} /\ ~audited' /\ life' = "up"
        /\ \A t \in Refreshers : pc'[t] # "activated"
    BY <1>0, <1>1 DEF Boot, StartRuntime, CaptureInv, DownIsEmpty
  <2> QED BY <2>1 DEF ArchivePart, NamedIsArchived, DownIsEmpty
<1>2. CASE Crash
  <2>1. /\ index' = {} /\ auditMap' = {} /\ ~audited' /\ \A t \in Tasks : pc'[t] = "off"
    BY <1>2 DEF Crash
  <2> QED BY <2>1 DEF ArchivePart, NamedIsArchived, DownIsEmpty
<1>3. CASE \E t \in Refreshers : Audit(t)
  BY <1>3, AuditKeepsArchive
<1>4. CASE CoordStep
  <2>1. /\ UNCHANGED <<archived, index, auditMap, audited, life>>
        /\ \A d \in Drains : pc'[d] = pc[d]
        /\ \A t \in Refreshers : pc'[t] = pc[t] \/ pc'[t] # "activated"
    <3>1. CASE Dispatch \/ TakeRequest
      BY <1>0, <3>1 DEF Dispatch, TakeRequest
    <3>2. CASE TaskReturns \/ Finished \/ RetryDelayEnds
      BY <1>0, <3>2 DEF TaskReturns, Finished, RetryDelayEnds
    <3> QED BY <1>4, <3>1, <3>2 DEF CoordStep
  <2> QED BY <2>1, FollowKeepsArchive DEF ArchiveFollows, ActivatedNow
<1>5. CASE \E t \in Refreshers : RefreshCancelled(t)
  BY <1>0, <1>5, FollowKeepsArchive DEF RefreshCancelled, ArchiveFollows, ActivatedNow
<1>6. CASE \E d \in Drains : DrainCancelled(d)
  BY <1>0, <1>6, FollowKeepsArchive DEF DrainCancelled, ArchiveFollows, ActivatedNow
<1>7. CASE StopDrains \/ StopCapture \/ Stopped
  BY <1>0, <1>7, FollowKeepsArchive DEF StopDrains, StopCapture, Stopped, ArchiveFollows, ActivatedNow
<1>8. CASE TimePasses \/ PollEnds
  BY <1>0, <1>8, FollowKeepsArchive
     DEF TimePasses, RetryDue, LeaseExpires, PollEnds, ArchiveFollows, ActivatedNow
<1>9. ASSUME NEW t \in Refreshers, RefreshStep(t), ~Audit(t)
      PROVE  ArchivePart'
  BY <1>0, <1>9, FollowKeepsArchive
     DEF RefreshStep, PreloadBegins, PreloadEnds, Reconcile, Activated, ResumeEnd, ArchiveFollows,
         ActivatedNow
<1>10. ASSUME NEW d \in Drains, DrainStep(d)
       PROVE  ArchivePart'
  <2>1. CASE DrainBegins(d) \/ Claim(d) \/ Close(d) \/ Undo(d)
    BY <1>0, <2>1, FollowKeepsArchive
       DEF DrainBegins, Claim, Close, Undo, ArchiveFollows, ActivatedNow, CaptureInv, DownIsEmpty
  <2>2. CASE PreloadBegins(d) \/ PreloadEnds(d)
    BY <1>0, <2>2, FollowKeepsArchive
       DEF PreloadBegins, PreloadEnds, ArchiveFollows, ActivatedNow, CaptureInv, DownIsEmpty
  <2>3. CASE Capture(d)
    <3>1. archived \subseteq archived'
      BY <2>3, CaptureKeepsDrains
    <3> QED BY <1>0, <2>3, <3>1, FollowKeepsArchive
            DEF Capture, ArchiveFollows, ActivatedNow, CaptureInv, DownIsEmpty
  <2> QED BY <1>10, <2>1, <2>2, <2>3 DEF DrainStep
<1>11. CASE \E t \in Refreshers : ResumeFails(t) \/ HistoryFails(t)
  BY <1>0, <1>11, FollowKeepsArchive DEF ResumeFails, HistoryFails, ArchiveFollows, ActivatedNow
<1>12. CASE \E d \in Drains : DrainFails(d)
  BY <1>0, <1>12, FollowKeepsArchive
     DEF DrainFails, ArchiveFollows, ActivatedNow, CaptureInv, DownIsEmpty
<1>13. CASE \E r \in Runs : Publish(r)
  BY <1>0, <1>13, FollowKeepsArchive DEF Publish, ArchiveFollows, ActivatedNow
<1>14. CASE Request \/ Restart \/ Rewarm \/ Stop
  BY <1>0, <1>14, FollowKeepsArchive
     DEF Request, Restart, StartRuntime, Rewarm, Stop, ArchiveFollows, ActivatedNow
<1> QED BY <1>1, <1>2, <1>3, <1>4, <1>5, <1>6, <1>7, <1>8, <1>9, <1>10, <1>11, <1>12, <1>13, <1>14
        DEF Next, StopStep, Environment

-----------------------------------------------------------------------------
(* The invariant.                                                          *)

LEMMA ScalarsTyped ==
    ASSUME Typed, Next
    PROVE  /\ owner' \in Nat /\ starts' \in Nat
           /\ requested' \in BOOLEAN /\ queued' \in BOOLEAN /\ unserved' \in BOOLEAN
<1> USE DEF Typed, coordVars, lifeVars
<1>1. CASE CoordStep \/ StopStep
  BY <1>1 DEF CoordStep, Dispatch, TakeRequest, TaskReturns, Finished, RetryDelayEnds, StopStep,
              RefreshCancelled, DrainCancelled, StopDrains, StopCapture, Stopped
<1>2. CASE TimePasses \/ PollEnds
  BY <1>2 DEF TimePasses, RetryDue, LeaseExpires, PollEnds
<1>3. CASE \E t \in Refreshers : RefreshStep(t)
  BY <1>3 DEF RefreshStep, PreloadBegins, PreloadEnds, Reconcile, Audit, Activated
<1>4. CASE \E d \in Drains : DrainStep(d)
  BY <1>4 DEF DrainStep, DrainBegins, Claim, Capture, Close, Undo, PreloadBegins, PreloadEnds
<1>5. CASE Environment
  <2>1. CASE Request \/ Rewarm \/ Stop
    BY <2>1 DEF Request, Rewarm, Stop, TaskRuns
  <2>4. CASE Boot
    <3>1. starts' = starts + 1 /\ owner' = starts + 1 /\ UNCHANGED coordVars
      BY <2>4 DEF Boot, StartRuntime
    <3> QED BY <3>1
  <2>5. CASE Restart
    <3>1. starts' = starts + 1 /\ owner' = owner /\ UNCHANGED coordVars
      BY <2>5 DEF Restart, StartRuntime
    <3> QED BY <3>1
  <2>6. CASE Crash
    BY <2>6 DEF Crash
  <2>2. CASE \E t \in Refreshers : ResumeFails(t) \/ HistoryFails(t)
    BY <2>2 DEF ResumeFails, HistoryFails, TaskRuns
  <2>3. CASE (\E r \in Runs : Publish(r)) \/ \E d \in Drains : DrainFails(d)
    BY <2>3 DEF Publish, DrainFails
  <2> QED BY <1>5, <2>1, <2>2, <2>3, <2>4, <2>5, <2>6 DEF Environment
<1> QED BY <1>1, <1>2, <1>3, <1>4, <1>5 DEF Next

LEMMA InitHasCaptureInv ==
    ASSUME Init
    PROVE  CaptureInv
<1>1. Typed
  <2>1. \A st \in {"none", "missing", "pending"} : Blank(st) \in Rows
    BY DEF Blank, Rows, Statuses
  <2>2. row \in [Runs -> Rows]
    BY <2>1 DEF Init
  <2>3. NoJob \in Jobs /\ "off" \in Places
    BY DEF NoJob, Jobs, Places
  <2> QED BY <2>2, <2>3 DEF Init, Typed
<1>2. \A d \in Drains : pc[d] = "off"
  BY TasksSplit DEF Init
<1>3. \A t \in Refreshers : pc[t] = "off"
  BY TasksSplit DEF Init
<1> QED BY <1>1, <1>2, <1>3
        DEF Init, CaptureInv, RequestNotLost, RequestsRevoked, OneDrains, Draining, ClaimKept,
            ArchivedFirst, Holding, DownIsEmpty, NamedIsArchived

LEMMA CaptureInvInductive ==
    ASSUME CaptureInv, [Next]_vars
    PROVE  CaptureInv'
<1>1. CASE Next
  <2>1. Typed'
    BY <1>1, RowsKept, PlacesTyped, DrainsKept, ScalarsTyped DEF Typed, CaptureInv
  <2> QED BY <1>1, <2>1, RequestsKept, DrainsKept, ArchiveKept DEF CaptureInv, DrainPart, ArchivePart
<1>2. CASE UNCHANGED vars
  <2>1. Typed' /\ RequestNotLost' /\ RequestsRevoked'
    BY <1>2 DEF vars, outboxVars, drainVars, coordVars, lifeVars, CaptureInv, Typed, RequestNotLost,
                RequestsRevoked
  <2>2. OneDrains' /\ ClaimKept' /\ ArchivedFirst'
    BY <1>2 DEF vars, outboxVars, drainVars, CaptureInv, OneDrains, Draining, ClaimKept, ArchivedFirst
  <2>3. DownIsEmpty' /\ NamedIsArchived'
    BY <1>2 DEF vars, outboxVars, indexVars, auditVars, lifeVars, CaptureInv, DownIsEmpty,
                NamedIsArchived, Succeeded
  <2> QED BY <2>1, <2>2, <2>3 DEF CaptureInv
<1> QED BY <1>1, <1>2

\* Two drains never hold the capture lock, a claim is closed by the drain that
\* made it, and what is remembered is on disk, in every reachable state.
THEOREM CaptureInvariant == Spec => []CaptureInv
<1> QED BY InitHasCaptureInv, CaptureInvInductive, PTL DEF Spec

\* A refresh request accepted from a query thread is never lost, whatever the
\* order of the refresh task's end, its callback, a stop and a restart
\* (ProbabilityResearchRefreshCoordinator._request, _finished).
THEOREM RequestsSurvive == Spec => []RequestNotLost
<1>1. CaptureInv => RequestNotLost
  BY DEF CaptureInv
<1> QED BY CaptureInvariant, <1>1, PTL

\* A drain closes, or gives back, only the claim it made, although leases
\* expire and reconciliation revokes them (finish_probability_source_capture).
THEOREM OutcomesMatchClaims == Spec => []OutcomeMatchesClaim
<1>1. CaptureInv => OutcomeMatchesClaim
  BY DEF CaptureInv, ClaimKept, Holding, OutcomeMatchesClaim, Holds
<1> QED BY CaptureInvariant, <1>1, PTL

\* Once the archives were audited, a row that claims success has its archive
\* (audit_probability_source_capture_archives).
THEOREM SuccessesAreArchived == Spec => []SuccessIsArchived
<1>1. CaptureInv => SuccessIsArchived
  BY DEF CaptureInv, NamedIsArchived, SuccessIsArchived
<1> QED BY CaptureInvariant, <1>1, PTL
=============================================================================
