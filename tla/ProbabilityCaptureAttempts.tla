---------------------- MODULE ProbabilityCaptureAttempts ----------------------
(***************************************************************************)
(* How often a scan can be tried for its archive, whatever is revoked,     *)
(* cancelled, restarted and retried meanwhile, and with it the types of    *)
(* ProbabilityCapture, for every value of its constants.                   *)
(*                                                                         *)
(* The attempts of a row are no counter with a guard: a claim raises them, *)
(* and MaxAttempts stops only the retries of a capture that failed.  A row *)
(* whose claim was taken away (by a reconciliation, an audit, a            *)
(* cancellation or a crash) is claimed again.  The argument pays for each  *)
(* of these: a start, a refresh request and a failure earn Credit, every   *)
(* revocation that is still to come is owed (Owed), and a row that may be  *)
(* claimed once more weighs one attempt more (Load).  No step makes a row  *)
(* heavier than what the step pays off.                                    *)
(***************************************************************************)
EXTENDS ProbabilityCaptureProofs

-----------------------------------------------------------------------------
(* The life of a process: which task is where, and when.                   *)

Lives == {"down", "up", "stopping", "draining", "ending", "stopped"}

LifeInv ==
    /\ life \in Lives
    /\ life # "up" => ~requested /\ ~queued
    /\ life \notin {"up", "stopping"} => \A t \in Refreshers : pc[t] = "off"
    /\ life \in {"ending", "stopped", "down"} => pc["scan"] = "off"
    /\ life \in {"stopped", "down"} => pc["worker"] = "off"
    /\ pc["worker"] = "undo" => life = "ending"
    /\ pc["scan"] = "undo" => life = "stopping"
    /\ life = "down" => owner = 0
    /\ life # "down" => owner \in 1..starts

\* One task activates the capture at a time, and the audit is done once.
Activating(t) == pc[t] \in {"audit", "activated"}
OneActivates ==
    /\ ~(Activating("warm") /\ Activating("coord"))
    /\ \A t \in Refreshers : pc[t] = "audit" => ~audited

LEMMA Names ==
    /\ \A t \in Refreshers : t = "warm" \/ t = "coord"
    /\ \A d \in Drains : d = "worker" \/ d = "scan"
    /\ Refreshers \subseteq Tasks /\ Drains \subseteq Tasks
    /\ "warm" \in Refreshers /\ "coord" \in Refreshers
    /\ "worker" \in Drains /\ "scan" \in Drains
    /\ {"warm", "coord", "worker", "scan"} \subseteq Tasks
    /\ \A t \in Tasks : t \in {"warm", "coord", "worker", "scan"}
BY DEF Tasks, Refreshers, Drains

LEMMA LifeKept ==
    ASSUME CaptureInv, LifeInv, Next
    PROVE  LifeInv'
<1> USE Names DEF lifeVars
<1>0. pc \in [Tasks -> Places] /\ starts \in Nat /\ owner \in Nat
  BY DEF CaptureInv, Typed
<1>1. CASE CoordStep
  <2>1. CASE Dispatch
    BY <1>0, <2>1 DEF Dispatch, LifeInv
  <2>2. CASE TakeRequest
    BY <1>0, <2>2 DEF TakeRequest, LifeInv
  <2>3. CASE TaskReturns \/ RetryDelayEnds
    BY <1>0, <2>3 DEF TaskReturns, RetryDelayEnds, LifeInv, coordVars
  <2>4. CASE Finished
    BY <1>0, <2>4 DEF Finished, LifeInv
  <2> QED BY <1>1, <2>1, <2>2, <2>3, <2>4 DEF CoordStep
<1>2. CASE \E t \in Refreshers : RefreshCancelled(t)
  BY <1>0, <1>2 DEF RefreshCancelled, LifeInv, coordVars
<1>3. CASE \E d \in Drains : DrainCancelled(d)
  BY <1>0, <1>3 DEF DrainCancelled, LifeInv, coordVars
<1>4. CASE StopDrains
  BY <1>0, <1>4 DEF StopDrains, LifeInv, Lives, coordVars
<1>5. CASE StopCapture \/ Stopped
  BY <1>0, <1>5 DEF StopCapture, Stopped, LifeInv, Lives, coordVars
<1>6. CASE TimePasses \/ PollEnds
  BY <1>0, <1>6 DEF TimePasses, RetryDue, LeaseExpires, PollEnds, LifeInv, coordVars
<1>7. CASE \E t \in Refreshers : RefreshStep(t)
  <2>1. PICK t \in Refreshers : RefreshStep(t)
    BY <1>7
  <2>2. CASE PreloadBegins(t) \/ PreloadEnds(t)
    BY <1>0, <2>2 DEF PreloadBegins, PreloadEnds, LifeInv, coordVars
  <2>3. CASE Reconcile(t) \/ Audit(t)
    BY <1>0, <2>3 DEF Reconcile, Audit, LifeInv, coordVars
  <2>4. CASE Activated(t)
    BY <1>0, <2>4 DEF Activated, LifeInv, coordVars
  <2> QED BY <2>1, <2>2, <2>3, <2>4 DEF RefreshStep
<1>8. CASE \E d \in Drains : DrainStep(d)
  <2>1. PICK d \in Drains : DrainStep(d)
    BY <1>8
  <2>2. CASE PreloadBegins(d) \/ PreloadEnds(d) \/ DrainBegins(d) \/ Capture(d)
    BY <1>0, <2>2 DEF PreloadBegins, PreloadEnds, DrainBegins, Capture, DrainEnd, LifeInv, coordVars
  <2>3. CASE Claim(d) \/ Close(d)
    BY <1>0, <2>3 DEF Claim, Close, DrainEnd, LifeInv, coordVars
  <2>4. CASE Undo(d)
    BY <1>0, <2>4 DEF Undo, LifeInv, coordVars
  <2> QED BY <2>1, <2>2, <2>3, <2>4 DEF DrainStep
<1>9. CASE \E t \in Refreshers : ResumeFails(t) \/ HistoryFails(t)
  BY <1>0, <1>9 DEF ResumeFails, HistoryFails, LifeInv
<1>10. CASE \E d \in Drains : DrainFails(d)
  BY <1>0, <1>10 DEF DrainFails, DrainEnd, LifeInv, coordVars
<1>11. CASE \E r \in Runs : Publish(r)
  BY <1>0, <1>11 DEF Publish, LifeInv, coordVars
<1>12. CASE Request \/ Rewarm \/ Stop
  BY <1>0, <1>12 DEF Request, Rewarm, Stop, LifeInv, Lives, coordVars
<1>13. CASE Boot
  <2>1. starts' = starts + 1 /\ owner' = starts + 1 /\ life' = "up"
        /\ pc' = [pc EXCEPT !["warm"] = "wait"]
    BY <1>13 DEF Boot, StartRuntime
  <2>2. \A t \in Tasks : pc[t] = "off"
    BY <1>13 DEF Boot, LifeInv
  <2> QED BY <1>0, <2>1, <2>2 DEF LifeInv, Lives
<1>14. CASE Restart
  <2>1. starts' = starts + 1 /\ owner' = owner /\ life' = "up"
        /\ pc' = [pc EXCEPT !["warm"] = "wait"]
    BY <1>14 DEF Restart, StartRuntime
  <2>2. (\A t \in Tasks : pc[t] = "off") /\ owner \in 1..starts
    BY <1>14 DEF Restart, LifeInv
  <2> QED BY <1>0, <2>1, <2>2 DEF LifeInv, Lives
<1>15. CASE Crash
  BY <1>0, <1>15 DEF Crash, LifeInv, Lives
<1> QED BY <1>1, <1>2, <1>3, <1>4, <1>5, <1>6, <1>7, <1>8, <1>9, <1>10, <1>11, <1>12, <1>13,
           <1>14, <1>15 DEF Next, StopStep, Environment

LEMMA OneActivatesKept ==
    ASSUME CaptureInv, LifeInv, OneActivates, Next
    PROVE  OneActivates'
<1> USE Names DEF OneActivates, Activating
<1>0. pc \in [Tasks -> Places]
  BY DEF CaptureInv, Typed
\* Most steps start no activation, and the flag is set by the task that activates.
<1>1. ASSUME \A t \in Refreshers : pc'[t] = pc[t] \/ pc'[t] \notin {"audit", "activated"},
             audited' = audited
      PROVE  OneActivates'
  BY <1>1
<1>2. CASE CoordStep
  BY <1>0, <1>1, <1>2 DEF CoordStep, Dispatch, TakeRequest, TaskReturns, Finished, RetryDelayEnds,
                          auditVars
<1>3. CASE StopStep
  <2>1. CASE \E t \in Refreshers : RefreshCancelled(t)
    BY <1>0, <1>1, <2>1 DEF RefreshCancelled, auditVars
  <2>2. CASE \E d \in Drains : DrainCancelled(d)
    BY <1>0, <1>1, <2>2 DEF DrainCancelled, auditVars
  <2>3. CASE StopDrains \/ StopCapture \/ Stopped
    BY <1>0, <1>1, <2>3 DEF StopDrains, StopCapture, Stopped, auditVars
  <2> QED BY <1>3, <2>1, <2>2, <2>3 DEF StopStep
<1>4. CASE TimePasses \/ PollEnds
  BY <1>0, <1>1, <1>4 DEF TimePasses, RetryDue, LeaseExpires, PollEnds, auditVars
<1>5. ASSUME NEW t \in Refreshers, RefreshStep(t)
      PROVE  OneActivates'
  <2>1. CASE PreloadBegins(t) \/ PreloadEnds(t)
    BY <1>0, <1>1, <1>5, <2>1 DEF PreloadBegins, PreloadEnds, auditVars
  <2>2. CASE Reconcile(t)
    BY <1>0, <1>5, <2>2 DEF Reconcile, ActivationFree
  <2>3. CASE Audit(t)
    BY <1>0, <1>5, <2>3 DEF Audit, auditVars
  <2>4. CASE Activated(t)
    BY <1>0, <1>5, <2>4 DEF Activated, ResumeEnd
  <2> QED BY <1>5, <2>1, <2>2, <2>3, <2>4 DEF RefreshStep
<1>6. ASSUME NEW d \in Drains, DrainStep(d)
      PROVE  OneActivates'
  <2>1. \A t \in Refreshers : t # d
    BY TasksSplit
  <2>2. CASE PreloadBegins(d) \/ PreloadEnds(d) \/ DrainBegins(d) \/ Capture(d)
    BY <1>0, <1>1, <2>1, <2>2 DEF PreloadBegins, PreloadEnds, DrainBegins, Capture, auditVars
  <2>3. CASE Claim(d) \/ Close(d) \/ Undo(d)
    BY <1>0, <1>1, <2>1, <2>3 DEF Claim, Close, Undo, auditVars
  <2> QED BY <1>6, <2>2, <2>3 DEF DrainStep
<1>7. ASSUME NEW t \in Refreshers, ResumeFails(t)
      PROVE  OneActivates'
  BY <1>0, <1>1, <1>7 DEF ResumeFails, auditVars
<1>8. ASSUME NEW t \in Refreshers, HistoryFails(t)
      PROVE  OneActivates'
  BY <1>0, <1>8 DEF HistoryFails
<1>9. CASE \E d \in Drains : DrainFails(d)
  BY <1>0, <1>1, <1>9 DEF DrainFails, auditVars
<1>10. CASE \E r \in Runs : Publish(r)
  BY <1>0, <1>1, <1>10 DEF Publish, auditVars
<1>11. CASE Request \/ Rewarm \/ Stop
  BY <1>0, <1>1, <1>11 DEF Request, Rewarm, Stop, auditVars
<1>12. CASE Boot \/ Restart
  BY <1>0, <1>1, <1>12 DEF Boot, Restart, StartRuntime, auditVars
<1>13. CASE Crash
  BY <1>13 DEF Crash
<1> QED BY <1>2, <1>3, <1>4, <1>5, <1>6, <1>7, <1>8, <1>9, <1>10, <1>11, <1>12, <1>13
        DEF Next, Environment
-----------------------------------------------------------------------------
(* The rows: a row in progress has an owner of the past or the present, and *)
(* only rows in progress have a lease that can run out.                     *)

RowSound(x) ==
    /\ x.expired => x.st = "processing"
    /\ (x.st = "processing") <=> (x.owner # 0)
    /\ x.owner <= starts

Sound(rows) == \A r \in Runs : RowSound(rows[r])

RowsSound == Sound(row)

\* Rows whose attempts a change leaves alone or sets back.
Lighter(rows) == \A r \in Runs : rows[r].attempts <= row[r].attempts

LEMMA RowSoundChanges ==
    ASSUME Typed, NEW x \in Rows
    PROVE  /\ RowSound(Freed(x)) /\ Freed(x).attempts = x.attempts
           /\ RowSound(Skipped(x)) /\ Skipped(x).attempts = x.attempts
           /\ RowSound(Blank("pending")) /\ Blank("pending").attempts = 0
BY DEF Freed, Skipped, Blank, Rows, RowSound, Typed

LEMMA ReconciledSound ==
    ASSUME Typed, RowsSound
    PROVE  Sound(Reconciled) /\ Lighter(Reconciled)
<1> SUFFICES ASSUME NEW r \in Runs
             PROVE  RowSound(Reconciled[r]) /\ Reconciled[r].attempts <= row[r].attempts
  BY DEF Sound, Lighter
<1> DEFINE x == Backfilled(r, row[r])
           y == IF x.st = "processing" THEN Freed(x) ELSE x
<1>1. row[r] \in Rows /\ RowSound(row[r])
  BY DEF Typed, RowsSound, Sound
<1>2. x \in Rows /\ RowSound(x) /\ x.attempts <= row[r].attempts
  BY <1>1, RowChanges, RowSoundChanges DEF Backfilled, Rows
<1> HIDE DEF x
<1>3. y \in Rows /\ RowSound(y) /\ y.attempts <= row[r].attempts
  BY <1>2, RowChanges, RowSoundChanges
<1>4. Reconciled[r] = SkipUnsealed(r, y)
  BY DEF Reconciled, x
<1> HIDE DEF y
<1> QED BY <1>3, <1>4, RowSoundChanges DEF SkipUnsealed

LEMMA AuditedSound ==
    ASSUME Typed, RowsSound
    PROVE  Sound(AuditedRows) /\ Lighter(AuditedRows)
<1> SUFFICES ASSUME NEW r \in Runs
             PROVE  RowSound(AuditedRows[r]) /\ AuditedRows[r].attempts <= row[r].attempts
  BY DEF Sound, Lighter
<1>1. row[r] \in Rows /\ RowSound(row[r]) /\ AuditedRows[r] = Audited(row[r], r)
  BY DEF Typed, RowsSound, Sound, AuditedRows
<1>2. AuditedRows[r] = row[r] \/ AuditedRows[r] = Skipped(row[r]) \/ AuditedRows[r] = Freed(row[r])
  BY <1>1 DEF Audited
<1> QED BY <1>1, <1>2, RowSoundChanges DEF Rows

\* A claim takes one row that waited, or whose lease ran out, and tries it once more.
LEMMA ClaimedSound ==
    ASSUME Typed, RowsSound, NEW c \in Claims, owner \in 1..starts
    PROVE  /\ Sound(Claimed(c[1], c[2]))
           /\ \A r \in Runs : r # c[1] =>
                 /\ Claimed(c[1], c[2])[r].attempts = row[r].attempts
                 /\ \/ Claimed(c[1], c[2])[r] = row[r]
                    \/ Claimed(c[1], c[2])[r].st = "skipped"
                    \/ row[r].st = "processing" /\ Claimed(c[1], c[2])[r].st = "pending"
           /\ c[1] # "none" =>
                 /\ c[1] \in Runs
                 /\ row[c[1]].st \in {"pending", "processing"}
                 /\ Claimed(c[1], c[2])[c[1]].attempts = row[c[1]].attempts + 1
                 /\ Claimed(c[1], c[2])[c[1]].st = "processing"
                 /\ Claimed(c[1], c[2])[c[1]].owner = owner
<1> DEFINE rows == Claimed(c[1], c[2])
<1>1. ASSUME NEW r \in Runs
      PROVE  /\ Reclaimed[r] \in Rows /\ RowSound(Reclaimed[r])
             /\ Reclaimed[r].attempts = row[r].attempts
             /\ Reclaimed[r] = row[r] \/ (row[r].st = "processing" /\ Reclaimed[r].st = "pending")
  <2>1. row[r] \in Rows /\ RowSound(row[r])
    BY DEF Typed, RowsSound, Sound
  <2>2. Reclaimed[r] = IF row[r].expired THEN Freed(row[r]) ELSE row[r]
    BY DEF Reclaimed
  <2>3. row[r].expired => row[r].st = "processing"
    BY <2>1 DEF RowSound
  <2> QED BY <2>1, <2>2, <2>3, RowChanges, RowSoundChanges
<1>2. ASSUME NEW r \in Runs, r # c[1]
      PROVE  /\ RowSound(rows[r]) /\ rows[r].attempts = row[r].attempts
             /\ \/ rows[r] = row[r] \/ rows[r].st = "skipped"
                \/ row[r].st = "processing" /\ rows[r].st = "pending"
  <2>1. rows[r] = Skipped(Reclaimed[r]) \/ rows[r] = Reclaimed[r]
    BY <1>2 DEF Claimed
  <2>2. Skipped(Reclaimed[r]).st = "skipped"
    BY <1>1, RowChanges
  <2> QED BY <1>1, <2>1, <2>2, RowSoundChanges
<1>3. ASSUME c[1] # "none"
      PROVE  /\ c[1] \in Runs /\ Reclaimed[c[1]].st = "pending"
  BY <1>3 DEF Claims, ClaimableIn
<1>4. ASSUME c[1] \in Runs, Reclaimed[c[1]].st = "pending"
      PROVE  /\ RowSound(rows[c[1]]) /\ row[c[1]].st \in {"pending", "processing"}
             /\ rows[c[1]].attempts = row[c[1]].attempts + 1
             /\ rows[c[1]].st = "processing" /\ rows[c[1]].owner = owner
  <2>1. PICK x \in Rows : x = Reclaimed[c[1]]
    BY <1>1, <1>4
  <2>2. rows[c[1]] = Taken(x)
    BY <1>4, <2>1 DEF Claimed
  <2>3. x.st = "pending" /\ RowSound(x) /\ x.attempts = row[c[1]].attempts
    BY <1>1, <1>4, <2>1
  <2>4. x.expired \in BOOLEAN /\ x.attempts \in Nat /\ ~x.expired
    BY <2>1, <2>3 DEF Rows, RowSound
  <2>5. PICK n, o : n = x.attempts + 1 /\ o = owner
    OBVIOUS
  <2>6. Taken(x) = [x EXCEPT !.st = "processing", !.owner = o, !.attempts = n]
    BY <2>5 DEF Taken
  <2>7. /\ Taken(x).st = "processing" /\ Taken(x).owner = owner
        /\ Taken(x).attempts = x.attempts + 1 /\ Taken(x).expired = x.expired
    BY <2>1, <2>5, <2>6 DEF Rows
  <2>8. owner # 0 /\ owner <= starts
    BY DEF Typed
  <2> QED BY <1>1, <1>4, <2>1, <2>2, <2>3, <2>4, <2>7, <2>8 DEF RowSound
<1>5. ASSUME NEW r \in Runs
      PROVE  RowSound(rows[r])
  <2>1. r = c[1] => c[1] # "none"
    BY CaptureAssumption
  <2> QED BY <1>2, <1>3, <1>4, <2>1
<1> QED BY <1>2, <1>3, <1>4, <1>5 DEF Sound
\* A drain that closes a row for a retry still has an attempt left.
RetryLeft ==
    \A d \in Drains : pc[d] = "close" /\ job[d].outcome = "retry" => job[d].attempt < MaxAttempts

LEMMA RetryLeftKept ==
    ASSUME CaptureInv, RetryLeft, Next
    PROVE  RetryLeft'
<1> USE Names DEF RetryLeft
<1>0. pc \in [Tasks -> Places] /\ job \in [Drains -> Jobs]
  BY DEF CaptureInv, Typed
\* Whoever comes to close a row has just captured.
<1>1. ASSUME \A d \in Drains : pc'[d] = "close" => pc[d] = "close" /\ job'[d] = job[d]
      PROVE  RetryLeft'
  BY <1>1
<1>2. ASSUME NEW d \in Drains, Capture(d)
      PROVE  RetryLeft'
  <2>1. PICK q : job' = [job EXCEPT ![d].outcome =
                             IF q = "retry" /\ job[d].attempt >= MaxAttempts THEN "skipped" ELSE q]
    BY <1>2 DEF Capture
  <2>2. job'[d].outcome = "retry" => ~(job[d].attempt >= MaxAttempts)
    BY <1>0, <2>1 DEF Jobs
  <2>3. job'[d].attempt = job[d].attempt /\ job[d].attempt \in Nat
    BY <1>0, <2>1 DEF Jobs
  <2>4. \A e \in Drains : e # d => pc'[e] = pc[e] /\ job'[e] = job[e]
    BY <1>0, <1>2, <2>1 DEF Capture
  <2> QED BY <2>2, <2>3, <2>4, CaptureAssumption
<1>3. ASSUME NEW d \in Drains, Claim(d)
      PROVE  RetryLeft'
  <2>1. \A e \in Drains : e # d => pc'[e] = pc[e] /\ job'[e] = job[e]
    BY <1>0, <1>3 DEF Claim
  <2>2. pc'[d] # "close"
    BY <1>0, <1>3 DEF Claim, DrainEnd
  <2> QED BY <1>1, <2>1, <2>2
<1>4. ASSUME NEW d \in Drains, Close(d) \/ Undo(d) \/ DrainFails(d) \/ DrainCancelled(d)
      PROVE  RetryLeft'
  <2>1. \A e \in Drains : e # d => pc'[e] = pc[e] /\ job'[e] = job[e]
    BY <1>0, <1>4 DEF Close, Undo, DrainFails, DrainCancelled
  <2>2. pc'[d] # "close"
    BY <1>0, <1>4 DEF Close, Undo, DrainFails, DrainCancelled, DrainEnd
  <2> QED BY <1>1, <2>1, <2>2
<1>5. ASSUME NEW d \in Drains, DrainBegins(d) \/ PreloadBegins(d) \/ PreloadEnds(d)
      PROVE  RetryLeft'
  BY <1>0, <1>1, <1>5 DEF DrainBegins, PreloadBegins, PreloadEnds, DrainEnd, drainVars
<1>6. CASE CoordStep
  BY <1>0, <1>1, <1>6 DEF CoordStep, Dispatch, TakeRequest, TaskReturns, Finished, RetryDelayEnds,
                          drainVars
<1>7. CASE \E t \in Refreshers : RefreshCancelled(t)
  BY <1>0, <1>1, <1>7 DEF RefreshCancelled, drainVars
<1>8. CASE StopDrains \/ StopCapture \/ Stopped \/ TimePasses \/ PollEnds
  BY <1>0, <1>1, <1>8 DEF StopDrains, StopCapture, Stopped, TimePasses, RetryDue, LeaseExpires,
                          PollEnds, drainVars
<1>9. CASE \E t \in Refreshers : RefreshStep(t)
  BY <1>0, <1>1, <1>9 DEF RefreshStep, PreloadBegins, PreloadEnds, Reconcile, Audit, Activated,
                          drainVars
<1>10. CASE \E t \in Refreshers : ResumeFails(t) \/ HistoryFails(t)
  BY <1>0, <1>1, <1>10 DEF ResumeFails, HistoryFails, drainVars
<1>11. CASE (\E r \in Runs : Publish(r)) \/ Request \/ Rewarm \/ Stop
  BY <1>0, <1>1, <1>11 DEF Publish, Request, Rewarm, Stop, drainVars
<1>12. CASE Boot \/ Restart
  BY <1>0, <1>1, <1>12 DEF Boot, Restart, StartRuntime, drainVars
<1>13. CASE Crash
  BY <1>1, <1>13 DEF Crash
<1> QED BY <1>2, <1>3, <1>4, <1>5, <1>6, <1>7, <1>8, <1>9, <1>10, <1>11, <1>12, <1>13
        DEF Next, StopStep, Environment, DrainStep

\* A close ends the claim; a row it gives up for later keeps its attempts.
LEMMA ClosedSound ==
    ASSUME CaptureInv, RowsSound, NEW d \in Drains, pc[d] = "close"
    PROVE  /\ Sound(Closed(d)) /\ Lighter(Closed(d))
           /\ job[d].run \in Runs
           /\ \A r \in Runs : r # job[d].run => Closed(d)[r] = row[r]
           /\ Closed(d)[job[d].run].attempts = row[job[d].run].attempts
           /\ IF job[d].outcome = "retry"
              THEN Closed(d)[job[d].run].st = "pending"
              ELSE Closed(d)[job[d].run].st \in {"succeeded", "skipped"}
<1>1. PICK j \in Runs : j = job[d].run
  BY DEF CaptureInv, ClaimKept, Holding
<1>2. PICK o \in Outcomes : o = job[d].outcome
  BY DEF CaptureInv, ArchivedFirst
<1>3. row \in [Runs -> Rows] /\ Typed
  BY DEF CaptureInv, Typed
<1>4. \A r \in Runs : RowSound(row[r]) /\ row[r] \in Rows
  BY <1>3 DEF RowsSound, Sound
<1>5. ASSUME NEW x \in Rows, Closed(d) = [row EXCEPT ![j] = x], RowSound(x),
             x.attempts = row[j].attempts, IF o = "retry" THEN x.st = "pending" ELSE x.st = o
      PROVE  /\ Sound(Closed(d)) /\ Lighter(Closed(d))
             /\ \A r \in Runs : r # j => Closed(d)[r] = row[r]
             /\ Closed(d)[j] = x
  BY <1>3, <1>4, <1>5 DEF Sound, Lighter, Rows
<1>6. CASE o = "retry"
  <2>1. PICK y \in Rows : y = Freed(row[j]) /\ y.st = "pending" /\ RowSound(y)
                          /\ y.attempts = row[j].attempts
    BY <1>3, <1>4, RowChanges, RowSoundChanges
  <2> DEFINE x == [y EXCEPT !.due = FALSE]
  <2>2. x \in Rows /\ x.st = "pending" /\ RowSound(x) /\ x.attempts = row[j].attempts
    BY <2>1 DEF Rows, RowSound
  <2>3. Closed(d) = [row EXCEPT ![j] = x]
    BY <1>1, <1>2, <1>6, <2>1 DEF Closed
  <2> HIDE DEF x
  <2> QED BY <1>1, <1>2, <1>5, <1>6, <2>2, <2>3
<1>7. CASE o # "retry"
  <2>1. PICK y \in Rows : y = row[j]
    BY <1>4
  <2> DEFINE x == [y EXCEPT !.st = o, !.owner = 0, !.expired = FALSE]
  <2>2. x \in Rows /\ x.st = o /\ RowSound(x) /\ x.attempts = row[j].attempts
    <3>1. o \in {"succeeded", "skipped"} /\ starts \in Nat
      BY <1>2, <1>3, <1>7 DEF Outcomes, Typed
    <3>2. x \in Rows
      BY <2>1, <3>1 DEF Rows, Statuses
    <3>3. x.st = o /\ x.owner = 0 /\ x.expired = FALSE /\ x.attempts = y.attempts
      BY <2>1 DEF Rows
    <3> QED BY <2>1, <3>1, <3>2, <3>3 DEF RowSound
  <2>3. Closed(d) = [row EXCEPT ![j] = x]
    BY <1>1, <1>2, <1>7, <2>1 DEF Closed
  <2> HIDE DEF x
  <2> QED BY <1>1, <1>2, <1>5, <1>7, <2>2, <2>3 DEF Outcomes
<1> QED BY <1>6, <1>7

LEMMA RowsSoundKept ==
    ASSUME CaptureInv, LifeInv, RowsSound, Next
    PROVE  RowsSound'
<1> USE Names DEF outboxVars, lifeVars
<1>0. Typed
  BY DEF CaptureInv
<1>1. ASSUME starts' = starts \/ (starts' = starts + 1 /\ row' = row), Sound(row')
      PROVE  RowsSound'
  <2>1. \A r \in Runs : starts' = starts + 1 => row'[r].owner \in Nat
    BY <1>0, <1>1 DEF Typed, Rows
  <2> QED BY <1>0, <1>1, <2>1 DEF RowsSound, Sound, RowSound, Typed
<1>2. Sound(row)
  BY DEF RowsSound
<1>3. ASSUME NEW d \in Drains, pc[d] = "claim", NEW c \in Claims
      PROVE  Sound(Claimed(c[1], c[2]))
  <2>1. owner \in 1..starts
    BY <1>3 DEF LifeInv
  <2> QED BY <1>0, <1>3, <2>1, ClaimedSound
<1>4. CASE CoordStep
  BY <1>1, <1>2, <1>4 DEF CoordStep, Dispatch, TakeRequest, TaskReturns, Finished, RetryDelayEnds
<1>5. CASE \E t \in Refreshers : RefreshCancelled(t)
  <2>1. row' \in {row, Reconciled, AuditedRows} /\ starts' = starts
    BY <1>5 DEF RefreshCancelled, AuditedRows
  <2> QED BY <1>0, <1>1, <1>2, <2>1, ReconciledSound, AuditedSound
<1>6. ASSUME NEW d \in Drains, DrainCancelled(d)
      PROVE  RowsSound'
  <2>1. starts' = starts /\ (\/ row' = row
                             \/ pc[d] = "claim" /\ \E c \in Claims : row' = Claimed(c[1], c[2])
                             \/ pc[d] = "close" /\ row' = Closed(d))
    BY <1>6 DEF DrainCancelled
  <2> QED BY <1>1, <1>2, <1>3, <2>1, ClosedSound
<1>7. CASE StopDrains \/ StopCapture \/ Stopped \/ PollEnds
  BY <1>1, <1>2, <1>7 DEF StopDrains, StopCapture, Stopped, PollEnds
<1>8. CASE TimePasses
  <2>1. PICK r \in Runs : RetryDue(r) \/ LeaseExpires(r)
    BY <1>8 DEF TimePasses
  <2>2. \A x \in Runs : x # r => row'[x] = row[x]
    BY <1>0, <2>1 DEF RetryDue, LeaseExpires, Typed
  <2>3. row'[r].st = row[r].st /\ row'[r].owner = row[r].owner
        /\ (row'[r].expired => row[r].st = "processing")
    BY <1>0, <1>2, <2>1 DEF RetryDue, LeaseExpires, Typed, Rows, Sound, RowSound
  <2>4. starts' = starts
    BY <2>1 DEF RetryDue, LeaseExpires
  <2> QED BY <1>1, <1>2, <2>2, <2>3, <2>4 DEF Sound, RowSound
<1>9. ASSUME NEW t \in Refreshers, RefreshStep(t)
      PROVE  RowsSound'
  <2>1. row' \in {row, Reconciled, AuditedRows} /\ starts' = starts
    BY <1>9 DEF RefreshStep, PreloadBegins, PreloadEnds, Reconcile, Audit, Activated, AuditedRows
  <2> QED BY <1>0, <1>1, <1>2, <2>1, ReconciledSound, AuditedSound
<1>10. ASSUME NEW d \in Drains, DrainStep(d)
       PROVE  RowsSound'
  <2>0. starts' = starts
    BY <1>10 DEF DrainStep, DrainBegins, Claim, Capture, Close, Undo, PreloadBegins, PreloadEnds
  <2>1. CASE row' = row
    BY <1>1, <1>2, <2>0, <2>1
  <2>2. CASE Claim(d)
    BY <1>1, <1>3, <2>0, <2>2 DEF Claim
  <2>3. CASE Close(d)
    BY <1>1, <1>2, <2>0, <2>3, ClosedSound DEF Close
  <2>4. CASE Undo(d)
    <3>1. PICK j \in Runs : j = job[d].run
      BY <2>4 DEF Undo, CaptureInv, ClaimKept, Holding
    <3>2. row' = row \/ row' = [row EXCEPT ![j] = Freed(row[j])]
      BY <2>4, <3>1 DEF Undo
    <3>3. RowSound(Freed(row[j]))
      BY <1>0, RowSoundChanges DEF Typed
    <3> QED BY <1>0, <1>1, <1>2, <2>0, <3>2, <3>3 DEF Sound, Typed
  <2> QED BY <1>10, <2>1, <2>2, <2>3, <2>4
          DEF DrainStep, DrainBegins, Capture, PreloadBegins, PreloadEnds
<1>11. ASSUME NEW r \in Runs, Publish(r)
       PROVE  RowsSound'
  <2>1. starts' = starts /\ row' = [row EXCEPT ![r] = Blank("pending")]
    BY <1>11 DEF Publish
  <2>2. RowSound(Blank("pending"))
    BY <1>0, RowSoundChanges DEF Typed
  <2> QED BY <1>0, <1>1, <1>2, <2>1, <2>2 DEF Sound, Typed
<1>12. CASE Environment /\ ~ \E r \in Runs : Publish(r)
  BY <1>1, <1>2, <1>12 DEF Environment, Request, Boot, Restart, StartRuntime, Rewarm, Stop, Crash,
                           ResumeFails, HistoryFails, DrainFails
<1> QED BY <1>4, <1>5, <1>6, <1>7, <1>8, <1>9, <1>10, <1>11, <1>12 DEF Next, StopStep
-----------------------------------------------------------------------------
(* Credit, what is owed, and how heavy a row is.                           *)

One(b) == IF b THEN 1 ELSE 0

\* A refresh on its way to a reconciliation.
Resuming == {"wait", "preload", "activate"}

\* The revocations that may still come without anything new being paid: the
\* reconciliation for a request and that of the refresh under way, the warm-up's,
\* the audit's, and the cancellations of the scan's drain and of the worker's.
CoordOwes   == pc["coord"] \in Resuming
WarmOwes    == \/ life = "up" /\ \/ pc["warm"] \in Resuming
                                 \/ pc["warm"] = "off" /\ ~(audited /\ pc["worker"] # "off")
               \/ life = "stopping" /\ pc["warm"] \in Resuming
AuditOwed   == \/ life = "up" /\ ~audited /\ \A t \in Refreshers : pc[t] # "activated"
               \/ life = "stopping" /\ \E t \in Refreshers : pc[t] = "audit"
CancelOwed  == life = "up" \/ (life = "stopping" /\ pc["scan"] \notin {"off", "undo"})
EndOwed     == \/ life \in {"up", "stopping", "draining"}
               \/ life = "ending" /\ pc["worker"] \notin {"off", "undo"}

Owed == One(requested) + One(CoordOwes) + One(WarmOwes) + One(AuditOwed) + One(CancelOwed)
        + One(EndOwed)

\* A claim that a drain has in hand and will close.
InHand(r) == row[r].owner = owner /\ \E d \in Drains : pc[d] \in {"capture", "close"} /\ job[d].run = r

\* The attempts a row has had, and one more if nobody has to lose its claim
\* before it is claimed again.
Load(r) == row[r].attempts
           + One(row[r].st = "pending" \/ (row[r].st = "processing" /\ ~InHand(r)))

CreditInv == Owed <= Credit /\ \A r \in Runs : Load(r) + Owed <= MaxAttempts + Credit

Counted == requests \in Nat /\ faults \in Nat

-----------------------------------------------------------------------------
(* A step that pays for the rows it makes heavier keeps the credit.        *)

Paid(c)     == Owed' + c + Credit <= Owed + Credit'
RowsPaid(c) == \A r \in Runs : Load(r)' <= Load(r) + c \/ Load(r)' <= MaxAttempts

LEMMA OwedNat == Owed \in Nat /\ Owed' \in Nat
<1>1. \A b : One(b) \in 0..1
  BY DEF One
<1>2. /\ One(requested) \in 0..1 /\ One(CoordOwes) \in 0..1 /\ One(WarmOwes) \in 0..1
      /\ One(AuditOwed) \in 0..1 /\ One(CancelOwed) \in 0..1 /\ One(EndOwed) \in 0..1
  BY DEF One
<1>3. /\ One(requested)' \in 0..1 /\ One(CoordOwes)' \in 0..1 /\ One(WarmOwes)' \in 0..1
      /\ One(AuditOwed)' \in 0..1 /\ One(CancelOwed)' \in 0..1 /\ One(EndOwed)' \in 0..1
  BY DEF One
<1> HIDE DEF One
<1> QED BY <1>2, <1>3 DEF Owed

LEMMA CreditNat ==
    /\ Typed /\ Counted => Credit \in Nat
    /\ Typed' /\ Counted' => Credit' \in Nat
BY DEF Typed, Counted, Credit

LEMMA LoadNat ==
    /\ Typed => \A r \in Runs : Load(r) \in Nat /\ Load(r) >= row[r].attempts
    /\ Typed' => \A r \in Runs : Load(r)' \in Nat /\ Load(r)' <= row'[r].attempts + 1
BY DEF Typed, Rows, Load, One

LEMMA PaidKeepsCredit ==
    ASSUME Typed, Typed', Counted, Counted', CreditInv, NEW c \in {0, 1}, Paid(c), RowsPaid(c)
    PROVE  CreditInv'
<1>1. /\ Owed \in Nat /\ Owed' \in Nat /\ Credit \in Nat /\ Credit' \in Nat /\ MaxAttempts \in Nat
  BY OwedNat, CreditNat, CaptureAssumption
<1>2. \A r \in Runs : Load(r) \in Nat /\ Load(r)' \in Nat
  BY LoadNat
<1>3. \A o1, o2, k1, k2 \in Nat : o2 + c + k1 <= o1 + k2 /\ o1 <= k1 => o2 <= k2
  OBVIOUS
<1>4. \A o1, o2, k1, k2, l1, l2, m \in Nat :
         /\ o2 + c + k1 <= o1 + k2 /\ o1 <= k1 /\ l1 + o1 <= m + k1
         /\ l2 <= l1 + c \/ l2 <= m
         => l2 + o2 <= m + k2
  OBVIOUS
<1>5. Owed' <= Credit'
  BY <1>1, <1>3 DEF Paid, CreditInv
<1>6. ASSUME NEW r \in Runs
      PROVE  Load(r)' + Owed' <= MaxAttempts + Credit'
  <2>1. /\ Owed' + c + Credit <= Owed + Credit' /\ Owed <= Credit
        /\ Load(r) + Owed <= MaxAttempts + Credit
        /\ Load(r)' <= Load(r) + c \/ Load(r)' <= MaxAttempts
    BY DEF Paid, RowsPaid, CreditInv
  <2>2. PICK l1 \in Nat, l2 \in Nat : l1 = Load(r) /\ l2 = Load(r)'
    BY <1>2
  <2>3. PICK o1 \in Nat, o2 \in Nat, k1 \in Nat, k2 \in Nat, m \in Nat :
           o1 = Owed /\ o2 = Owed' /\ k1 = Credit /\ k2 = Credit' /\ m = MaxAttempts
    BY <1>1
  <2> QED BY <1>4, <2>1, <2>2, <2>3
<1> QED BY <1>5, <1>6 DEF CreditInv

\* What is owed is a sum: a step that owes nothing new, and no longer owes one of
\* its parts, has paid one.
OwesNothingNew ==
    /\ requested' => requested
    /\ CoordOwes' => CoordOwes
    /\ WarmOwes' => WarmOwes
    /\ AuditOwed' => AuditOwed
    /\ CancelOwed' => CancelOwed
    /\ EndOwed' => EndOwed

PaysOne ==
    \/ CoordOwes /\ ~CoordOwes'
    \/ WarmOwes /\ ~WarmOwes'
    \/ AuditOwed /\ ~AuditOwed'
    \/ CancelOwed /\ ~CancelOwed'
    \/ EndOwed /\ ~EndOwed'

LEMMA OwedSums ==
    /\ OwesNothingNew => Owed' <= Owed
    /\ OwesNothingNew /\ PaysOne => Owed' + 1 <= Owed
<1>1. /\ One(requested) \in 0..1 /\ One(CoordOwes) \in 0..1 /\ One(WarmOwes) \in 0..1
      /\ One(AuditOwed) \in 0..1 /\ One(CancelOwed) \in 0..1 /\ One(EndOwed) \in 0..1
      /\ One(requested)' \in 0..1 /\ One(CoordOwes)' \in 0..1 /\ One(WarmOwes)' \in 0..1
      /\ One(AuditOwed)' \in 0..1 /\ One(CancelOwed)' \in 0..1 /\ One(EndOwed)' \in 0..1
  BY DEF One
<1>2. OwesNothingNew =>
      /\ One(requested)' <= One(requested) /\ One(CoordOwes)' <= One(CoordOwes)
      /\ One(WarmOwes)' <= One(WarmOwes) /\ One(AuditOwed)' <= One(AuditOwed)
      /\ One(CancelOwed)' <= One(CancelOwed) /\ One(EndOwed)' <= One(EndOwed)
  BY DEF OwesNothingNew, One
<1>3. PaysOne =>
      \/ One(CoordOwes)' + 1 <= One(CoordOwes) \/ One(WarmOwes)' + 1 <= One(WarmOwes)
      \/ One(AuditOwed)' + 1 <= One(AuditOwed) \/ One(CancelOwed)' + 1 <= One(CancelOwed)
      \/ One(EndOwed)' + 1 <= One(EndOwed)
  BY DEF PaysOne, One
<1> HIDE DEF One
<1> QED BY <1>1, <1>2, <1>3 DEF Owed

LEMMA PaysNothing ==
    ASSUME Typed, Counted, OwesNothingNew, Credit' = Credit
    PROVE  Paid(0)
BY OwedSums, OwedNat, CreditNat DEF Paid

LEMMA PaysForOne ==
    ASSUME Typed, Counted, OwesNothingNew, PaysOne, Credit' = Credit
    PROVE  Paid(1)
<1>1. PICK o1 \in Nat, o2 \in Nat, k \in Nat : o1 = Owed /\ o2 = Owed' /\ k = Credit
  BY OwedNat, CreditNat
<1>2. o2 + 1 <= o1
  <2>1. Owed' + 1 <= Owed
    BY OwedSums
  <2> QED BY <1>1, <2>1
<1>3. o2 + 1 + k <= o1 + k
  BY <1>2
<1> QED BY <1>1, <1>3 DEF Paid

\* Rows that nobody tried again grow by at most the one claim they wait for.
LEMMA LighterRows ==
    ASSUME Typed, Typed', Lighter(row')
    PROVE  RowsPaid(1)
<1> SUFFICES ASSUME NEW r \in Runs PROVE Load(r)' <= Load(r) + 1
  BY DEF RowsPaid
<1>1. row'[r].attempts \in Nat /\ row[r].attempts \in Nat /\ row'[r].attempts <= row[r].attempts
  BY DEF Typed, Rows, Lighter
<1> QED BY <1>1, LoadNat

LEMMA SameRowsAreLighter ==
    ASSUME Typed, row' = row
    PROVE  Lighter(row')
BY DEF Typed, Rows, Lighter

\* A row left alone keeps its weight if the hand that has it keeps it.
LEMMA SameLoad ==
    ASSUME Typed, NEW r \in Runs, row'[r] = row[r],
           row[r].st = "processing" /\ InHand(r) => InHand(r)'
    PROVE  Load(r)' <= Load(r)
BY DEF Typed, Rows, Load, One

\* No drain has the row of a drain that is not at its capture or its close.
LEMMA HandIsEmpty ==
    ASSUME OneDrains, NEW d \in Drains, Draining(d), pc[d] \notin {"capture", "close"}
    PROVE  \A r \in Runs : ~InHand(r)
BY DEF InHand, OneDrains, Draining

\* Steps that touch neither rows nor drains.
LEMMA SameDrains ==
    ASSUME Typed, UNCHANGED <<row, owner, job>>, \A d \in Drains : pc[d] \in {"capture", "close"}
                                                     => pc'[d] \in {"capture", "close"}
    PROVE  RowsPaid(0)
<1> SUFFICES ASSUME NEW r \in Runs PROVE Load(r)' <= Load(r) + 0
  BY DEF RowsPaid
<1>1. InHand(r) => InHand(r)'
  BY DEF InHand
<1>2. Load(r)' <= Load(r)
  BY <1>1, SameLoad
<1>3. Load(r)' \in Nat /\ Load(r) \in Nat
  <2>1. row'[r].attempts \in Nat /\ row[r].attempts \in Nat
    BY DEF Typed, Rows
  <2> QED BY <2>1 DEF Load, One
<1> QED BY <1>2, <1>3
-----------------------------------------------------------------------------
(* What the steps owe.                                                     *)

Sane == CaptureInv /\ LifeInv /\ OneActivates /\ RowsSound /\ RetryLeft /\ Counted

\* The drains owe what their cancellation may cost, whatever they are doing.
LEMMA DrainsOweNothing ==
    ASSUME Sane, NEW d \in Drains, NEW p \in Places, pc' = [pc EXCEPT ![d] = p],
           pc[d] # "off", p = "off" => d = "scan" \/ life = "ending",
           pc[d] = "undo" => p = "off",
           UNCHANGED <<requested, audited, life>>
    PROVE  OwesNothingNew
<1> USE Names
<1>0. pc \in [Tasks -> Places] /\ LifeInv
  BY DEF Sane, CaptureInv, Typed
<1>1. \A t \in Refreshers : pc'[t] = pc[t]
  BY <1>0, TasksSplit
<1>2. pc'[d] = p /\ \A e \in Drains : e # d => pc'[e] = pc[e]
  BY <1>0
<1>3. CoordOwes' => CoordOwes
  BY <1>1 DEF CoordOwes
<1>4. WarmOwes' => WarmOwes
  BY <1>1, <1>2 DEF WarmOwes
<1>5. AuditOwed' => AuditOwed
  BY <1>1 DEF AuditOwed
<1>6. CancelOwed' => CancelOwed
  BY <1>2 DEF CancelOwed
<1>7. EndOwed' => EndOwed
  BY <1>2 DEF EndOwed
<1> QED BY <1>3, <1>4, <1>5, <1>6, <1>7 DEF OwesNothingNew

\* The refreshes owe their reconciliation and audit until they are through.
LEMMA RefreshesOweNothing ==
    ASSUME Sane, NEW t \in Refreshers, NEW p \in Places, pc' = [pc EXCEPT ![t] = p],
           p \in Resuming => pc[t] \in Resuming,
           p = "off" /\ t = "warm" => life = "stopping" \/ pc[t] \in Resuming,
           p = "audit" => life = "up",
           pc[t] = "activated" => life = "stopping",
           UNCHANGED <<requested, audited, life>>
    PROVE  OwesNothingNew
<1> USE Names
<1>0. pc \in [Tasks -> Places] /\ LifeInv
  BY DEF Sane, CaptureInv, Typed
<1>1. \A d \in Drains : pc'[d] = pc[d]
  BY <1>0, TasksSplit
<1>2. pc'[t] = p /\ \A u \in Refreshers : u # t => pc'[u] = pc[u]
  BY <1>0
<1>3. CoordOwes' => CoordOwes
  BY <1>2 DEF CoordOwes
<1>4. WarmOwes' => WarmOwes
  BY <1>1, <1>2 DEF WarmOwes, Resuming
<1>5. AuditOwed' => AuditOwed
  BY <1>2 DEF AuditOwed
<1>6. CancelOwed' => CancelOwed
  BY <1>1 DEF CancelOwed
<1>7. EndOwed' => EndOwed
  BY <1>1 DEF EndOwed
<1> QED BY <1>3, <1>4, <1>5, <1>6, <1>7 DEF OwesNothingNew
-----------------------------------------------------------------------------
(* Every step pays for the rows it makes heavier.                          *)

Pays == \E c \in {0, 1} : Paid(c) /\ RowsPaid(c)

\* A row left alone while no drain has a claim in hand, before the step.
LEMMA NobodyLoses ==
    ASSUME Typed, Typed', row' = row, \A r \in Runs : row[r].st = "processing" => ~InHand(r)
    PROVE  RowsPaid(0)
<1> SUFFICES ASSUME NEW r \in Runs PROVE Load(r)' <= Load(r) + 0
  BY DEF RowsPaid
<1>1. Load(r)' <= Load(r)
  BY SameLoad
<1>2. Load(r) \in Nat /\ Load(r)' \in Nat
  BY LoadNat
<1> QED BY <1>1, <1>2

LEMMA CoordPays ==
    ASSUME Sane, CoordStep
    PROVE  Pays
<1> USE Names, TasksSplit
<1>0. pc \in [Tasks -> Places] /\ Typed /\ Counted /\ requested \in BOOLEAN
  BY DEF Sane, CaptureInv, Typed
<1>1. /\ UNCHANGED <<row, owner, job, life, audited>> /\ Credit' = Credit
      /\ \A t \in Tasks : t # "coord" => pc'[t] = pc[t]
  BY <1>0 DEF CoordStep, Dispatch, TakeRequest, TaskReturns, Finished, RetryDelayEnds, Credit,
             outboxVars, lifeVars, drainVars, boundVars, auditVars
<1>2. RowsPaid(0)
  BY <1>0, <1>1, SameDrains
<1>3. pc'["coord"] \in {"take", "off", "left", "done", "wait"} \/ pc'["coord"] = pc["coord"]
  BY <1>0 DEF CoordStep, Dispatch, TakeRequest, TaskReturns, Finished, RetryDelayEnds
<1>4. pc["coord"] # "activated" \/ pc' = pc
  BY <1>0 DEF CoordStep, Dispatch, TakeRequest, TaskReturns, Finished, RetryDelayEnds, TaskRuns
<1>5. (WarmOwes' => WarmOwes) /\ (CancelOwed' => CancelOwed) /\ (EndOwed' => EndOwed)
  BY <1>1 DEF WarmOwes, CancelOwed, EndOwed
<1>6. AuditOwed' => AuditOwed
  <2>1. pc'["coord"] # "audit" \/ pc'["coord"] = pc["coord"]
    BY <1>3
  <2> QED BY <1>1, <1>3, <1>4, <2>1 DEF AuditOwed
<1>7. CASE TakeRequest /\ requested
  <2>1. pc'["coord"] = "wait" /\ pc["coord"] = "take" /\ requested' = FALSE
    BY <1>0, <1>7 DEF TakeRequest
  <2>2. One(requested) = 1 /\ One(requested)' = 0 /\ One(CoordOwes) = 0 /\ One(CoordOwes)' = 1
    BY <1>7, <2>1 DEF One, CoordOwes, Resuming
  <2>3. /\ One(WarmOwes)' <= One(WarmOwes) /\ One(AuditOwed)' <= One(AuditOwed)
        /\ One(CancelOwed)' <= One(CancelOwed) /\ One(EndOwed)' <= One(EndOwed)
        /\ One(WarmOwes) \in Nat /\ One(AuditOwed) \in Nat /\ One(CancelOwed) \in Nat
        /\ One(EndOwed) \in Nat /\ One(WarmOwes)' \in Nat /\ One(AuditOwed)' \in Nat
        /\ One(CancelOwed)' \in Nat /\ One(EndOwed)' \in Nat
    BY <1>5, <1>6 DEF One
  <2> HIDE DEF One
  <2>4. Owed' <= Owed
    BY <2>2, <2>3 DEF Owed
  <2>5. Paid(0)
    BY <1>0, <1>1, <2>4, OwedNat, CreditNat DEF Paid
  <2> QED BY <1>2, <2>5 DEF Pays
<1>8. CASE ~(TakeRequest /\ requested)
  <2>1. (requested' => requested) /\ (CoordOwes' => CoordOwes)
    <3>1. CASE TakeRequest
      BY <1>0, <1>8, <3>1 DEF TakeRequest, CoordOwes, Resuming
    <3>2. CASE Dispatch
      BY <1>0, <3>2 DEF Dispatch, CoordOwes, Resuming
    <3>3. CASE TaskReturns \/ Finished \/ RetryDelayEnds
      BY <1>0, <3>3 DEF TaskReturns, Finished, RetryDelayEnds, CoordOwes, Resuming, coordVars
    <3> QED BY <3>1, <3>2, <3>3 DEF CoordStep
  <2>2. OwesNothingNew
    BY <1>5, <1>6, <2>1 DEF OwesNothingNew
  <2>3. Paid(0)
    BY <1>0, <1>1, <2>2, PaysNothing
  <2> QED BY <1>2, <2>3 DEF Pays
<1> QED BY <1>7, <1>8

\* A step that adds k to what is owed and k to the credit.
LEMMA EarnsWhatItOwes ==
    ASSUME Typed, Counted, NEW k \in Nat, Owed' <= Owed + k, Credit' = Credit + k
    PROVE  Paid(0)
<1>1. PICK o1 \in Nat, o2 \in Nat, c1 \in Nat : o1 = Owed /\ o2 = Owed' /\ c1 = Credit
  BY OwedNat, CreditNat
<1>2. o2 <= o1 + k
  BY <1>1
<1>3. PICK c2 \in Nat : c2 = Credit' /\ c2 = c1 + k
  BY <1>1
<1>4. o2 + 0 + c1 <= o1 + c2
  BY <1>2, <1>3
<1> QED BY <1>1, <1>3, <1>4 DEF Paid

LEMMA FailedResumePays ==
    ASSUME Sane, NEW t \in Refreshers, ResumeFails(t) \/ HistoryFails(t)
    PROVE  Pays
<1> USE Names, TasksSplit
<1>0. /\ pc \in [Tasks -> Places] /\ Typed /\ Counted /\ requested \in BOOLEAN
      /\ requests \in Nat /\ faults \in Nat /\ starts \in Nat
  BY DEF Sane, CaptureInv, Typed, Counted
<1>1. /\ UNCHANGED <<row, owner, job, life>> /\ starts' = starts /\ requests' = requests
      /\ faults' = faults + 1 /\ requested' = TRUE /\ life = "up" /\ pc[t] # "off"
  BY DEF ResumeFails, HistoryFails, outboxVars, lifeVars, drainVars
<1>2. \A d \in Drains : pc[d] \in {"capture", "close"} => pc'[d] \in {"capture", "close"}
  BY <1>0 DEF ResumeFails, HistoryFails
<1>3. RowsPaid(0)
  BY <1>0, <1>1, <1>2, SameDrains
<1>4. Credit' = Credit + 2
  BY <1>0, <1>1 DEF Credit
<1>5. CoordOwes' => CoordOwes
  BY <1>0 DEF ResumeFails, HistoryFails, CoordOwes, Resuming
<1>6. (CancelOwed' => CancelOwed) /\ (EndOwed' => EndOwed)
  BY <1>1 DEF CancelOwed, EndOwed
<1>7. AuditOwed' => AuditOwed
  <2>1. CASE ResumeFails(t)
    <3>1. /\ \A u \in Refreshers : pc[u] = "activated" => pc'[u] = "activated"
          /\ audited' = audited
      BY <1>0, <2>1 DEF ResumeFails, auditVars
    <3> QED BY <1>1, <3>1 DEF AuditOwed
  <2>2. CASE HistoryFails(t)
    BY <1>1, <2>2 DEF HistoryFails, AuditOwed
  <2> QED BY <2>1, <2>2
<1>8. /\ One(requested) \in 0..1 /\ One(CoordOwes) \in 0..1 /\ One(WarmOwes) \in 0..1
      /\ One(AuditOwed) \in 0..1 /\ One(CancelOwed) \in 0..1 /\ One(EndOwed) \in 0..1
      /\ One(requested)' \in 0..1 /\ One(CoordOwes)' \in 0..1 /\ One(WarmOwes)' \in 0..1
      /\ One(AuditOwed)' \in 0..1 /\ One(CancelOwed)' \in 0..1 /\ One(EndOwed)' \in 0..1
      /\ One(CoordOwes)' <= One(CoordOwes) /\ One(AuditOwed)' <= One(AuditOwed)
      /\ One(CancelOwed)' <= One(CancelOwed) /\ One(EndOwed)' <= One(EndOwed)
  BY <1>5, <1>6, <1>7 DEF One
<1> HIDE DEF One
<1>9. Owed' <= Owed + 2
  BY <1>8 DEF Owed
<1>10. Paid(0)
  BY <1>0, <1>4, <1>9, EarnsWhatItOwes
<1> QED BY <1>3, <1>10 DEF Pays

LEMMA RequestPays ==
    ASSUME Sane, Request
    PROVE  Pays
<1> USE Names, TasksSplit
<1>0. Typed /\ Counted /\ requests \in Nat /\ faults \in Nat /\ starts \in Nat
  BY DEF Sane, CaptureInv, Typed, Counted
<1>1. /\ UNCHANGED <<row, owner, job, life, pc, audited>> /\ starts' = starts
      /\ requests' = requests + 1 /\ faults' = faults
  BY DEF Request, outboxVars, lifeVars, drainVars, auditVars
<1>2. RowsPaid(0)
  BY <1>0, <1>1, SameDrains
<1>3. Credit' = Credit + 1
  BY <1>0, <1>1 DEF Credit
<1>4. /\ (CoordOwes' <=> CoordOwes) /\ (WarmOwes' <=> WarmOwes) /\ (AuditOwed' <=> AuditOwed)
      /\ (CancelOwed' <=> CancelOwed) /\ (EndOwed' <=> EndOwed)
  BY <1>1 DEF CoordOwes, WarmOwes, AuditOwed, CancelOwed, EndOwed
<1>5. /\ One(CoordOwes)' = One(CoordOwes) /\ One(WarmOwes)' = One(WarmOwes)
      /\ One(AuditOwed)' = One(AuditOwed) /\ One(CancelOwed)' = One(CancelOwed)
      /\ One(EndOwed)' = One(EndOwed)
      /\ One(requested) \in 0..1 /\ One(requested)' \in 0..1
      /\ One(CoordOwes) \in 0..1 /\ One(WarmOwes) \in 0..1 /\ One(AuditOwed) \in 0..1
      /\ One(CancelOwed) \in 0..1 /\ One(EndOwed) \in 0..1
  BY <1>4 DEF One
<1> HIDE DEF One
<1>6. Owed' <= Owed + 1
  BY <1>5 DEF Owed
<1>7. Paid(0)
  BY <1>0, <1>3, <1>6, EarnsWhatItOwes
<1> QED BY <1>2, <1>7 DEF Pays

\* A start owes a warm-up, its audit, and the cancellations of the next stop.
LEMMA StartPays ==
    ASSUME Sane, Typed', Boot \/ Restart
    PROVE  Pays
<1> USE Names, TasksSplit
<1>0. /\ pc \in [Tasks -> Places] /\ Typed /\ Counted
      /\ requests \in Nat /\ faults \in Nat /\ starts \in Nat /\ LifeInv
  BY DEF Sane, CaptureInv, Typed, Counted
<1>1. /\ row' = row /\ starts' = starts + 1 /\ requests' = requests /\ faults' = faults
      /\ requested' = requested /\ life \in {"down", "stopped"}
      /\ pc' = [pc EXCEPT !["warm"] = "wait"]
  BY DEF Boot, Restart, StartRuntime, outboxVars, coordVars, boundVars
<1>2. (\A t \in Tasks : pc[t] = "off") /\ ~requested
  BY <1>0, <1>1 DEF LifeInv
<1>3. RowsPaid(0)
  <2>1. \A r \in Runs : ~InHand(r)
    BY <1>2 DEF InHand
  <2> QED BY <1>0, <1>1, <2>1, NobodyLoses
<1>4. Credit' = Credit + 4
  BY <1>0, <1>1 DEF Credit
<1>5. ~CoordOwes' /\ ~requested'
  BY <1>0, <1>1, <1>2 DEF CoordOwes, Resuming
<1>6. /\ One(CoordOwes)' = 0 /\ One(requested)' = 0 /\ One(WarmOwes)' \in 0..1
      /\ One(AuditOwed)' \in 0..1 /\ One(CancelOwed)' \in 0..1 /\ One(EndOwed)' \in 0..1
  BY <1>5 DEF One
<1> HIDE DEF One
<1>7. Owed' <= 4
  BY <1>6 DEF Owed
<1>8. Owed' <= Owed + 4
  BY <1>7, OwedNat
<1>9. Paid(0)
  BY <1>0, <1>4, <1>8, EarnsWhatItOwes
<1> QED BY <1>3, <1>9 DEF Pays

\* A step of a refresh that loses claims, or none, with the revocation it pays.
LEMMA RevocationPays ==
    ASSUME Sane, Typed', OwesNothingNew, Credit' = Credit,
           \/ PaysOne /\ Lighter(row')
           \/ RowsPaid(0)
    PROVE  Pays
<1>0. Typed /\ Counted
  BY DEF Sane, CaptureInv
<1>1. CASE PaysOne /\ Lighter(row')
  BY <1>0, <1>1, PaysForOne, LighterRows DEF Pays
<1>2. CASE RowsPaid(0)
  BY <1>0, <1>2, PaysNothing DEF Pays
<1> QED BY <1>1, <1>2

LEMMA RefreshPays ==
    ASSUME Sane, Typed', NEW t \in Refreshers, RefreshStep(t)
    PROVE  Pays
<1> USE Names, TasksSplit
<1>0. /\ pc \in [Tasks -> Places] /\ Typed /\ Counted /\ LifeInv /\ OneActivates /\ RowsSound
      /\ t \in Tasks /\ pc[t] \in Places
  BY DEF Sane, CaptureInv, Typed
<1>1. /\ UNCHANGED <<owner, job, life, requested>> /\ Credit' = Credit
  BY DEF RefreshStep, PreloadBegins, PreloadEnds, Reconcile, Audit, Activated, Credit,
         lifeVars, drainVars, boundVars, coordVars
<1>2. CASE PreloadBegins(t) \/ PreloadEnds(t)
  <2>1. PICK p \in {"preload", "activate"} : pc' = [pc EXCEPT ![t] = p]
    BY <1>2 DEF PreloadBegins, PreloadEnds
  <2>2. row' = row /\ audited' = audited /\ pc[t] \in {"wait", "preload"}
    BY <1>2 DEF PreloadBegins, PreloadEnds, outboxVars, auditVars
  <2>3. OwesNothingNew
    BY <1>1, <2>1, <2>2, RefreshesOweNothing DEF Places, Resuming
  <2>4. RowsPaid(0)
    BY <1>0, <1>1, <2>1, <2>2, SameDrains
  <2> QED BY <1>1, <2>3, <2>4, RevocationPays
<1>3. CASE Reconcile(t)
  <2>1. PICK p \in {"audit", "activated"} : pc' = [pc EXCEPT ![t] = p]
    BY <1>3 DEF Reconcile
  <2>2. row' = Reconciled /\ audited' = audited /\ pc[t] = "activate" /\ life = "up"
    BY <1>3 DEF Reconcile
  <2>3. OwesNothingNew
    BY <1>1, <2>1, <2>2, RefreshesOweNothing DEF Places, Resuming
  <2>4. PaysOne
    BY <1>0, <1>1, <2>1, <2>2 DEF PaysOne, CoordOwes, WarmOwes, Resuming
  <2>5. Lighter(row')
    BY <1>0, <2>2, ReconciledSound
  <2> QED BY <1>1, <2>3, <2>4, <2>5, RevocationPays
<1>4. CASE Audit(t)
  <2>1. pc' = [pc EXCEPT ![t] = "activated"] /\ row' = AuditedRows /\ audited' = audited
        /\ pc[t] = "audit" /\ life = "up"
    BY <1>4 DEF Audit, AuditedRows, auditVars
  <2>2. OwesNothingNew
    BY <1>1, <2>1, RefreshesOweNothing DEF Places, Resuming
  <2>3. AuditOwed
    BY <1>0, <2>1 DEF AuditOwed, OneActivates, Activating
  <2>4. ~AuditOwed'
    BY <1>0, <1>1, <2>1 DEF AuditOwed
  <2>5. Lighter(row')
    BY <1>0, <2>1, AuditedSound
  <2> QED BY <1>1, <2>2, <2>3, <2>4, <2>5, RevocationPays DEF PaysOne
<1>5. CASE Activated(t)
  <2>1. /\ row' = row /\ audited' = TRUE /\ life = "up" /\ pc[t] = "activated"
        /\ pc' = [pc EXCEPT ![t] = ResumeEnd(t), !["worker"] = IF @ = "off" THEN "lock" ELSE @]
    BY <1>5 DEF Activated, outboxVars
  <2>2. pc'[t] \in {"take", "off"} /\ pc'["worker"] # "off"
        /\ \A u \in Refreshers : u # t => pc'[u] = pc[u]
    BY <1>0, <2>1 DEF ResumeEnd
  <2>3. \A d \in Drains : pc[d] \in {"capture", "close"} => pc'[d] \in {"capture", "close"}
    BY <1>0, <2>1
  <2>4. CoordOwes' => CoordOwes
    BY <2>2 DEF CoordOwes, Resuming
  <2>5. (WarmOwes' => WarmOwes) /\ (AuditOwed' => AuditOwed)
    BY <1>1, <2>1, <2>2 DEF WarmOwes, AuditOwed, Resuming
  <2>6. OwesNothingNew
    BY <1>1, <2>1, <2>4, <2>5 DEF OwesNothingNew, CancelOwed, EndOwed
  <2>7. RowsPaid(0)
    BY <1>0, <1>1, <2>1, <2>3, SameDrains
  <2> QED BY <1>1, <2>6, <2>7, RevocationPays
<1> QED BY <1>2, <1>3, <1>4, <1>5 DEF RefreshStep

LEMMA CancelledRefreshPays ==
    ASSUME Sane, Typed', NEW t \in Refreshers, RefreshCancelled(t)
    PROVE  Pays
<1> USE Names, TasksSplit
<1>0. /\ pc \in [Tasks -> Places] /\ Typed /\ Counted /\ LifeInv /\ OneActivates /\ RowsSound
      /\ t \in Tasks /\ pc[t] \in Places
  BY DEF Sane, CaptureInv, Typed
<1>1. /\ UNCHANGED <<owner, job, life, requested, audited>> /\ Credit' = Credit
      /\ life = "stopping" /\ pc[t] # "off" /\ pc' = [pc EXCEPT ![t] = "off"]
      /\ \/ row' = row
         \/ pc[t] = "activate" /\ row' = Reconciled
         \/ pc[t] = "audit" /\ row' = AuditedRows
  BY DEF RefreshCancelled, Credit, lifeVars, drainVars, boundVars, coordVars, auditVars, AuditedRows
<1>2. OwesNothingNew
  BY <1>1, RefreshesOweNothing DEF Places, Resuming
<1>3. CASE row' = row
  <2>1. RowsPaid(0)
    BY <1>0, <1>1, <1>3, SameDrains
  <2> QED BY <1>1, <1>2, <2>1, RevocationPays
<1>4. CASE pc[t] = "activate" /\ row' = Reconciled
  <2>1. PaysOne
    BY <1>0, <1>1, <1>4 DEF PaysOne, CoordOwes, WarmOwes, Resuming
  <2>2. Lighter(row')
    BY <1>0, <1>4, ReconciledSound
  <2> QED BY <1>1, <1>2, <2>1, <2>2, RevocationPays
<1>5. CASE pc[t] = "audit" /\ row' = AuditedRows
  <2>1. AuditOwed
    BY <1>1, <1>5 DEF AuditOwed
  <2>2. ~AuditOwed'
    BY <1>0, <1>1, <1>5 DEF AuditOwed, OneActivates, Activating
  <2>3. Lighter(row')
    BY <1>0, <1>5, AuditedSound
  <2> QED BY <1>1, <1>2, <2>1, <2>2, <2>3, RevocationPays DEF PaysOne
<1> QED BY <1>1, <1>3, <1>4, <1>5

\* While one drain is at its claim, a claim makes only the row it takes heavier,
\* and that row by nothing if the drain gets it in hand.
LEMMA ClaimedLoads ==
    ASSUME Sane, Typed', NEW d \in Drains, pc[d] = "claim", NEW c \in Claims,
           row' = Claimed(c[1], c[2])
    PROVE  /\ RowsPaid(1)
           /\ (c[1] # "none" => InHand(c[1])') => RowsPaid(0)
<1>0. /\ Typed /\ LifeInv /\ RowsSound /\ OneDrains
  BY DEF Sane, CaptureInv
<1>1. \A r \in Runs : ~InHand(r)
  BY <1>0, HandIsEmpty DEF Draining
<1>2. owner \in 1..starts
  BY <1>0, Names DEF LifeInv
<1>3. /\ \A r \in Runs : r # c[1] =>
           /\ row'[r].attempts = row[r].attempts
           /\ \/ row'[r] = row[r]
              \/ row'[r].st = "skipped"
              \/ row[r].st = "processing" /\ row'[r].st = "pending"
      /\ c[1] # "none" =>
           /\ c[1] \in Runs
           /\ row[c[1]].st \in {"pending", "processing"}
           /\ row'[c[1]].attempts = row[c[1]].attempts + 1
           /\ row'[c[1]].st = "processing"
  BY <1>0, <1>2, ClaimedSound
<1>4. \A r \in Runs : /\ Load(r) \in Nat /\ Load(r)' \in Nat
                      /\ row[r].attempts \in Nat /\ row'[r].attempts \in Nat
  BY <1>0, LoadNat DEF Typed, Rows
<1>5. ASSUME NEW r \in Runs, r # c[1]
      PROVE  Load(r)' <= Load(r)
  <2>1. CASE row'[r] = row[r]
    BY <1>0, <1>1, <1>5, <2>1, SameLoad
  <2>2. CASE row'[r].st = "skipped"
    BY <1>3, <1>4, <1>5, <2>2 DEF Load, One
  <2>3. CASE row[r].st = "processing" /\ row'[r].st = "pending"
    BY <1>1, <1>3, <1>4, <1>5, <2>3 DEF Load, One
  <2> QED BY <1>3, <1>5, <2>1, <2>2, <2>3
<1>6. ASSUME c[1] # "none"
      PROVE  Load(c[1])' <= Load(c[1]) + 1 /\ (InHand(c[1])' => Load(c[1])' <= Load(c[1]))
  <2>1. PICK r \in Runs : r = c[1]
    BY <1>3, <1>6
  <2>2. /\ row[r].st \in {"pending", "processing"} /\ row'[r].attempts = row[r].attempts + 1
        /\ row'[r].st = "processing" /\ ~InHand(r)
    BY <1>1, <1>3, <1>6, <2>1
  <2>3. Load(r) = row[r].attempts + 1
    BY <2>2 DEF Load, One
  <2>4. Load(r)' <= row'[r].attempts + 1
    BY <1>4 DEF Load, One
  <2>5. InHand(r)' => Load(r)' = row'[r].attempts
    BY <1>4, <2>2 DEF Load, One
  <2>6. Load(r)' <= Load(r) + 1 /\ (InHand(r)' => Load(r)' <= Load(r))
    BY <1>4, <2>2, <2>3, <2>4, <2>5
  <2> QED BY <2>1, <2>6
<1>7. \A r \in Runs : r = c[1] => c[1] # "none"
  BY CaptureAssumption
<1>8. RowsPaid(1)
  BY <1>4, <1>5, <1>6, <1>7 DEF RowsPaid
<1>9. ASSUME c[1] # "none" => InHand(c[1])'
      PROVE  RowsPaid(0)
  <2>1. \A r \in Runs : Load(r)' <= Load(r)
    BY <1>5, <1>6, <1>7, <1>9
  <2> QED BY <1>4, <2>1 DEF RowsPaid
<1> QED BY <1>8, <1>9

\* The drain that closes or undoes is the only one with a claim in hand.
LEMMA OnlyHand ==
    ASSUME OneDrains, NEW d \in Drains, Draining(d)
    PROVE  \A r \in Runs : InHand(r) => r = job[d].run
BY DEF InHand, OneDrains, Draining

\* A drain that ends its claim makes the row no heavier: what goes back for a
\* retry has an attempt left, and what was taken away weighed the next one already.
LEMMA ClosePays ==
    ASSUME Sane, Typed', NEW d \in Drains, Close(d)
    PROVE  RowsPaid(0)
<1>0. /\ Typed /\ CaptureInv /\ RowsSound /\ OneDrains /\ RetryLeft /\ pc[d] = "close"
      /\ job[d].run \in Runs
  BY DEF Sane, CaptureInv, ClaimKept, Holding, Close
<1>1. PICK j \in Runs : j = job[d].run
  BY <1>0
<1>2. \A r \in Runs : r # j => ~InHand(r)
  BY <1>0, <1>1, OnlyHand DEF Draining
<1>3. \A r \in Runs : /\ Load(r) \in Nat /\ Load(r)' \in Nat
                      /\ row[r].attempts \in Nat /\ row'[r].attempts \in Nat
  BY <1>0, LoadNat DEF Typed, Rows
<1>4. CASE Holds(d)
  <2>1. row' = Closed(d)
    BY <1>4 DEF Close
  <2>2. \A r \in Runs : r # j => Load(r)' <= Load(r)
    BY <1>0, <1>1, <1>2, <2>1, ClosedSound, SameLoad
  <2>3. CASE job[d].outcome = "retry"
    <3>1. row[j].attempts = job[d].attempt /\ job[d].attempt < MaxAttempts
      BY <1>0, <1>1, <1>4, <2>3 DEF CaptureInv, ClaimKept, Holding, Holds, RetryLeft
    <3>2. row'[j].attempts = row[j].attempts
      BY <1>0, <1>1, <2>1, ClosedSound
    <3>3. Load(j)' <= row'[j].attempts + 1
      BY <1>3 DEF Load, One
    <3>4. Load(j)' <= MaxAttempts
      BY <1>3, <3>1, <3>2, <3>3, CaptureAssumption
    <3> QED BY <1>3, <2>2, <3>4 DEF RowsPaid
  <2>4. CASE job[d].outcome # "retry"
    <3>1. row'[j].attempts = row[j].attempts /\ row'[j].st \in {"succeeded", "skipped"}
      BY <1>0, <1>1, <2>1, <2>4, ClosedSound
    <3>2. Load(j)' = row[j].attempts
      BY <1>3, <3>1 DEF Load, One
    <3>3. Load(j)' <= Load(j)
      BY <1>0, <3>2, LoadNat
    <3>4. \A r \in Runs : Load(r)' <= Load(r)
      BY <2>2, <3>3
    <3> QED BY <1>3, <3>4 DEF RowsPaid
  <2> QED BY <2>3, <2>4
<1>5. CASE ~Holds(d)
  <2>1. row' = row
    BY <1>5 DEF Close
  <2>2. row[j].st = "processing" => ~InHand(j)
    BY <1>1, <1>5 DEF Holds, InHand
  <2> QED BY <1>0, <1>2, <2>1, <2>2, NobodyLoses
<1> QED BY <1>4, <1>5

LEMMA UndoPays ==
    ASSUME Sane, Typed', NEW d \in Drains, Undo(d)
    PROVE  RowsPaid(0)
<1>0. /\ Typed /\ OneDrains /\ pc[d] = "undo" /\ job[d].run \in Runs
  BY DEF Sane, CaptureInv, ClaimKept, Holding, Undo
<1>1. PICK j \in Runs : j = job[d].run
  BY <1>0
<1>2. \A r \in Runs : ~InHand(r)
  BY <1>0, HandIsEmpty DEF Draining
<1>3. CASE row' = row
  BY <1>0, <1>2, <1>3, NobodyLoses
<1>4. CASE Holds(d) /\ row' = [row EXCEPT ![j] = Freed(row[j])]
  <2>1. \A r \in Runs : /\ Load(r) \in Nat /\ Load(r)' \in Nat
                        /\ row[r].attempts \in Nat /\ row'[r].attempts \in Nat
    BY <1>0, LoadNat DEF Typed, Rows
  <2>2. \A r \in Runs : r # j => row'[r] = row[r]
    BY <1>0, <1>4 DEF Typed
  <2>3. \A r \in Runs : r # j => Load(r)' <= Load(r)
    BY <1>0, <1>2, <2>2, SameLoad
  <2>4. row'[j].attempts = row[j].attempts
    BY <1>0, <1>4, RowSoundChanges DEF Typed
  <2>5. row[j].st = "processing"
    BY <1>1, <1>4 DEF Holds
  <2>6. Load(j) = row[j].attempts + 1
    BY <1>2, <2>5 DEF Load, One
  <2>7. Load(j)' <= row'[j].attempts + 1
    BY <2>1 DEF Load, One
  <2>8. Load(j)' <= Load(j)
    BY <2>1, <2>4, <2>6, <2>7
  <2>9. \A r \in Runs : Load(r)' <= Load(r)
    BY <2>3, <2>8
  <2> QED BY <2>1, <2>9 DEF RowsPaid
<1> QED BY <1>1, <1>3, <1>4 DEF Undo

LEMMA DrainPays ==
    ASSUME Sane, Typed', NEW d \in Drains, DrainStep(d)
    PROVE  Pays
<1> USE Names, TasksSplit
<1>0. /\ pc \in [Tasks -> Places] /\ job \in [Drains -> Jobs] /\ Typed /\ Counted /\ LifeInv
      /\ OneDrains /\ d \in Tasks /\ pc[d] \in Places
  BY DEF Sane, CaptureInv, Typed
<1>1. /\ UNCHANGED <<owner, life, requested, audited>> /\ Credit' = Credit
  BY DEF DrainStep, DrainBegins, Claim, Capture, Close, Undo, PreloadBegins, PreloadEnds, Credit,
         lifeVars, boundVars, coordVars, auditVars
<1>2. ASSUME NEW p \in Places, pc' = [pc EXCEPT ![d] = p], pc[d] # "off",
             p = "off" => d = "scan" \/ life = "ending", pc[d] = "undo" => p = "off"
      PROVE  OwesNothingNew
  BY <1>1, <1>2, DrainsOweNothing
<1>3. DrainEnd(d) \in Places /\ (DrainEnd(d) = "off" => d = "scan")
  BY DEF DrainEnd, Places
<1>4. CASE PreloadBegins(d) \/ PreloadEnds(d) \/ DrainBegins(d)
  <2>1. PICK p \in Places : /\ pc' = [pc EXCEPT ![d] = p] /\ pc[d] \in {"wait", "preload", "lock"}
                            /\ (p = "off" => d = "scan")
    BY <1>3, <1>4 DEF PreloadBegins, PreloadEnds, DrainBegins, Places
  <2>2. row' = row /\ job' = job
    BY <1>4 DEF PreloadBegins, PreloadEnds, DrainBegins, outboxVars, drainVars
  <2>3. OwesNothingNew
    BY <1>2, <2>1
  <2>4. RowsPaid(0)
    BY <1>0, <1>1, <2>1, <2>2, SameDrains
  <2> QED BY <1>1, <2>3, <2>4, RevocationPays
<1>5. CASE Claim(d)
  <2>1. PICK c \in Claims :
           /\ row' = Claimed(c[1], c[2])
           /\ c[1] = "none" => pc' = [pc EXCEPT ![d] = IF hits[d] THEN "wait" ELSE DrainEnd(d)]
           /\ c[1] # "none" =>
                 /\ job' = [job EXCEPT ![d] = [run |-> c[1], attempt |-> row'[c[1]].attempts,
                                              outcome |-> "none"]]
                 /\ pc' = [pc EXCEPT ![d] = "capture"]
    BY <1>5 DEF Claim
  <2>2. pc[d] = "claim"
    BY <1>5 DEF Claim
  <2>3. PICK p \in Places : pc' = [pc EXCEPT ![d] = p] /\ (p = "off" => d = "scan")
    BY <1>3, <2>1 DEF Places
  <2>4. OwesNothingNew
    BY <1>2, <2>2, <2>3
  <2>5. ASSUME c[1] # "none"
        PROVE  InHand(c[1])'
    <3>1. owner \in 1..starts /\ Sound(row)
      BY <1>0, <2>2 DEF LifeInv, Sane, RowsSound
    <3>2. row'[c[1]].owner = owner
      BY <1>0, <2>1, <2>5, <3>1, ClaimedSound DEF RowsSound
    <3>3. pc'[d] = "capture" /\ job'[d].run = c[1]
      BY <1>0, <2>1, <2>5
    <3> QED BY <1>1, <3>2, <3>3 DEF InHand
  <2>6. RowsPaid(0)
    BY <2>1, <2>2, <2>5, ClaimedLoads
  <2> QED BY <1>1, <2>4, <2>6, RevocationPays
<1>6. CASE Capture(d)
  <2>1. pc' = [pc EXCEPT ![d] = "close"] /\ pc[d] = "capture" /\ row' = row
    BY <1>6 DEF Capture
  <2>2. PICK o : job' = [job EXCEPT ![d].outcome = o]
    BY <1>6 DEF Capture
  <2>3. \A e \in Drains : job'[e].run = job[e].run
    BY <1>0, <2>2 DEF Jobs
  <2>4. OwesNothingNew
    BY <1>2, <2>1 DEF Places
  <2>5. \A r \in Runs : InHand(r) => InHand(r)'
    BY <1>0, <1>1, <2>1, <2>3 DEF InHand
  <2>6. \A r \in Runs : Load(r)' <= Load(r)
    BY <1>0, <2>1, <2>5, SameLoad
  <2>7. RowsPaid(0)
    BY <1>0, <2>6, LoadNat DEF RowsPaid
  <2> QED BY <1>1, <2>4, <2>7, RevocationPays
<1>7. CASE Close(d)
  <2>1. PICK p \in Places : pc' = [pc EXCEPT ![d] = p] /\ (p = "off" => d = "scan")
    BY <1>3, <1>7 DEF Close, Places
  <2>2. OwesNothingNew
    BY <1>2, <1>7, <2>1 DEF Close
  <2> QED BY <1>1, <1>7, <2>2, ClosePays, RevocationPays
<1>8. CASE Undo(d)
  <2>1. pc' = [pc EXCEPT ![d] = "off"] /\ pc[d] = "undo"
    BY <1>8 DEF Undo
  <2>2. d = "scan" \/ life = "ending"
    BY <1>0, <2>1 DEF LifeInv
  <2>3. OwesNothingNew
    BY <1>2, <2>1, <2>2 DEF Places
  <2> QED BY <1>1, <1>8, <2>3, UndoPays, RevocationPays
<1> QED BY <1>4, <1>5, <1>6, <1>7, <1>8 DEF DrainStep

LEMMA CancelledDrainPays ==
    ASSUME Sane, Typed', NEW d \in Drains, DrainCancelled(d)
    PROVE  Pays
<1> USE Names, TasksSplit
<1>0. /\ pc \in [Tasks -> Places] /\ CaptureInv /\ Typed /\ Counted /\ LifeInv /\ RowsSound
      /\ d \in Tasks /\ pc[d] \in Places
  BY DEF Sane, CaptureInv, Typed
<1>1. /\ UNCHANGED <<owner, life, requested, audited>> /\ Credit' = Credit
      /\ (d = "scan" /\ life = "stopping") \/ (d = "worker" /\ life = "ending")
      /\ pc[d] \notin {"off", "undo"}
      /\ pc' = [pc EXCEPT ![d] = IF @ = "capture" THEN "undo" ELSE "off"]
      /\ \/ row' = row
         \/ pc[d] = "claim" /\ \E c \in Claims : row' = Claimed(c[1], c[2])
         \/ pc[d] = "close" /\ row' = Closed(d)
  BY DEF DrainCancelled, Credit, lifeVars, boundVars, coordVars, auditVars
<1>2. PICK p \in {"undo", "off"} : pc' = [pc EXCEPT ![d] = p]
  BY <1>1
<1>3. OwesNothingNew
  BY <1>1, <1>2, DrainsOweNothing DEF Places
<1>4. PaysOne
  <2>1. pc'[d] = p
    BY <1>0, <1>2
  <2> QED BY <1>1, <2>1 DEF PaysOne, CancelOwed, EndOwed
<1>5. CASE row' = row
  BY <1>0, <1>1, <1>3, <1>4, <1>5, SameRowsAreLighter, RevocationPays
<1>6. CASE pc[d] = "claim" /\ \E c \in Claims : row' = Claimed(c[1], c[2])
  <2>1. RowsPaid(1)
    BY <1>6, ClaimedLoads
  <2>2. Paid(1)
    BY <1>0, <1>1, <1>3, <1>4, PaysForOne
  <2> QED BY <2>1, <2>2 DEF Pays
<1>7. CASE pc[d] = "close" /\ row' = Closed(d)
  <2>1. Lighter(row')
    BY <1>0, <1>7, ClosedSound
  <2> QED BY <1>1, <1>3, <1>4, <2>1, RevocationPays
<1> QED BY <1>1, <1>5, <1>6, <1>7

LEMMA FailedDrainPays ==
    ASSUME Sane, Typed', NEW d \in Drains, DrainFails(d)
    PROVE  Pays
<1> USE Names, TasksSplit
<1>0. /\ pc \in [Tasks -> Places] /\ Typed /\ Counted
      /\ requests \in Nat /\ faults \in Nat /\ starts \in Nat
  BY DEF Sane, CaptureInv, Typed, Counted
<1>1. /\ UNCHANGED <<row, life, requested, audited, starts, requests>> /\ faults' = faults + 1
      /\ pc[d] \in {"claim", "close", "preload"} /\ pc' = [pc EXCEPT ![d] = DrainEnd(d)]
  BY DEF DrainFails, outboxVars, lifeVars, coordVars, auditVars
<1>2. DrainEnd(d) \in Places /\ (DrainEnd(d) = "off" => d = "scan")
  BY DEF DrainEnd, Places
<1>3. OwesNothingNew
  BY <1>1, <1>2, DrainsOweNothing
<1>4. Credit' = Credit + 2
  BY <1>0, <1>1 DEF Credit
<1>5. Owed' <= Owed
  BY <1>3, OwedSums
<1>6. PICK o1 \in Nat, o2 \in Nat, k \in Nat : o1 = Owed /\ o2 = Owed' /\ k = Credit
  BY <1>0, OwedNat, CreditNat
<1>7. o2 <= o1
  BY <1>5, <1>6
<1>8. o2 + 1 + k <= o1 + (k + 2)
  BY <1>7
<1>9. Paid(1)
  BY <1>4, <1>6, <1>8 DEF Paid
<1>10. RowsPaid(1)
  BY <1>0, <1>1, SameRowsAreLighter, LighterRows
<1> QED BY <1>9, <1>10 DEF Pays

\* A published row has not been tried yet.
LEMMA PublishPays ==
    ASSUME Sane, Typed', NEW r \in Runs, Publish(r)
    PROVE  Pays
<1> USE Names, TasksSplit
<1>0. pc \in [Tasks -> Places] /\ row \in [Runs -> Rows] /\ Typed /\ Counted
  BY DEF Sane, CaptureInv, Typed
<1>1. /\ UNCHANGED <<owner, life, requested, audited, job>> /\ Credit' = Credit
      /\ row' = [row EXCEPT ![r] = Blank("pending")] /\ pc["scan"] = "off"
      /\ pc' = IF life = "up" THEN [pc EXCEPT !["scan"] = "lock"] ELSE pc
  BY DEF Publish, Credit, lifeVars, boundVars, coordVars, auditVars, drainVars
<1>2. \A t \in Tasks : t # "scan" => pc'[t] = pc[t]
  BY <1>0, <1>1
<1>3. /\ (CoordOwes' => CoordOwes) /\ (WarmOwes' => WarmOwes) /\ (AuditOwed' => AuditOwed)
      /\ (EndOwed' => EndOwed)
  BY <1>1, <1>2 DEF CoordOwes, WarmOwes, AuditOwed, EndOwed
<1>4. CancelOwed' => CancelOwed
  BY <1>0, <1>1 DEF CancelOwed
<1>5. OwesNothingNew
  BY <1>1, <1>3, <1>4 DEF OwesNothingNew
<1>6. \A x \in Runs : Load(x) \in Nat /\ Load(x)' \in Nat
  BY <1>0, LoadNat
<1>7. ASSUME NEW x \in Runs, x # r
      PROVE  Load(x)' <= Load(x)
  <2>1. row'[x] = row[x]
    BY <1>0, <1>1, <1>7
  <2>2. InHand(x) => InHand(x)'
    BY <1>1, <1>2, <2>1 DEF InHand
  <2> QED BY <1>0, <2>1, <2>2, SameLoad
<1>8. Load(r)' <= MaxAttempts
  <2>1. row'[r].attempts = 0
    BY <1>0, <1>1, RowSoundChanges
  <2>2. Load(r)' <= row'[r].attempts + 1
    BY <1>0, LoadNat
  <2> QED BY <1>6, <2>1, <2>2, CaptureAssumption
<1>9. RowsPaid(0)
  BY <1>6, <1>7, <1>8 DEF RowsPaid
<1> QED BY <1>1, <1>5, <1>9, RevocationPays

\* A row whose retry falls due, or whose lease runs out, weighs what it weighed.
LEMMA TimePays ==
    ASSUME Sane, Typed', TimePasses
    PROVE  Pays
<1> USE Names, TasksSplit
<1>0. row \in [Runs -> Rows] /\ Typed /\ Counted
  BY DEF Sane, CaptureInv, Typed
<1>1. PICK r \in Runs : RetryDue(r) \/ LeaseExpires(r)
  BY DEF TimePasses
<1>2. UNCHANGED <<owner, life, requested, audited, job, pc>> /\ Credit' = Credit
  BY <1>1 DEF RetryDue, LeaseExpires, Credit, lifeVars, boundVars, coordVars, auditVars, drainVars
<1>3. OwesNothingNew
  BY <1>2 DEF OwesNothingNew, CoordOwes, WarmOwes, AuditOwed, CancelOwed, EndOwed
<1>4. \A x \in Runs : /\ row'[x].st = row[x].st /\ row'[x].owner = row[x].owner
                      /\ row'[x].attempts = row[x].attempts
  BY <1>0, <1>1 DEF RetryDue, LeaseExpires, Rows
<1>5. ASSUME NEW x \in Runs
      PROVE  Load(x)' = Load(x)
  <2>1. InHand(x)' <=> InHand(x)
    BY <1>2, <1>4 DEF InHand
  <2> QED BY <1>4, <2>1 DEF Load, One
<1>6. RowsPaid(0)
  BY <1>0, <1>5, LoadNat DEF RowsPaid
<1> QED BY <1>2, <1>3, <1>6, RevocationPays

LEMMA StopPays ==
    ASSUME Sane, Typed', Stop \/ StopDrains \/ StopCapture \/ Stopped \/ Rewarm \/ PollEnds
    PROVE  Pays
<1> USE Names, TasksSplit
<1>0. pc \in [Tasks -> Places] /\ Typed /\ Counted /\ LifeInv /\ OneActivates
  BY DEF Sane, CaptureInv, Typed
<1>1. /\ UNCHANGED <<row, owner, audited, job>> /\ Credit' = Credit /\ (requested' => requested)
      /\ \A d \in Drains : pc[d] \in {"capture", "close"} => pc'[d] \in {"capture", "close"}
  BY <1>0 DEF Stop, StopDrains, StopCapture, Stopped, Rewarm, PollEnds, Credit, outboxVars, lifeVars,
             boundVars, coordVars, auditVars, drainVars
<1>2. RowsPaid(0)
  BY <1>0, <1>1, SameDrains
<1>3. CASE Stop
  <2>1. life = "up" /\ life' = "stopping" /\ pc' = pc
    BY <1>3 DEF Stop
  <2>2. AuditOwed' => AuditOwed
    BY <1>0, <2>1 DEF AuditOwed, OneActivates, Activating
  <2>3. OwesNothingNew
    BY <1>1, <2>1, <2>2 DEF OwesNothingNew, CoordOwes, WarmOwes, CancelOwed, EndOwed
  <2> QED BY <1>1, <1>2, <2>3, RevocationPays
<1>4. CASE StopDrains
  <2>1. life = "stopping" /\ life' = "draining" /\ \A t \in Refreshers : pc'[t] = pc[t]
    BY <1>0, <1>4 DEF StopDrains
  <2>2. OwesNothingNew
    BY <1>1, <2>1 DEF OwesNothingNew, CoordOwes, WarmOwes, AuditOwed, CancelOwed, EndOwed
  <2> QED BY <1>1, <1>2, <2>2, RevocationPays
<1>5. CASE StopCapture \/ Stopped
  <2>1. /\ pc' = pc
        /\ (life = "draining" /\ life' = "ending") \/ (life = "ending" /\ life' = "stopped")
    BY <1>5 DEF StopCapture, Stopped
  <2>2. OwesNothingNew
    BY <1>1, <2>1 DEF OwesNothingNew, CoordOwes, WarmOwes, AuditOwed, CancelOwed, EndOwed
  <2> QED BY <1>1, <1>2, <2>2, RevocationPays
<1>6. CASE Rewarm
  <2>1. /\ life = "up" /\ life' = life /\ pc["warm"] = "off" /\ ~(audited /\ pc["worker"] # "off")
        /\ pc' = [pc EXCEPT !["warm"] = "wait"]
    BY <1>6 DEF Rewarm, lifeVars
  <2>2. pc'["warm"] = "wait" /\ \A t \in Tasks : t # "warm" => pc'[t] = pc[t]
    BY <1>0, <2>1
  <2>3. OwesNothingNew
    BY <1>1, <2>1, <2>2 DEF OwesNothingNew, CoordOwes, WarmOwes, AuditOwed, CancelOwed, EndOwed
  <2> QED BY <1>1, <1>2, <2>3, RevocationPays
<1>7. CASE PollEnds
  <2>1. /\ life' = life /\ pc["worker"] = "poll" /\ pc' = [pc EXCEPT !["worker"] = "lock"]
        /\ requested' = requested
    BY <1>7 DEF PollEnds, lifeVars, coordVars
  <2>2. OwesNothingNew
    BY <1>1, <2>1, DrainsOweNothing DEF Places
  <2> QED BY <1>1, <1>2, <2>2, RevocationPays
<1> QED BY <1>3, <1>4, <1>5, <1>6, <1>7

\* A crash takes the claims of every drain, and with them whatever was owed.
LEMMA CrashPays ==
    ASSUME Sane, Typed', Crash
    PROVE  Pays
<1> USE Names, TasksSplit
<1>0. pc \in [Tasks -> Places] /\ Typed /\ Counted /\ LifeInv
  BY DEF Sane, CaptureInv, Typed
<1>1. /\ row' = row /\ Credit' = Credit /\ requested' = FALSE /\ life # "down" /\ life' = "down"
      /\ \A t \in Tasks : pc'[t] = "off"
  BY DEF Crash, Credit, outboxVars, boundVars
<1>2. OwesNothingNew /\ ~EndOwed'
  BY <1>1 DEF OwesNothingNew, CoordOwes, WarmOwes, AuditOwed, CancelOwed, EndOwed, Resuming
<1>3. CASE EndOwed
  BY <1>0, <1>1, <1>2, <1>3, SameRowsAreLighter, RevocationPays DEF PaysOne
<1>4. CASE ~EndOwed
  <2>1. pc["scan"] = "off" /\ pc["worker"] \in {"off", "undo"}
    BY <1>0, <1>1, <1>4 DEF EndOwed, LifeInv, Lives
  <2>2. \A r \in Runs : ~InHand(r)
    BY <2>1 DEF InHand
  <2>3. RowsPaid(0)
    BY <1>0, <1>1, <2>2, NobodyLoses
  <2> QED BY <1>1, <1>2, <2>3, RevocationPays
<1> QED BY <1>3, <1>4

LEMMA EveryStepPays ==
    ASSUME Sane, Typed', Next
    PROVE  Pays
<1>1. CASE CoordStep
  BY <1>1, CoordPays
<1>2. CASE StopStep
  BY <1>2, CancelledRefreshPays, CancelledDrainPays, StopPays DEF StopStep
<1>3. CASE Environment
  BY <1>3, RequestPays, StartPays, StopPays, CrashPays, PublishPays, FailedResumePays,
     FailedDrainPays DEF Environment
<1>4. CASE TimePasses \/ PollEnds
  BY <1>4, TimePays, StopPays
<1>5. CASE \E t \in Refreshers : RefreshStep(t)
  BY <1>5, RefreshPays
<1>6. CASE \E d \in Drains : DrainStep(d)
  BY <1>6, DrainPays
<1> QED BY <1>1, <1>2, <1>3, <1>4, <1>5, <1>6 DEF Next
-----------------------------------------------------------------------------
(* The variables no proof above needed the types of.                       *)

Bounded ==
    /\ archived \subseteq Runs /\ sealed \subseteq Runs
    /\ auditMap \subseteq Runs /\ reading \subseteq Runs /\ index \subseteq Runs
    /\ audited \in BOOLEAN /\ hits \in [Drains -> BOOLEAN]
    /\ starts \in 0..MaxStarts /\ requests \in 0..MaxRequests /\ faults \in 0..MaxFaults

LEMMA BoundedKept ==
    ASSUME CaptureInv, Bounded, Next
    PROVE  Bounded'
<1> USE CaptureAssumption, TasksSplit DEF outboxVars, indexVars, auditVars, drainVars, lifeVars,
                                          boundVars
<1>1. \A d \in Drains : pc[d] \in {"capture", "close"} => job[d].run \in Runs
  BY DEF CaptureInv, ClaimKept, Holding
<1>2. Succeeded \subseteq Runs /\ DownIsEmpty
  BY DEF Succeeded, CaptureInv
<1>3. CASE CoordStep
  BY <1>3 DEF Bounded, CoordStep, Dispatch, TakeRequest, TaskReturns, Finished, RetryDelayEnds
<1>4. ASSUME NEW t \in Refreshers, RefreshCancelled(t)
      PROVE  Bounded'
  BY <1>4 DEF Bounded, RefreshCancelled
<1>5. ASSUME NEW d \in Drains, DrainCancelled(d)
      PROVE  Bounded'
  BY <1>1, <1>5 DEF Bounded, DrainCancelled
<1>6. CASE StopDrains \/ StopCapture \/ Stopped \/ TimePasses \/ PollEnds
  BY <1>6 DEF Bounded, StopDrains, StopCapture, Stopped, TimePasses, RetryDue, LeaseExpires, PollEnds
<1>7. ASSUME NEW t \in Tasks, PreloadBegins(t) \/ PreloadEnds(t)
      PROVE  Bounded'
  BY <1>2, <1>7 DEF Bounded, PreloadBegins, PreloadEnds
<1>8. ASSUME NEW t \in Refreshers, Reconcile(t) \/ Audit(t) \/ Activated(t)
      PROVE  Bounded'
  BY <1>8 DEF Bounded, Reconcile, Audit, Activated
<1>9. ASSUME NEW d \in Drains, DrainBegins(d) \/ Claim(d) \/ Undo(d)
      PROVE  Bounded'
  BY <1>9 DEF Bounded, DrainBegins, Claim, Undo
<1>10. ASSUME NEW d \in Drains, Capture(d)
       PROVE  Bounded'
  BY <1>1, <1>10 DEF Bounded, Capture
<1>11. ASSUME NEW d \in Drains, Close(d)
       PROVE  Bounded'
  <2>1. PICK b \in BOOLEAN : b = (hits[d] \/ job[d].outcome = "succeeded")
    BY DEF Bounded
  <2>2. hits' = hits \/ hits' = [hits EXCEPT ![d] = b]
    BY <1>11, <2>1 DEF Close
  <2>3. hits' \in [Drains -> BOOLEAN]
    BY <2>1, <2>2 DEF Bounded
  <2> QED BY <1>11, <2>3 DEF Bounded, Close
<1>12. ASSUME NEW t \in Refreshers, ResumeFails(t) \/ HistoryFails(t)
       PROVE  Bounded'
  <2>1. /\ UNCHANGED <<archived, sealed, reading, index, auditMap, hits, starts, requests>>
        /\ faults' = faults + 1 /\ faults < MaxFaults /\ (audited' = TRUE \/ audited' = audited)
    BY <1>12 DEF ResumeFails, HistoryFails
  <2>2. faults' \in 0..MaxFaults
    BY <2>1 DEF Bounded
  <2>3. audited' \in BOOLEAN
    BY <2>1 DEF Bounded
  <2> QED BY <2>1, <2>2, <2>3 DEF Bounded
<1>13. ASSUME NEW d \in Drains, DrainFails(d)
       PROVE  Bounded'
  BY <1>13 DEF Bounded, DrainFails
<1>14. CASE (\E r \in Runs : Publish(r)) \/ Request \/ Rewarm \/ Stop
  BY <1>14 DEF Bounded, Publish, Request, Rewarm, Stop
<1>15. CASE Boot \/ Restart
  BY <1>15 DEF Bounded, Boot, Restart, StartRuntime
<1>16. CASE Crash
  BY <1>16 DEF Bounded, Crash
<1> QED BY <1>3, <1>4, <1>5, <1>6, <1>7, <1>8, <1>9, <1>10, <1>11, <1>12, <1>13, <1>14, <1>15, <1>16
        DEF Next, StopStep, Environment, RefreshStep, DrainStep
-----------------------------------------------------------------------------
(* The invariant and what it says.                                         *)

AttemptsInv ==
    CaptureInv /\ LifeInv /\ OneActivates /\ RowsSound /\ RetryLeft /\ Bounded /\ CreditInv

LEMMA BoundsAreCounts == Bounded => Counted
BY CaptureAssumption DEF Bounded, Counted

LEMMA InitHasAttemptsInv ==
    ASSUME Init
    PROVE  AttemptsInv
<1> USE CaptureAssumption, Names
<1>1. CaptureInv
  BY InitHasCaptureInv
<1>2. LifeInv /\ OneActivates /\ RetryLeft
  BY DEF Init, LifeInv, Lives, OneActivates, Activating, RetryLeft
<1>3. Bounded
  <2>1. hits \in [Drains -> BOOLEAN] /\ sealed \subseteq Runs
    BY DEF Init
  <2>2. starts \in 0..MaxStarts /\ requests \in 0..MaxRequests /\ faults \in 0..MaxFaults
    BY DEF Init
  <2>3. /\ archived = {} /\ auditMap = {} /\ reading = {} /\ index = {} /\ audited = FALSE
    BY DEF Init
  <2> QED BY <2>1, <2>2, <2>3 DEF Bounded
<1>4. \A r \in Runs : /\ row[r].st \in {"none", "missing", "pending"} /\ row[r].owner = 0
                      /\ row[r].attempts = 0 /\ row[r].expired = FALSE
  BY DEF Init, Blank
<1>5. RowsSound
  BY <1>4 DEF Init, RowsSound, Sound, RowSound
<1>6. Owed = 0 /\ Credit = 0
  BY DEF Init, Owed, One, CoordOwes, WarmOwes, AuditOwed, CancelOwed, EndOwed, Resuming, Credit
<1>7. \A r \in Runs : Load(r) \in 0..1
  BY <1>4 DEF Load, One
<1>8. CreditInv
  BY <1>6, <1>7 DEF CreditInv
<1> QED BY <1>1, <1>2, <1>3, <1>5, <1>8 DEF AttemptsInv

LEMMA AttemptsInvInductive ==
    ASSUME AttemptsInv, [Next]_vars
    PROVE  AttemptsInv'
<1>1. CaptureInv /\ CaptureInv'
  BY CaptureInvInductive DEF AttemptsInv
<1>2. CASE Next
  <2>1. LifeInv' /\ OneActivates' /\ RowsSound' /\ RetryLeft' /\ Bounded'
    BY <1>2, LifeKept, OneActivatesKept, RowsSoundKept, RetryLeftKept, BoundedKept DEF AttemptsInv
  <2>2. Typed /\ Typed' /\ Counted /\ Counted' /\ Sane /\ CreditInv
    <3>1. Counted'
      BY <2>1, CaptureAssumption DEF Bounded, Counted
    <3> QED BY <1>1, <3>1, BoundsAreCounts DEF CaptureInv, AttemptsInv, Sane
  <2>3. PICK c \in {0, 1} : Paid(c) /\ RowsPaid(c)
    BY <1>2, <2>2, EveryStepPays DEF Pays
  <2>4. CreditInv'
    BY <2>2, <2>3, PaidKeepsCredit
  <2> QED BY <1>1, <2>1, <2>4 DEF AttemptsInv
<1>3. CASE UNCHANGED vars
  <2>1. LifeInv' /\ OneActivates' /\ RowsSound' /\ RetryLeft' /\ Bounded' /\ CreditInv'
    BY <1>3 DEF AttemptsInv, LifeInv, OneActivates, Activating, RowsSound, Sound, RowSound, RetryLeft,
                Bounded, CreditInv, Owed, One, CoordOwes, WarmOwes, AuditOwed, CancelOwed, EndOwed,
                Credit, Load, InHand, vars, outboxVars, indexVars, auditVars, drainVars, coordVars,
                lifeVars, boundVars
  <2> QED BY <1>1, <2>1 DEF AttemptsInv
<1> QED BY <1>2, <1>3

\* What is owed never exceeds the credit, nor does the weight of a row beyond
\* MaxAttempts what is left of it.
THEOREM AttemptsInvariant == Spec => []AttemptsInv
<1> QED BY InitHasAttemptsInv, AttemptsInvInductive, PTL DEF Spec

LEMMA AttemptsInvAccounts ==
    ASSUME AttemptsInv
    PROVE  AttemptsAccounted
<1>1. Typed /\ Counted /\ CreditInv
  BY BoundsAreCounts DEF AttemptsInv, CaptureInv
<1> SUFFICES ASSUME NEW r \in Runs PROVE row[r].attempts <= MaxAttempts + Credit
  BY DEF AttemptsAccounted
<1>2. PICK l \in Nat, o \in Nat, k \in Nat, a \in Nat :
         l = Load(r) /\ o = Owed /\ k = Credit /\ a = row[r].attempts
  BY <1>1, LoadNat, OwedNat, CreditNat DEF Typed, Rows
<1>3. a <= l /\ l + o <= MaxAttempts + k
  BY <1>1, <1>2, LoadNat DEF CreditInv
<1> QED BY <1>2, <1>3, CaptureAssumption

\* No row is tried more often than MaxAttempts allows and the starts, requests
\* and failures so far account for.
THEOREM EveryAttemptIsAccounted == Spec => []AttemptsAccounted
<1> QED BY AttemptsInvariant, AttemptsInvAccounts, PTL

LEMMA AttemptsInvTyped ==
    ASSUME AttemptsInv
    PROVE  TypeOK
<1>1. Typed /\ Bounded /\ RowsSound /\ LifeInv /\ AttemptsAccounted
  BY AttemptsInvAccounts DEF AttemptsInv, CaptureInv
<1>2. MostAttempts \in Nat /\ Credit \in Nat /\ Credit <= 4 * MaxStarts + MaxRequests + 2 * MaxFaults
  BY <1>1, CaptureAssumption DEF Bounded, Credit, MostAttempts
<1>3. MaxAttempts + Credit <= MostAttempts
  BY <1>1, <1>2, CaptureAssumption DEF Bounded, Credit, MostAttempts
<1>4. ASSUME NEW r \in Runs
      PROVE  /\ row[r].st \in Statuses /\ row[r].owner \in 0..MaxStarts
             /\ (row[r].st = "processing") <=> (row[r].owner # 0)
             /\ row[r].attempts \in 0..MostAttempts
             /\ row[r].due \in BOOLEAN /\ row[r].expired \in BOOLEAN
  <2>1. row[r] \in Rows /\ RowSound(row[r])
    BY <1>1 DEF Typed, RowsSound, Sound
  <2>2. row[r].owner \in 0..MaxStarts
    BY <1>1, <2>1, CaptureAssumption DEF Rows, RowSound, Bounded
  <2>3. row[r].attempts \in Nat /\ row[r].attempts <= MaxAttempts + Credit
    BY <1>1, <2>1 DEF Rows, AttemptsAccounted
  <2>4. row[r].attempts \in 0..MostAttempts
    BY <1>2, <1>3, <2>3, CaptureAssumption
  <2> QED BY <2>1, <2>2, <2>4 DEF Rows, RowSound
<1>5. life \in Lives /\ owner \in 0..starts
  BY <1>1 DEF LifeInv, Typed
<1>6. \A d \in Drains : job[d].run \in Runs \cup {"none"}
  BY <1>1 DEF Typed, Jobs
<1> QED BY <1>1, <1>4, <1>5, <1>6 DEF TypeOK, Typed, Bounded, Statuses, Places, Lives

\* Every variable keeps its type; the bound on attempts is what every claim taken
\* away can cost.
THEOREM CaptureTypeCorrect == Spec => []TypeOK
<1> QED BY AttemptsInvariant, AttemptsInvTyped, PTL
=============================================================================
