------------------------ MODULE ProviderRuntimeProofs ------------------------
(***************************************************************************)
(* Proofs about ProviderRuntime, for every number of callers, keys and     *)
(* workers and for every limit: all the invariants that its run checks.    *)
(*                                                                         *)
(* What holds them together is that the calls under way are exactly those  *)
(* registered in _provider_calls, and that the counter of a call's waiters *)
(* is the number of the callers that wait for it.                          *)
(***************************************************************************)
EXTENDS ProviderRuntime, FiniteSetTheorems, TLAPS

CallRecord ==
    [adapter : Adapters \cup {"none"}, key : Keys \cup {NoCall}, task : TaskState,
     worker : WorkerState, waiters : Nat, orphaned : BOOLEAN, stopping : BOOLEAN]

Typed ==
    /\ limit \in Limits
    /\ call \in [Callers -> CallRecord]
    /\ cur \in [Keys -> Callers \cup {NoCall}]
    /\ pc \in [Callers -> {"idle", "slot", "wait", "grace", "left", "end"}]
    /\ req \in [Callers -> Keys \cup {NoCall}]
    /\ on \in [Callers -> Callers \cup {NoCall}]
    /\ woken \subseteq {c \in Callers : pc[c] = "slot"}
    /\ result \in [Callers -> {"none", "value", "failure"}]
    /\ cooling \in BOOLEAN /\ closed \in BOOLEAN /\ quiesced \in BOOLEAN
    /\ closer \in {"idle", "wait"}

\* A caller asleep on the condition remembers its key, and one that waits for
\* a call waits for one that exists.
CallersPlaced ==
    \A c \in Callers :
        /\ pc[c] = "slot" => req[c] \in Keys
        /\ pc[c] \in {"wait", "grace"} => on[c] \in Callers /\ call[on[c]].task # "none"
        /\ pc[c] = "grace" => call[on[c]].stopping

MembersCounted == \A d \in Callers : call[d].waiters = Cardinality(Members(d))

\* A caller that has begun no call has none, and a call that is over leaves
\* nothing behind.
AbsentIsBlank ==
    \A d \in Callers :
        /\ call[d].task = "none" => call[d] = NoRequest
        /\ pc[d] \in {"idle", "slot"} => call[d].task = "none"

\* The registered calls are the active ones.
RegisteredIsActive ==
    /\ \A k \in Keys : cur[k] # NoCall => Active(cur[k]) /\ call[cur[k]].key = k
    /\ \A d \in Callers : Active(d) => call[d].key \in Keys /\ Registered(d)

OrphansMarked == \A d \in Callers : Active(d) => Members(d) # {} \/ call[d].orphaned

\* The close comes before its wait.
QuiescedIsClosed == quiesced \/ closer = "wait" => closed

RuntimeInv ==
    /\ Typed
    /\ CallersPlaced
    /\ MembersCounted
    /\ AbsentIsBlank
    /\ RegisteredIsActive
    /\ OrphansMarked
    /\ QuiescedIsClosed
    /\ CapabilityLimit
    /\ SharedNotCancelled
    /\ NoLostWakeup
    /\ QuiescedMeansIdle

-----------------------------------------------------------------------------
(* Cardinalities.                                                          *)

LEMMA CallersFinite ==
    ASSUME NEW S \in SUBSET Callers
    PROVE  IsFiniteSet(S) /\ Cardinality(S) \in Nat
BY FS_Subset, FS_CardinalityType, ProviderAssumption

LEMMA SmallerSet ==
    ASSUME NEW T \in SUBSET Callers, NEW S \in SUBSET T
    PROVE  Cardinality(S) <= Cardinality(T)
BY FS_Subset, CallersFinite

\* With no new call under way the limit still holds.
LEMMA FewerCallsBounded ==
    ASSUME Typed, CapabilityLimit, \A d \in Callers : Active(d)' => Active(d),
           UNCHANGED limit
    PROVE  CapabilityLimit'
<1> DEFINE S == {d \in Callers : Active(d)}
           T == {d \in Callers : Active(d)'}
<1>1. T \in SUBSET S /\ S \in SUBSET Callers
  OBVIOUS
<1>2. /\ Cardinality(T) <= Cardinality(S)
      /\ Cardinality(T) \in Nat /\ Cardinality(S) \in Nat
  <2> HIDE DEF S, T
  <2> QED BY <1>1, SmallerSet, CallersFinite
<1>3. Cardinality(S) <= limit /\ limit \in Nat
  BY ProviderAssumption DEF CapabilityLimit, Typed
<1>4. Cardinality(T) <= limit
  <2> HIDE DEF S, T
  <2> QED BY <1>2, <1>3
<1> QED BY <1>4 DEF CapabilityLimit

\* With no call left by its members and no caller newly asleep, no wakeup is
\* lost.
LEMMA MoreMembersNoLostWakeup ==
    ASSUME Typed, NoLostWakeup, UNCHANGED limit,
           \A d \in Callers : Members(d) # {} => Members(d)' # {},
           \A c \in Callers : pc'[c] = "slot" /\ c \notin woken'
                                => pc[c] = "slot" /\ c \notin woken
    PROVE  NoLostWakeup'
<1> SUFFICES ASSUME NEW c \in Callers, pc'[c] = "slot", c \notin woken'
             PROVE  Cardinality({d \in Callers : Members(d)' # {}}) >= limit
  BY DEF NoLostWakeup
<1> DEFINE S == {d \in Callers : Members(d) # {}}
           T == {d \in Callers : Members(d)' # {}}
<1>1. S \in SUBSET T /\ T \in SUBSET Callers
  OBVIOUS
<1>2. /\ Cardinality(S) <= Cardinality(T)
      /\ Cardinality(T) \in Nat /\ Cardinality(S) \in Nat
  <2> HIDE DEF S, T
  <2> QED BY <1>1, SmallerSet, CallersFinite
<1>3. Cardinality(S) >= limit /\ limit \in Nat
  BY ProviderAssumption DEF NoLostWakeup, Typed
<1> HIDE DEF S, T
<1>4. Cardinality(T) >= limit
  BY <1>2, <1>3
<1> QED BY <1>4 DEF T

-----------------------------------------------------------------------------
(* The calls change by Update, or stay.                                    *)

\* s is what becomes of the calls in a step that begins none: a call keeps its
\* key, and one that is over does not come back to life.
Evolves(s) ==
    /\ s \in [Callers -> CallRecord]
    /\ \A d \in Callers :
          /\ call[d].task = "none" => s[d] = call[d]
          /\ call[d].task # "none" => s[d].task # "none"
          /\ s[d].key = call[d].key
          /\ s[d].stopping = call[d].stopping
          /\ Busy(s[d]) => Busy(call[d])

LEMMA BlankIsTyped == NoRequest \in CallRecord
BY DEF NoRequest, CallRecord, TaskState, WorkerState

LEMMA UpdatedCalls ==
    ASSUME RuntimeInv, NEW s, Evolves(s), Update(s), NEW d \in Callers
    PROVE  /\ call'[d] = s[d] \/ call'[d] = NoRequest
           /\ Busy(s[d]) \/ s[d].waiters > 0 => call'[d] = s[d]
           /\ call'[d].waiters = s[d].waiters
           /\ call'[d].stopping => call[d].stopping
           /\ call'[d].task = "none" => call'[d] = NoRequest
           /\ call[d].task = "none" => call'[d].task = "none"
<1>1. call'[d] = IF Busy(s[d]) \/ s[d].waiters > 0 THEN s[d] ELSE NoRequest
  BY DEF Update
<1>2. s[d] \in CallRecord /\ s[d].waiters \in Nat /\ s[d].stopping = call[d].stopping
  BY DEF Evolves, CallRecord
<1>3. NoRequest.waiters = 0 /\ NoRequest.stopping = FALSE /\ NoRequest.task = "none"
  BY DEF NoRequest
<1>4. s[d].task = "none" => s[d] = NoRequest
  BY DEF Evolves, RuntimeInv, AbsentIsBlank
<1>5. call[d].task = "none" => s[d].task = "none"
  BY DEF Evolves
<1> QED BY <1>1, <1>2, <1>3, <1>4, <1>5

\* Update keeps the register in step with the calls under way.
LEMMA UpdateKeepsRegister ==
    ASSUME RuntimeInv, NEW s, Evolves(s), Update(s)
    PROVE  /\ call' \in [Callers -> CallRecord]
           /\ cur' \in [Keys -> Callers \cup {NoCall}]
           /\ \A d \in Callers : Active(d)' => Active(d) /\ call'[d] = s[d]
           /\ RegisteredIsActive'
<1>1. call' \in [Callers -> CallRecord]
  BY BlankIsTyped DEF Update, Evolves
<1>2. cur' \in [Keys -> Callers \cup {NoCall}]
  BY DEF Update, RuntimeInv, Typed
<1>3. ASSUME NEW d \in Callers, Active(d)'
      PROVE  /\ Active(d) /\ call'[d] = s[d] /\ call'[d].key = call[d].key
             /\ call[d].key \in Keys /\ cur'[call[d].key] = d
  <2>1. call'[d].task # "none" /\ Busy(call'[d])
    BY <1>3 DEF Active
  <2>2. call'[d] = s[d]
    BY <2>1, UpdatedCalls DEF NoRequest
  <2>3. Active(d) /\ call'[d].key = call[d].key
    BY <2>1, <2>2 DEF Active, Evolves
  <2>4. call[d].key \in Keys /\ cur[call[d].key] = d
    BY <2>3 DEF RuntimeInv, RegisteredIsActive, Registered
  <2>5. cur'[call[d].key] = d
    BY <2>1, <2>2, <2>4, ProviderAssumption DEF Update
  <2> QED BY <2>2, <2>3, <2>4, <2>5
<1>4. ASSUME NEW k \in Keys, cur'[k] # NoCall
      PROVE  Active(cur[k])' /\ call'[cur'[k]].key = k
  <2> DEFINE d == cur[k]
  <2>1. cur'[k] = d /\ d # NoCall /\ Busy(s[d])
    BY <1>4 DEF Update
  <2>2. d \in Callers /\ Active(d) /\ call[d].key = k
    BY <2>1 DEF RuntimeInv, Typed, RegisteredIsActive
  <2>3. call'[d] = s[d] /\ s[d].task # "none" /\ s[d].key = k
    BY <2>1, <2>2, UpdatedCalls DEF Evolves, Active
  <2> QED BY <2>1, <2>3 DEF Active
<1>5. RegisteredIsActive'
  BY <1>3, <1>4 DEF RegisteredIsActive, Registered, Active
<1> QED BY <1>1, <1>2, <1>3, <1>5

\* Callers may leave in the step, none enters.
OnlyLeaving ==
    \A c \in Callers :
        /\ pc'[c] \in {"wait", "grace"} => pc'[c] = pc[c] /\ on'[c] = on[c]
        /\ pc'[c] = "slot" => pc[c] = "slot" /\ req'[c] = req[c]
        /\ pc'[c] = "idle" => pc[c] = "idle"

\* A step that updates the calls keeps the invariant if it counts those who
\* leave and marks what they leave behind.
LEMMA UpdateKeeps ==
    ASSUME RuntimeInv, NEW s, Evolves(s), Update(s), OnlyLeaving,
           \A d \in Callers : /\ s[d].waiters = Cardinality(Members(d)')
                              /\ Busy(s[d]) => Members(d)' # {} \/ s[d].orphaned
                                               \/ call[d].task = "none",
           UNCHANGED <<limit, quiesced>>, closed => closed', closer' = "wait" => closed',
           NoLostWakeup',
           /\ pc' \in [Callers -> {"idle", "slot", "wait", "grace", "left", "end"}]
           /\ req' \in [Callers -> Keys \cup {NoCall}]
           /\ on' \in [Callers -> Callers \cup {NoCall}]
           /\ woken' \subseteq {c \in Callers : pc'[c] = "slot"}
           /\ result' \in [Callers -> {"none", "value", "failure"}]
           /\ cooling' \in BOOLEAN /\ closed' \in BOOLEAN
           /\ closer' \in {"idle", "wait"}
    PROVE  RuntimeInv'
<1>1. Typed'
  BY UpdateKeepsRegister DEF Typed, RuntimeInv
<1>2. ASSUME NEW d \in Callers
      PROVE  Members(d)' \in SUBSET Members(d) /\ Members(d)' \in SUBSET Callers
  BY DEF Members, OnlyLeaving
<1>3. CallersPlaced'
  <2>1. ASSUME NEW c \in Callers, pc'[c] \in {"wait", "grace"}
        PROVE  /\ on'[c] \in Callers /\ call'[on'[c]].task # "none"
               /\ pc'[c] = "grace" => call'[on'[c]].stopping
    <3>1. pc'[c] = pc[c] /\ on'[c] = on[c] /\ on[c] \in Callers
      BY <2>1 DEF OnlyLeaving, RuntimeInv, CallersPlaced
    <3>2. PICK d \in Callers : d = on[c]
      BY <3>1
    <3>3. /\ call[d].task # "none"
          /\ pc[c] = "grace" => call[d].stopping
      BY <2>1, <3>1, <3>2 DEF RuntimeInv, CallersPlaced
    <3>4. s[d].waiters > 0
      <4>1. Members(d)' # {} /\ IsFiniteSet(Members(d)') /\ Cardinality(Members(d)') \in Nat
        BY <1>2, <2>1, <3>1, <3>2, CallersFinite DEF Members
      <4>2. Cardinality(Members(d)') # 0
        BY <4>1, FS_EmptySet
      <4>3. s[d].waiters = Cardinality(Members(d)')
        OBVIOUS
      <4> QED BY <4>1, <4>2, <4>3
    <3>5. call'[d] = s[d]
      BY <3>4, UpdatedCalls
    <3> QED BY <3>1, <3>2, <3>3, <3>5 DEF Evolves
  <2> QED BY <2>1 DEF CallersPlaced, OnlyLeaving, RuntimeInv
<1>4. MembersCounted'
  BY UpdatedCalls DEF MembersCounted
<1>5. AbsentIsBlank'
  BY UpdatedCalls DEF AbsentIsBlank, RuntimeInv, OnlyLeaving
<1>6. RegisteredIsActive' /\ \A d \in Callers : Active(d)' => Active(d) /\ call'[d] = s[d]
  BY UpdateKeepsRegister
<1>7. OrphansMarked'
  BY <1>6 DEF OrphansMarked, Active
<1>8. CapabilityLimit'
  BY <1>6, FewerCallsBounded DEF RuntimeInv
<1>9. SharedNotCancelled'
  <2> SUFFICES ASSUME NEW d \in Callers, call'[d].stopping, NEW c \in Members(d)'
               PROVE  Members(d)' = {c} /\ pc'[c] # "wait"
    BY DEF SharedNotCancelled
  <2>1. call[d].stopping /\ c \in Members(d)
    BY <1>2, UpdatedCalls
  <2>2. Members(d) = {c} /\ pc[c] # "wait"
    BY <2>1 DEF RuntimeInv, SharedNotCancelled
  <2> QED BY <1>2, <2>2 DEF Members, OnlyLeaving
<1>10. QuiescedIsClosed' /\ QuiescedMeansIdle'
  BY <1>6 DEF RuntimeInv, QuiescedIsClosed, QuiescedMeansIdle
<1> QED BY <1>1, <1>3, <1>4, <1>5, <1>6, <1>7, <1>8, <1>9, <1>10 DEF RuntimeInv

\* A step of a task, of a worker or of the close changes nothing of who waits
\* for what.
LEMMA WorkKeeps ==
    ASSUME RuntimeInv, NEW s, Evolves(s), Update(s),
           \A d \in Callers : /\ s[d].waiters = call[d].waiters
                              /\ s[d].orphaned = call[d].orphaned,
           UNCHANGED <<limit, callerVars, cooling, quiesced>>,
           closed => closed', closer' = "wait" => closed',
           closed' \in BOOLEAN, closer' \in {"idle", "wait"}
    PROVE  RuntimeInv'
<1>1. \A d \in Callers : Members(d)' = Members(d)
  BY DEF Members, callerVars
<1>2. OnlyLeaving
  BY DEF OnlyLeaving, callerVars
<1>3. ASSUME NEW d \in Callers
      PROVE  /\ s[d].waiters = Cardinality(Members(d)')
             /\ Busy(s[d]) => Members(d)' # {} \/ s[d].orphaned \/ call[d].task = "none"
  BY <1>1 DEF RuntimeInv, MembersCounted, OrphansMarked, Evolves, Active
<1>4. NoLostWakeup'
  BY <1>1, MoreMembersNoLostWakeup DEF RuntimeInv, callerVars
<1> QED BY <1>2, <1>3, <1>4, UpdateKeeps DEF RuntimeInv, Typed, callerVars

-----------------------------------------------------------------------------
(* The steps of tasks and workers, and aclose.                             *)

\* Only the state of one call's task and worker differs.
OnlyWorkDiffers(d, s) ==
    /\ s \in [Callers -> CallRecord]
    /\ s[d].key = call[d].key /\ s[d].stopping = call[d].stopping
    /\ s[d].waiters = call[d].waiters /\ s[d].orphaned = call[d].orphaned
    /\ s[d].task # "none"
    /\ \A e \in Callers : e # d => s[e] = call[e]

LEMMA CallStepKeeps ==
    ASSUME RuntimeInv, NEW d \in Callers, Busy(call[d]), call[d].task # "none",
           NEW s, OnlyWorkDiffers(d, s), Update(s), CallStep, UNCHANGED limit
    PROVE  RuntimeInv'
<1>1. Evolves(s)
  BY DEF OnlyWorkDiffers, Evolves
<1>2. \A e \in Callers : s[e].waiters = call[e].waiters /\ s[e].orphaned = call[e].orphaned
  BY DEF OnlyWorkDiffers
<1>3. /\ UNCHANGED <<limit, callerVars, cooling, quiesced, closed, closer>>
      /\ closer' = "wait" => closed'
      /\ closed' \in BOOLEAN /\ closer' \in {"idle", "wait"}
  BY DEF CallStep, RuntimeInv, Typed, closeVars, QuiescedIsClosed
<1> QED BY <1>1, <1>2, <1>3, WorkKeeps

LEMMA SetTaskKeeps ==
    ASSUME RuntimeInv, NEW d \in Callers, Busy(call[d]), call[d].task # "none",
           NEW st \in TaskState \ {"none"}, SetTask(d, st), CallStep, UNCHANGED limit
    PROVE  RuntimeInv'
<1> DEFINE s == [call EXCEPT ![d].task = st]
<1>1. OnlyWorkDiffers(d, s)
  <2>1. call \in [Callers -> CallRecord]
    BY DEF RuntimeInv, Typed
  <2>2. s \in [Callers -> CallRecord]
    BY <2>1 DEF CallRecord
  <2>3. s[d].task = st /\ \A e \in Callers : e # d => s[e] = call[e]
    BY <2>1 DEF CallRecord
  <2>4. /\ s[d].key = call[d].key /\ s[d].stopping = call[d].stopping
        /\ s[d].waiters = call[d].waiters /\ s[d].orphaned = call[d].orphaned
    BY <2>1 DEF CallRecord
  <2> QED BY <2>2, <2>3, <2>4 DEF OnlyWorkDiffers
<1>2. Update(s)
  BY DEF SetTask
<1> QED BY <1>1, <1>2, CallStepKeeps

LEMMA SetWorkerKeeps ==
    ASSUME RuntimeInv, NEW d \in Callers, Busy(call[d]), call[d].task # "none",
           NEW st \in WorkerState, SetWorker(d, st), CallStep, UNCHANGED limit
    PROVE  RuntimeInv'
<1> DEFINE s == [call EXCEPT ![d].worker = st]
<1>1. OnlyWorkDiffers(d, s)
  <2>1. call \in [Callers -> CallRecord]
    BY DEF RuntimeInv, Typed
  <2>2. s \in [Callers -> CallRecord]
    BY <2>1 DEF CallRecord
  <2>3. s[d].task = call[d].task /\ \A e \in Callers : e # d => s[e] = call[e]
    BY <2>1 DEF CallRecord
  <2>4. /\ s[d].key = call[d].key /\ s[d].stopping = call[d].stopping
        /\ s[d].waiters = call[d].waiters /\ s[d].orphaned = call[d].orphaned
    BY <2>1 DEF CallRecord
  <2> QED BY <2>2, <2>3, <2>4 DEF OnlyWorkDiffers
<1>2. Update(s)
  BY DEF SetWorker
<1> QED BY <1>1, <1>2, CallStepKeeps

\* The steps of a call: each leaves it under way or over, and needs it under way.
LEMMA WorkStepKeeps ==
    ASSUME RuntimeInv, NEW d \in Callers, UNCHANGED limit,
           \/ TaskBegins(d) \/ TaskResumes(d) \/ WorkerBegins(d)
           \/ TaskAnswers(d) \/ TaskCancelled(d) \/ WorkerEnds(d)
    PROVE  RuntimeInv'
<1>1. call[d].task = "none" => call[d].worker = "none"
  BY DEF RuntimeInv, AbsentIsBlank, NoRequest
<1>2. Busy(call[d]) /\ call[d].task # "none" /\ CallStep
  BY <1>1 DEF TaskBegins, TaskResumes, WorkerBegins, TaskAnswers, TaskCancelled, WorkerEnds,
              Busy, TaskDone
<1>3. {"async", "ok", "error", "cancelled"} \subseteq TaskState \ {"none"}
  BY DEF TaskState, TaskDone
<1>4. WorkerState = {"none", "queued", "running", "done"}
  BY DEF WorkerState
<1>5. CASE TaskBegins(d)
  <2>1. CASE call[d].adapter = "async"
    BY <1>2, <1>3, <1>5, <2>1, SetTaskKeeps DEF TaskBegins
  <2>2. CASE call[d].adapter # "async"
    <3> DEFINE s == [call EXCEPT ![d].task = "io", ![d].worker = "queued"]
    <3>1. OnlyWorkDiffers(d, s)
      <4>1. call \in [Callers -> CallRecord]
        BY DEF RuntimeInv, Typed
      <4>2. s \in [Callers -> CallRecord]
        BY <4>1 DEF CallRecord, TaskState, WorkerState
      <4>3. s[d].task = "io" /\ \A e \in Callers : e # d => s[e] = call[e]
        BY <4>1 DEF CallRecord
      <4>4. /\ s[d].key = call[d].key /\ s[d].stopping = call[d].stopping
            /\ s[d].waiters = call[d].waiters /\ s[d].orphaned = call[d].orphaned
        BY <4>1 DEF CallRecord
      <4> QED BY <4>2, <4>3, <4>4 DEF OnlyWorkDiffers
    <3>2. Update(s)
      BY <1>5, <2>2 DEF TaskBegins
    <3> QED BY <1>2, <3>1, <3>2, CallStepKeeps
  <2> QED BY <2>1, <2>2
<1>6. CASE TaskResumes(d)
  BY <1>2, <1>3, <1>4, <1>6, SetTaskKeeps, SetWorkerKeeps DEF TaskResumes
<1>7. CASE TaskAnswers(d)
  BY <1>2, <1>3, <1>7, SetTaskKeeps DEF TaskAnswers
<1>8. CASE TaskCancelled(d)
  BY <1>2, <1>3, <1>8, SetTaskKeeps DEF TaskCancelled
<1>9. CASE WorkerBegins(d)
  BY <1>2, <1>4, <1>9, SetWorkerKeeps DEF WorkerBegins
<1>10. CASE WorkerEnds(d)
  BY <1>2, <1>4, <1>10, SetWorkerKeeps DEF WorkerEnds
<1> QED BY <1>5, <1>6, <1>7, <1>8, <1>9, <1>10

\* aclose cancels registered tasks that are under way and drops queued workers.
LEMMA CloseBeginKeeps ==
    ASSUME RuntimeInv, CloseBegin, UNCHANGED limit
    PROVE  RuntimeInv'
<1> DEFINE s == [d \in Callers |-> [call[d] EXCEPT
                    !.task   = IF Registered(d) /\ ~Done(d) THEN "cancelling" ELSE @,
                    !.worker = IF @ = "queued" THEN "done" ELSE @]]
<1>1. ASSUME NEW d \in Callers
      PROVE  /\ s[d] \in CallRecord
             /\ s[d].key = call[d].key /\ s[d].stopping = call[d].stopping
             /\ s[d].waiters = call[d].waiters /\ s[d].orphaned = call[d].orphaned
             /\ s[d].task = IF Registered(d) /\ ~Done(d) THEN "cancelling" ELSE call[d].task
             /\ s[d].worker = IF call[d].worker = "queued" THEN "done" ELSE call[d].worker
  <2>1. PICK r \in CallRecord : r = call[d]
    BY DEF RuntimeInv, Typed
  <2>2. PICK task \in TaskState :
           task = IF Registered(d) /\ ~Done(d) THEN "cancelling" ELSE r.task
    BY DEF CallRecord, TaskState
  <2>3. PICK worker \in WorkerState : worker = IF r.worker = "queued" THEN "done" ELSE r.worker
    BY DEF CallRecord, WorkerState
  <2>4. s[d] = [r EXCEPT !.task = task, !.worker = worker]
    BY <2>1, <2>2, <2>3
  <2> HIDE DEF s
  <2>5. s[d] \in CallRecord
    BY <2>4 DEF CallRecord
  <2>6. /\ s[d].task = task /\ s[d].worker = worker
        /\ s[d].key = r.key /\ s[d].stopping = r.stopping
        /\ s[d].waiters = r.waiters /\ s[d].orphaned = r.orphaned
    BY <2>4 DEF CallRecord
  <2> QED BY <2>1, <2>2, <2>3, <2>5, <2>6
<1>2. s \in [Callers -> CallRecord]
  BY <1>1
<1>3. Update(s)
  BY DEF CloseBegin
<1> HIDE DEF s
<1>4. Evolves(s)
  <2> SUFFICES ASSUME NEW d \in Callers
               PROVE  /\ call[d].task = "none" => s[d] = call[d]
                      /\ call[d].task # "none" => s[d].task # "none"
                      /\ Busy(s[d]) => Busy(call[d])
    BY <1>1, <1>2 DEF Evolves
  <2>1. ASSUME call[d].task = "none"
        PROVE  s[d] = call[d]
    <3>1. call[d] = NoRequest /\ call[d] \in CallRecord
      BY <2>1 DEF RuntimeInv, AbsentIsBlank, Typed
    <3>2. ~Registered(d)
      BY <2>1 DEF Registered
    <3>3. call[d].worker = "none"
      BY <3>1 DEF NoRequest
    <3>4. s[d].task = call[d].task /\ s[d].worker = call[d].worker
      BY <1>1, <3>2, <3>3
    <3>5. s[d].adapter = call[d].adapter
      BY <3>1 DEF s, CallRecord
    <3> QED BY <1>1, <3>1, <3>4, <3>5 DEF CallRecord
  <2> QED BY <1>1, <2>1 DEF Busy, Done
<1>5. /\ UNCHANGED <<limit, callerVars, cooling, quiesced>>
      /\ closed' = TRUE /\ closer' = "wait"
  BY DEF CloseBegin
<1> QED BY <1>1, <1>3, <1>4, <1>5, WorkKeeps

\* aclose goes quiescent only over calls that are over.
LEMMA CloseEndKeeps ==
    ASSUME RuntimeInv, CloseEnd, UNCHANGED limit
    PROVE  RuntimeInv'
<1>1. \A d \in Callers : (Active(d)' <=> Active(d)) /\ Members(d)' = Members(d)
  BY DEF CloseEnd, Active, Busy, Members, callerVars
<1>2. UNCHANGED <<limit, call, pc, req, on, woken, result, closed>>
  BY DEF CloseEnd, callerVars
<1>3. Typed'
  BY <1>2 DEF CloseEnd, RuntimeInv, Typed
<1>4. RegisteredIsActive' /\ QuiescedMeansIdle' /\ QuiescedIsClosed'
  <2>1. CASE \E d \in Callers : Active(d)
    BY <1>1, <1>2, <2>1 DEF CloseEnd, RuntimeInv, RegisteredIsActive, Registered,
                            QuiescedMeansIdle, QuiescedIsClosed, Active
  <2>2. CASE ~\E d \in Callers : Active(d)
    <3>1. \A k \in Keys : cur'[k] = NoCall
      BY <2>2 DEF CloseEnd
    <3>2. closed /\ closer' = "idle"
      BY DEF CloseEnd, RuntimeInv, QuiescedIsClosed
    <3> QED BY <1>1, <1>2, <2>2, <3>1, <3>2 DEF RegisteredIsActive, QuiescedMeansIdle, QuiescedIsClosed
  <2> QED BY <2>1, <2>2
<1>5. CapabilityLimit'
  BY <1>1, <1>2, FewerCallsBounded DEF RuntimeInv
<1>6. NoLostWakeup'
  BY <1>1, <1>2, MoreMembersNoLostWakeup DEF RuntimeInv
<1>7. CallersPlaced' /\ AbsentIsBlank'
  BY <1>2 DEF RuntimeInv, CallersPlaced, AbsentIsBlank
<1>8. MembersCounted' /\ OrphansMarked' /\ SharedNotCancelled'
  BY <1>1, <1>2 DEF RuntimeInv, MembersCounted, OrphansMarked, SharedNotCancelled
<1> QED BY <1>3, <1>4, <1>5, <1>6, <1>7, <1>8 DEF RuntimeInv

-----------------------------------------------------------------------------
(* The steps of the callers.                                               *)

\* Whatever changes nothing of the calls or of who waits for them.
LEMMA CallerKeeps ==
    ASSUME RuntimeInv, UNCHANGED <<limit, call, cur, on, closed, closer, quiesced>>,
           \A c \in Callers :
              /\ pc[c] \in {"wait", "grace"} \/ pc'[c] \in {"wait", "grace"} => pc'[c] = pc[c]
              /\ pc'[c] = "slot" => req'[c] \in Keys
              /\ pc'[c] \in {"idle", "slot"} => pc[c] \in {"idle", "slot"},
           pc' \in [Callers -> {"idle", "slot", "wait", "grace", "left", "end"}],
           req' \in [Callers -> Keys \cup {NoCall}],
           woken' \subseteq {c \in Callers : pc'[c] = "slot"},
           result' \in [Callers -> {"none", "value", "failure"}],
           cooling' \in BOOLEAN,
           NoLostWakeup'
    PROVE  RuntimeInv'
<1>1. \A d \in Callers : Members(d)' = Members(d) /\ (Active(d)' <=> Active(d))
  BY DEF Members, Active, Busy
<1>2. Typed'
  BY DEF RuntimeInv, Typed
<1>3. CallersPlaced' /\ AbsentIsBlank'
  BY DEF RuntimeInv, CallersPlaced, AbsentIsBlank
<1>4. MembersCounted' /\ OrphansMarked'
  BY <1>1 DEF RuntimeInv, MembersCounted, OrphansMarked
<1>5. SharedNotCancelled'
  BY <1>1 DEF RuntimeInv, SharedNotCancelled, Members
<1>6. RegisteredIsActive' /\ QuiescedMeansIdle' /\ QuiescedIsClosed'
  BY <1>1 DEF RuntimeInv, RegisteredIsActive, Registered, QuiescedMeansIdle, QuiescedIsClosed,
              Active
<1>7. CapabilityLimit'
  BY <1>1, FewerCallsBounded DEF RuntimeInv
<1> QED BY <1>2, <1>3, <1>4, <1>5, <1>6, <1>7 DEF RuntimeInv

\* A caller that is refused held no call.
LEMMA RefuseKeeps ==
    ASSUME RuntimeInv, NEW c \in Callers, pc[c] \in {"idle", "slot"}, Refuse(c),
           UNCHANGED <<limit, cooling, closeVars>>
    PROVE  RuntimeInv'
<1>1. \A e \in Callers : pc'[e] = IF e = c THEN "end" ELSE pc[e]
  BY DEF Refuse, RuntimeInv, Typed
<1>2. \A d \in Callers : Members(d)' = Members(d)
  BY <1>1 DEF Members, Refuse
<1>3. \A e \in Callers : pc'[e] = "slot" /\ e \notin woken' => pc[e] = "slot" /\ e \notin woken
  BY <1>1 DEF Refuse
<1>4. NoLostWakeup'
  BY <1>2, <1>3, MoreMembersNoLostWakeup DEF RuntimeInv
<1>5. \A e \in Callers : pc'[e] = "slot" => req'[e] \in Keys
  BY <1>1 DEF Refuse, RuntimeInv, Typed, CallersPlaced
<1>6. /\ pc' \in [Callers -> {"idle", "slot", "wait", "grace", "left", "end"}]
      /\ req' \in [Callers -> Keys \cup {NoCall}]
      /\ woken' \subseteq {e \in Callers : pc'[e] = "slot"}
  BY <1>1 DEF Refuse, RuntimeInv, Typed
<1> QED BY <1>1, <1>4, <1>5, <1>6, CallerKeeps DEF Refuse, RuntimeInv, Typed, closeVars

\* A caller goes to sleep only while as many calls are under way as may be, and
\* each of them has a caller that will notify it.
LEMMA AwaitSlotKeeps ==
    ASSUME RuntimeInv, NEW c \in Callers, NEW k \in Keys, pc[c] \in {"idle", "slot"},
           ~HasOrphan, AwaitSlot(c, k), UNCHANGED <<limit, cooling, closeVars>>
    PROVE  RuntimeInv'
<1>1. \A e \in Callers : pc'[e] = IF e = c THEN "slot" ELSE pc[e]
  BY DEF AwaitSlot, RuntimeInv, Typed
<1>2. \A d \in Callers : Members(d)' = Members(d)
  BY <1>1 DEF Members, AwaitSlot
<1>3. NoLostWakeup'
  <2> SUFFICES Cardinality({d \in Callers : Members(d)' # {}}) >= limit
    BY DEF NoLostWakeup, AwaitSlot
  <2> DEFINE T == {d \in Callers : Members(d)' # {}}
  <2>1. InFlight \in SUBSET T /\ T \in SUBSET Callers /\ InFlight \in SUBSET Callers
    BY <1>2 DEF InFlight, HasOrphan, RuntimeInv, OrphansMarked
  <2>2. Cardinality(InFlight) >= limit /\ limit \in Nat
    BY ProviderAssumption DEF AwaitSlot, RuntimeInv, Typed
  <2> HIDE DEF T
  <2>3. /\ Cardinality(InFlight) <= Cardinality(T)
        /\ Cardinality(T) \in Nat /\ Cardinality(InFlight) \in Nat
    BY <2>1, SmallerSet, CallersFinite
  <2>4. Cardinality(T) >= limit
    BY <2>2, <2>3
  <2> QED BY <2>4 DEF T
<1>4. \A e \in Callers : pc'[e] = "slot" => req'[e] \in Keys
  BY <1>1 DEF AwaitSlot, RuntimeInv, Typed, CallersPlaced
<1>5. /\ pc' \in [Callers -> {"idle", "slot", "wait", "grace", "left", "end"}]
      /\ req' \in [Callers -> Keys \cup {NoCall}]
      /\ woken' \subseteq {e \in Callers : pc'[e] = "slot"}
  BY <1>1 DEF AwaitSlot, RuntimeInv, Typed
<1> QED BY <1>1, <1>3, <1>4, <1>5, CallerKeeps DEF AwaitSlot, RuntimeInv, Typed, closeVars

LEMMA RecordKeeps ==
    ASSUME RuntimeInv, NEW c \in Callers, RecordFailure(c) \/ RecordSuccess(c), UNCHANGED limit
    PROVE  RuntimeInv'
<1>1. PICK outcome : Record(c, outcome)
  BY DEF RecordFailure, RecordSuccess
<1>2. \A e \in Callers : pc'[e] = IF e = c THEN "end" ELSE pc[e]
  BY <1>1 DEF Record, RuntimeInv, Typed
<1>3. pc[c] = "left"
  BY <1>1 DEF Record
<1>4. \A d \in Callers : Members(d)' = Members(d)
  BY <1>1, <1>2, <1>3 DEF Members, Record
<1>5. NoLostWakeup'
  BY <1>1, <1>2, <1>4, MoreMembersNoLostWakeup DEF RuntimeInv, Record
<1>6. /\ pc' \in [Callers -> {"idle", "slot", "wait", "grace", "left", "end"}]
      /\ result' \in [Callers -> {"none", "value", "failure"}]
      /\ woken' \subseteq {e \in Callers : pc'[e] = "slot"}
  BY <1>1, <1>2, <1>3 DEF Record, RuntimeInv, Typed
<1>7. cooling' \in BOOLEAN
  BY DEF RecordFailure, RecordSuccess, RuntimeInv, Typed
<1>8. \A e \in Callers : pc'[e] = "slot" => req'[e] \in Keys
  BY <1>1, <1>2 DEF Record, RuntimeInv, CallersPlaced
<1> QED BY <1>1, <1>2, <1>3, <1>5, <1>6, <1>7, <1>8, CallerKeeps
           DEF Record, RuntimeInv, Typed, closeVars

LEMMA CooldownKeeps ==
    ASSUME RuntimeInv, CooldownEnds, UNCHANGED limit
    PROVE  RuntimeInv'
<1>1. NoLostWakeup'
  BY MoreMembersNoLostWakeup DEF CooldownEnds, callerVars, RuntimeInv, Members
<1> QED BY <1>1, CallerKeeps DEF CooldownEnds, callerVars, closeVars, RuntimeInv, Typed,
                                 CallersPlaced

\* The last caller that leaves marks the call it leaves behind.
LEMMA LeaveKeeps ==
    ASSUME RuntimeInv, NEW c \in Callers, pc[c] \in {"wait", "grace"},
           NEW why \in {"none", "value", "failure"}, Leave(c, why), UNCHANGED limit
    PROVE  RuntimeInv'
<1>1. PICK d \in Callers : d = on[c] /\ call[d].task # "none"
  BY DEF RuntimeInv, CallersPlaced
<1>2. \A e \in Callers : /\ pc'[e] = IF e = c THEN IF why = "none" THEN "end" ELSE "left"
                                     ELSE pc[e]
                         /\ on'[e] = IF e = c THEN NoCall ELSE on[e]
  BY DEF Leave, RuntimeInv, Typed
<1>3. Members(d)' = Members(d) \ {c} /\ \A e \in Callers : e # d => Members(e)' = Members(e)
  BY <1>1, <1>2 DEF Members
<1>4. c \in Members(d) /\ IsFiniteSet(Members(d)) /\ Cardinality(Members(d)) \in Nat
  BY <1>1, CallersFinite DEF Members
<1>5. Cardinality(Members(d)) # 0
  BY <1>4, FS_EmptySet
<1>6. IsFiniteSet(Members(d) \ {c}) /\ Cardinality(Members(d) \ {c}) = Cardinality(Members(d)) - 1
  BY <1>4, FS_RemoveElement
<1>7. call[d].waiters = Cardinality(Members(d))
  BY DEF RuntimeInv, MembersCounted
<1>8. PICK n \in Nat : n = call[d].waiters - 1
  BY <1>4, <1>5, <1>7
<1>9. PICK o \in BOOLEAN : o = (call[d].orphaned \/ (call[d].waiters = 1 /\ Busy(call[d])))
  OBVIOUS
<1> DEFINE s == [call EXCEPT ![d].waiters = n, ![d].orphaned = o]
<1>10. Update(s)
  BY <1>1, <1>8, <1>9 DEF Leave
<1>11. call \in [Callers -> CallRecord]
  BY DEF RuntimeInv, Typed
<1>12. s \in [Callers -> CallRecord]
  BY <1>11 DEF CallRecord
<1>13. \A e \in Callers : e # d => s[e] = call[e]
  BY <1>11
<1>14. s[d].waiters = n /\ s[d].orphaned = o
  BY <1>11 DEF CallRecord
<1>15. /\ s[d].key = call[d].key /\ s[d].stopping = call[d].stopping
       /\ s[d].task = call[d].task /\ s[d].worker = call[d].worker
  BY <1>11 DEF CallRecord
<1> HIDE DEF s
<1>16. Evolves(s)
  BY <1>1, <1>12, <1>13, <1>15 DEF Evolves, Busy
<1>17. ASSUME NEW e \in Callers
       PROVE  /\ s[e].waiters = Cardinality(Members(e)')
              /\ Busy(s[e]) => Members(e)' # {} \/ s[e].orphaned \/ call[e].task = "none"
  <2>1. CASE e # d
    BY <2>1, <1>3, <1>13 DEF RuntimeInv, MembersCounted, OrphansMarked, Active
  <2>2. CASE e = d
    <3>1. s[d].waiters = Cardinality(Members(d)')
      BY <1>3, <1>6, <1>7, <1>8, <1>14
    <3>2. Busy(s[d]) => Busy(call[d])
      BY <1>15 DEF Busy
    <3>3. call[d].waiters = 1 /\ Busy(call[d]) => s[d].orphaned
      BY <1>9, <1>14
    <3>4. call[d].waiters # 1 => Members(d) \ {c} # {}
      BY <1>4, <1>6, <1>7, FS_EmptySet
    <3> QED BY <2>2, <1>3, <3>1, <3>2, <3>3, <3>4
  <2> QED BY <2>1, <2>2
<1>18. OnlyLeaving
  BY <1>2 DEF OnlyLeaving, Leave
<1>19. NoLostWakeup'
  BY <1>2 DEF NoLostWakeup, Leave
<1>20. /\ pc' \in [Callers -> {"idle", "slot", "wait", "grace", "left", "end"}]
       /\ on' \in [Callers -> Callers \cup {NoCall}]
       /\ result' \in [Callers -> {"none", "value", "failure"}]
       /\ woken' \subseteq {e \in Callers : pc'[e] = "slot"}
  BY <1>2 DEF Leave, RuntimeInv, Typed
<1>21. /\ UNCHANGED <<limit, req, cooling, closed, closer, quiesced>>
       /\ closer = "wait" => closed
  BY DEF Leave, closeVars, RuntimeInv, QuiescedIsClosed
<1> QED BY <1>10, <1>16, <1>17, <1>18, <1>19, <1>20, <1>21, UpdateKeeps DEF RuntimeInv, Typed

\* The parts that follow the activity of the calls.
LEMMA SameActivity ==
    ASSUME RuntimeInv, UNCHANGED <<limit, cur, closed, closer, quiesced>>,
           \A d \in Callers : (Active(d)' <=> Active(d)) /\ call'[d].key = call[d].key
    PROVE  RegisteredIsActive' /\ CapabilityLimit' /\ QuiescedMeansIdle' /\ QuiescedIsClosed'
<1>1. CapabilityLimit'
  BY FewerCallsBounded DEF RuntimeInv
<1>2. RegisteredIsActive'
  <2>1. ASSUME NEW k \in Keys, cur[k] # NoCall
        PROVE  Active(cur[k])' /\ call'[cur[k]].key = k
    <3>1. PICK d \in Callers : d = cur[k]
      BY <2>1 DEF RuntimeInv, Typed
    <3>2. Active(d) /\ call[d].key = k
      BY <2>1, <3>1 DEF RuntimeInv, RegisteredIsActive
    <3> QED BY <3>1, <3>2
  <2>2. ASSUME NEW d \in Callers, Active(d)'
        PROVE  call'[d].key \in Keys /\ Registered(d)'
    <3>1. call[d].key \in Keys /\ Registered(d)
      BY <2>2 DEF RuntimeInv, RegisteredIsActive
    <3> QED BY <2>2, <3>1 DEF Registered, Active
  <2> QED BY <2>1, <2>2 DEF RegisteredIsActive
<1> QED BY <1>1, <1>2 DEF RuntimeInv, QuiescedMeansIdle, QuiescedIsClosed

\* A caller that joins is counted, and takes an orphaned call over.
LEMMA JoinKeeps ==
    ASSUME RuntimeInv, NEW c \in Callers, NEW k \in Keys, pc[c] \in {"idle", "slot"},
           Join(c, k), UNCHANGED <<limit, cooling, closeVars>>
    PROVE  RuntimeInv'
<1>1. PICK d \in Callers : d = cur[k] /\ Active(d) /\ ~call[d].stopping
  BY DEF Join, Joinable, RuntimeInv, Typed, RegisteredIsActive
<1>2. \A e \in Callers : /\ pc'[e] = IF e = c THEN "wait" ELSE pc[e]
                         /\ on'[e] = IF e = c THEN d ELSE on[e]
  BY <1>1 DEF Join, Enter, RuntimeInv, Typed
<1>3. /\ Members(d)' = Members(d) \cup {c} /\ c \notin Members(d)
      /\ \A e \in Callers : e # d => Members(e)' = Members(e)
  BY <1>2 DEF Members
<1>4. IsFiniteSet(Members(d)) /\ Cardinality(Members(d)) \in Nat
  BY CallersFinite DEF Members
<1>5. Cardinality(Members(d)') = call[d].waiters + 1
  BY <1>3, <1>4, FS_AddElement DEF RuntimeInv, MembersCounted
<1>6. PICK n \in Nat : n = call[d].waiters + 1
  BY <1>4 DEF RuntimeInv, MembersCounted
<1>7. call' = [call EXCEPT ![d].waiters = n, ![d].orphaned = FALSE]
  BY <1>1, <1>6 DEF Join
<1>8. call \in [Callers -> CallRecord]
  BY DEF RuntimeInv, Typed
<1>9. call' \in [Callers -> CallRecord]
  BY <1>7, <1>8 DEF CallRecord
<1>10. /\ call'[d].waiters = n
       /\ \A e \in Callers : e # d => call'[e] = call[e]
  BY <1>7, <1>8 DEF CallRecord
<1>11. /\ call'[d].key = call[d].key /\ call'[d].stopping = call[d].stopping
       /\ call'[d].task = call[d].task /\ call'[d].worker = call[d].worker
  BY <1>7, <1>8 DEF CallRecord
<1>12. \A e \in Callers : (Active(e)' <=> Active(e)) /\ call'[e].key = call[e].key
                          /\ call'[e].stopping = call[e].stopping
                          /\ call'[e].task = call[e].task
  BY <1>10, <1>11 DEF Active, Busy
<1>13. UNCHANGED <<limit, cur, closed, closer, quiesced, result, cooling>>
  BY DEF Join, Enter, closeVars
<1>14. Typed'
  BY <1>2, <1>9, <1>13 DEF RuntimeInv, Typed, Join, Enter
<1>15. CallersPlaced'
  BY <1>1, <1>2, <1>12 DEF RuntimeInv, CallersPlaced, Join, Enter, Typed, Active
<1>16. MembersCounted'
  BY <1>3, <1>5, <1>6, <1>10 DEF RuntimeInv, MembersCounted
<1>17. AbsentIsBlank'
  BY <1>1, <1>2, <1>10, <1>12 DEF RuntimeInv, AbsentIsBlank, Active
<1>18. OrphansMarked'
  BY <1>3, <1>10, <1>12 DEF RuntimeInv, OrphansMarked
<1>19. SharedNotCancelled'
  <2> SUFFICES ASSUME NEW e \in Callers, call'[e].stopping, NEW x \in Members(e)'
               PROVE  Members(e)' = {x} /\ pc'[x] # "wait"
    BY DEF SharedNotCancelled
  <2>1. e # d /\ call[e].stopping /\ Members(e)' = Members(e)
    BY <1>1, <1>3, <1>12
  <2>2. Members(e) = {x} /\ pc[x] # "wait" /\ x # c
    BY <2>1 DEF RuntimeInv, SharedNotCancelled, Members
  <2> QED BY <1>2, <2>1, <2>2 DEF Members
<1>20. NoLostWakeup'
  <2>1. \A e \in Callers : Members(e) # {} => Members(e)' # {}
    BY <1>3
  <2>2. \A e \in Callers : pc'[e] = "slot" /\ e \notin woken' => pc[e] = "slot" /\ e \notin woken
    BY <1>2 DEF Join, Enter
  <2> QED BY <1>13, <2>1, <2>2, MoreMembersNoLostWakeup DEF RuntimeInv
<1> QED BY <1>12, <1>13, <1>14, <1>15, <1>16, <1>17, <1>18, <1>19, <1>20, SameActivity
        DEF RuntimeInv

\* A call is begun only for a vacant key, below the limit and before the close.
LEMMA StartKeeps ==
    ASSUME RuntimeInv, NEW c \in Callers, NEW k \in Keys, pc[c] \in {"idle", "slot"},
           ~closed, Vacant(k), Start(c, k), UNCHANGED <<limit, cooling, closeVars>>
    PROVE  RuntimeInv'
<1>1. call[c].task = "none" /\ ~Active(c) /\ c # NoCall
  BY ProviderAssumption DEF RuntimeInv, AbsentIsBlank, Active
<1>2. cur[k] = NoCall
  <2> SUFFICES ASSUME cur[k] # NoCall
               PROVE  FALSE
    OBVIOUS
  <2>1. Active(cur[k])
    BY DEF RuntimeInv, RegisteredIsActive
  <2> QED BY <2>1 DEF Vacant, Settling
<1>3. PICK adapter \in Adapters :
         call' = [call EXCEPT ![c] = [NoRequest EXCEPT
                     !.adapter = adapter, !.key = k, !.task = "new", !.waiters = 1]]
  BY DEF Start
<1> DEFINE r == [NoRequest EXCEPT !.adapter = adapter, !.key = k, !.task = "new", !.waiters = 1]
<1>4. /\ r \in CallRecord
      /\ r.task = "new" /\ r.key = k /\ r.waiters = 1 /\ r.stopping = FALSE
  BY DEF NoRequest, CallRecord, TaskState, WorkerState
<1> HIDE DEF r
<1>5. call' \in [Callers -> CallRecord] /\ call'[c] = r
  BY <1>3, <1>4 DEF RuntimeInv, Typed, r
<1>6. /\ call'[c].task = "new" /\ call'[c].key = k /\ call'[c].waiters = 1
      /\ ~call'[c].stopping
      /\ \A e \in Callers : e # c => call'[e] = call[e]
  BY <1>3, <1>4, <1>5 DEF RuntimeInv, Typed
<1>7. \A e \in Callers : /\ pc'[e] = IF e = c THEN "wait" ELSE pc[e]
                         /\ on'[e] = IF e = c THEN c ELSE on[e]
  BY DEF Start, Enter, RuntimeInv, Typed
<1>8. \A x \in Keys : cur'[x] = IF x = k THEN c ELSE cur[x]
  BY DEF Start, RuntimeInv, Typed
<1>9. Members(c)' = {c} /\ \A e \in Callers : e # c => Members(e)' = Members(e)
  <2>1. Members(c) = {}
    BY <1>1 DEF RuntimeInv, CallersPlaced, Members
  <2> QED BY <1>7, <2>1 DEF Members
<1>10. Active(c)' /\ \A e \in Callers : e # c => (Active(e)' <=> Active(e))
  BY <1>6 DEF Active, Busy, TaskDone
<1>11. UNCHANGED <<limit, closed, closer, quiesced, result, cooling>>
  BY DEF Start, Enter, closeVars
<1>12. Typed'
  BY <1>5, <1>7, <1>11 DEF RuntimeInv, Typed, Start, Enter
<1>13. CallersPlaced'
  BY <1>1, <1>6, <1>7 DEF RuntimeInv, CallersPlaced, Start, Enter, Typed
<1>14. MembersCounted'
  BY <1>6, <1>9, FS_Singleton DEF RuntimeInv, MembersCounted
<1>15. AbsentIsBlank'
  BY <1>6, <1>7 DEF RuntimeInv, AbsentIsBlank
<1>16. RegisteredIsActive'
  <2>1. ASSUME NEW x \in Keys, cur'[x] # NoCall
        PROVE  Active(cur[x])' /\ call'[cur'[x]].key = x
    <3>1. CASE x = k
      <4>1. cur'[x] = c
        BY <1>8, <3>1
      <4> QED BY <1>6, <1>10, <3>1, <4>1 DEF Active
    <3>2. CASE x # k
      <4>1. PICK e \in Callers : e = cur[x] /\ Active(e) /\ call[e].key = x /\ cur'[x] = e
        BY <1>8, <2>1, <3>2 DEF RuntimeInv, Typed, RegisteredIsActive
      <4>2. e # c
        BY <1>1, <4>1
      <4>3. Active(e)' /\ call'[e].key = x
        BY <1>6, <1>10, <4>1, <4>2
      <4> QED BY <4>1, <4>3 DEF Active
    <3> QED BY <3>1, <3>2
  <2>2. ASSUME NEW d \in Callers, Active(d)'
        PROVE  call'[d].key \in Keys /\ cur'[call'[d].key] = d
    <3>1. CASE d = c
      BY <1>6, <1>8, <3>1
    <3>2. CASE d # c
      <4>1. Active(d) /\ call'[d].key = call[d].key
        BY <1>6, <1>10, <2>2, <3>2
      <4>2. call[d].key \in Keys /\ cur[call[d].key] = d /\ call[d].key # k
        BY <1>2, <4>1, ProviderAssumption DEF RuntimeInv, RegisteredIsActive, Registered
      <4> QED BY <1>8, <4>1, <4>2
    <3> QED BY <3>1, <3>2
  <2> QED BY <2>1, <2>2 DEF RegisteredIsActive, Registered, Active
<1>17. OrphansMarked'
  BY <1>6, <1>9, <1>10 DEF RuntimeInv, OrphansMarked
<1>18. SharedNotCancelled'
  <2> SUFFICES ASSUME NEW e \in Callers, call'[e].stopping, NEW x \in Members(e)'
               PROVE  Members(e)' = {x} /\ pc'[x] # "wait"
    BY DEF SharedNotCancelled
  <2>1. e # c /\ call[e].stopping /\ Members(e)' = Members(e)
    BY <1>6, <1>9
  <2>2. Members(e) = {x} /\ pc[x] # "wait" /\ x # c
    BY <2>1 DEF RuntimeInv, SharedNotCancelled, Members
  <2> QED BY <1>7, <2>1, <2>2 DEF Members
<1>19. NoLostWakeup'
  <2>1. \A e \in Callers : Members(e) # {} => Members(e)' # {}
    BY <1>9
  <2>2. \A e \in Callers : pc'[e] = "slot" /\ e \notin woken' => pc[e] = "slot" /\ e \notin woken
    BY <1>7 DEF Start, Enter
  <2> QED BY <1>11, <2>1, <2>2, MoreMembersNoLostWakeup DEF RuntimeInv
<1>20. CapabilityLimit'
  <2> DEFINE T == {d \in Callers : Active(d)'}
  <2>1. T = InFlight \cup {c} /\ c \notin InFlight /\ InFlight \in SUBSET Callers
    BY <1>1, <1>10 DEF InFlight, RuntimeInv, RegisteredIsActive
  <2>2. IsFiniteSet(InFlight) /\ Cardinality(InFlight) \in Nat
    BY <2>1, CallersFinite
  <2>3. Cardinality(InFlight) < limit /\ limit \in Nat
    BY ProviderAssumption DEF Start, RuntimeInv, Typed
  <2> HIDE DEF T
  <2>4. Cardinality(T) = Cardinality(InFlight) + 1
    BY <2>1, <2>2, FS_AddElement
  <2>5. Cardinality(T) <= limit
    BY <2>2, <2>3, <2>4
  <2> QED BY <1>11, <2>5 DEF CapabilityLimit, T
<1>21. QuiescedIsClosed' /\ QuiescedMeansIdle'
  BY <1>11 DEF RuntimeInv, QuiescedIsClosed, QuiescedMeansIdle
<1> QED BY <1>12, <1>13, <1>14, <1>15, <1>16, <1>17, <1>18, <1>19, <1>20, <1>21 DEF RuntimeInv

\* A caller that gives up stops a call that it has to itself, and waits for the
\* call to settle.
LEMMA GiveUpKeeps ==
    ASSUME RuntimeInv, NEW c \in Callers, GiveUp(c), UNCHANGED limit
    PROVE  RuntimeInv'
<1>1. CASE \E why \in {"failure", "none"} : Leave(c, why)
  BY <1>1, LeaveKeeps DEF GiveUp
<1>2. CASE ~\E why \in {"failure", "none"} : Leave(c, why)
  <2>1. PICK d \in Callers : /\ d = on[c] /\ call[d].task # "none" /\ ~Done(d) /\ Unshared(d)
                             /\ pc[c] = "wait"
    BY <1>2 DEF GiveUp, RuntimeInv, CallersPlaced
  <2>2. PICK why \in {"failure", "none"} :
           /\ call' = [call EXCEPT ![on[c]].stopping = TRUE, ![on[c]].task = "cancelling",
                                   ![on[c]].worker = IF @ = "queued" THEN "done" ELSE @]
           /\ pc' = [pc EXCEPT ![c] = "grace"]
           /\ result' = [result EXCEPT ![c] = why]
           /\ UNCHANGED <<cur, req, on, woken, cooling, closeVars>>
    BY <1>2 DEF GiveUp
  <2>3. call \in [Callers -> CallRecord]
    BY DEF RuntimeInv, Typed
  <2>4. PICK w \in WorkerState : w = IF call[d].worker = "queued" THEN "done" ELSE call[d].worker
    BY <2>3 DEF CallRecord, WorkerState
  <2>5. call' = [call EXCEPT ![d].stopping = TRUE, ![d].task = "cancelling", ![d].worker = w]
    BY <2>1, <2>2, <2>4
  <2>6. call' \in [Callers -> CallRecord]
    <3>1. PICK r \in CallRecord : r = call[d]
      BY <2>3
    <3>2. call'[d] = [r EXCEPT !.stopping = TRUE, !.task = "cancelling", !.worker = w]
      BY <2>3, <2>5, <3>1
    <3>3. call'[d] \in CallRecord
      BY <3>2 DEF CallRecord, TaskState
    <3>4. /\ call' = [e \in Callers |-> call'[e]]
          /\ \A e \in Callers : e # d => call'[e] = call[e]
      BY <2>3, <2>5
    <3> QED BY <2>3, <3>3, <3>4
  <2>7. /\ call'[d].stopping = TRUE /\ call'[d].task = "cancelling" /\ call'[d].worker = w
        /\ \A e \in Callers : e # d => call'[e] = call[e]
    BY <2>3, <2>5 DEF CallRecord
  <2>8. /\ call'[d].key = call[d].key /\ call'[d].waiters = call[d].waiters
        /\ call'[d].orphaned = call[d].orphaned
    BY <2>3, <2>5 DEF CallRecord
  <2>9. \A e \in Callers : pc'[e] = IF e = c THEN "grace" ELSE pc[e]
    BY <2>2 DEF RuntimeInv, Typed
  <2>10. \A e \in Callers : Members(e)' = Members(e)
    BY <2>1, <2>2, <2>9 DEF Members
  <2>11. \A e \in Callers : (Active(e)' <=> Active(e)) /\ call'[e].key = call[e].key
    BY <2>1, <2>7, <2>8 DEF Active, Busy, Done, TaskDone
  <2>12. Members(d) = {c}
    <3>1. c \in Members(d) /\ IsFiniteSet(Members(d)) /\ Cardinality(Members(d)) = 1
      BY <2>1, CallersFinite DEF Members, Unshared, RuntimeInv, MembersCounted
    <3> QED BY <3>1, FS_Singleton
  <2>13. Typed'
    BY <2>2, <2>6, <2>9, <2>1 DEF RuntimeInv, Typed, closeVars
  <2>14. CallersPlaced'
    <3> SUFFICES ASSUME NEW e \in Callers
                 PROVE  /\ pc'[e] = "slot" => req[e] \in Keys
                        /\ pc'[e] \in {"wait", "grace"} => on[e] \in Callers
                                                         /\ call'[on[e]].task # "none"
                        /\ pc'[e] = "grace" => call'[on[e]].stopping
      BY <2>2 DEF CallersPlaced
    <3>1. CASE e = c
      BY <2>1, <2>7, <2>9, <3>1
    <3>2. CASE e # c
      BY <2>7, <2>9, <3>2 DEF RuntimeInv, CallersPlaced
    <3> QED BY <3>1, <3>2
  <2>15. MembersCounted' /\ OrphansMarked'
    BY <2>7, <2>8, <2>10, <2>11 DEF RuntimeInv, MembersCounted, OrphansMarked
  <2>16. AbsentIsBlank'
    BY <2>1, <2>7, <2>9 DEF RuntimeInv, AbsentIsBlank
  <2>17. SharedNotCancelled'
    <3> SUFFICES ASSUME NEW e \in Callers, call'[e].stopping, NEW x \in Members(e)'
                 PROVE  Members(e)' = {x} /\ pc'[x] # "wait"
      BY DEF SharedNotCancelled
    <3>1. CASE e = d
      BY <2>9, <2>10, <2>12, <3>1
    <3>2. CASE e # d
      <4>1. call[e].stopping /\ x \in Members(e) /\ x # c
        BY <2>1, <2>7, <2>10, <3>2 DEF Members
      <4>2. Members(e) = {x} /\ pc[x] # "wait"
        BY <4>1 DEF RuntimeInv, SharedNotCancelled
      <4> QED BY <2>9, <2>10, <4>1, <4>2 DEF Members
    <3> QED BY <3>1, <3>2
  <2>18. NoLostWakeup'
    BY <2>2, <2>9, <2>10, MoreMembersNoLostWakeup DEF RuntimeInv
  <2>19. RegisteredIsActive' /\ CapabilityLimit' /\ QuiescedMeansIdle' /\ QuiescedIsClosed'
    BY <2>2, <2>11, SameActivity DEF closeVars
  <2> QED BY <2>13, <2>14, <2>15, <2>16, <2>17, <2>18, <2>19 DEF RuntimeInv
<1> QED BY <1>1, <1>2

LEMMA AdmitKeeps ==
    ASSUME RuntimeInv, NEW c \in Callers, NEW k \in Keys, pc[c] \in {"idle", "slot"},
           Admit(c, k), UNCHANGED <<limit, cooling, closeVars>>
    PROVE  RuntimeInv'
BY RefuseKeeps, JoinKeeps, StartKeeps, AwaitSlotKeeps DEF Admit

LEMMA CallerStepKeeps ==
    ASSUME RuntimeInv, NEW c \in Callers, CallerSteps(c), UNCHANGED limit
    PROVE  RuntimeInv'
<1>1. CASE SlotRetry(c)
  <2>1. pc[c] = "slot" /\ req[c] \in Keys
    BY <1>1 DEF SlotRetry, RuntimeInv, Typed, CallersPlaced
  <2> QED BY <1>1, <2>1, AdmitKeeps DEF SlotRetry
<1>2. CASE SlotTimeout(c)
  BY <1>2, RefuseKeeps DEF SlotTimeout
<1>3. CASE WaitDone(c)
  <2>1. call[on[c]].task \in TaskDone
    BY <1>3 DEF WaitDone, Done
  <2>2. \E why \in {"none", "value", "failure"} : Leave(c, why)
    BY <1>3, <2>1 DEF WaitDone, TaskDone
  <2> QED BY <1>3, <2>2, LeaveKeeps DEF WaitDone
<1>4. CASE GiveUp(c)
  BY <1>4, GiveUpKeeps
<1>5. CASE GraceEnds(c)
  BY <1>5, LeaveKeeps DEF GraceEnds, RuntimeInv, Typed
<1> QED BY <1>1, <1>2, <1>3, <1>4, <1>5 DEF CallerSteps

LEMMA InitHasRuntimeInv ==
    ASSUME Init
    PROVE  RuntimeInv
<1>1. \A d \in Callers : ~Active(d) /\ Members(d) = {}
  BY DEF Init, Active, NoRequest, Members
<1>2. Typed
  BY BlankIsTyped DEF Init, Typed
<1>3. MembersCounted
  BY <1>1, FS_EmptySet DEF Init, MembersCounted, NoRequest
<1>4. CapabilityLimit
  <2>1. {d \in Callers : Active(d)} = {}
    BY <1>1
  <2>2. limit \in Nat
    BY <1>2, ProviderAssumption DEF Typed
  <2> QED BY <2>1, <2>2, FS_EmptySet DEF CapabilityLimit
<1>5. SharedNotCancelled
  BY DEF Init, SharedNotCancelled, NoRequest
<1> QED BY <1>1, <1>2, <1>3, <1>4, <1>5
        DEF Init, RuntimeInv, CallersPlaced, AbsentIsBlank, RegisteredIsActive, OrphansMarked,
            QuiescedIsClosed, NoLostWakeup, QuiescedMeansIdle, NoRequest

LEMMA RuntimeInvInductive ==
    ASSUME RuntimeInv, [Next]_vars
    PROVE  RuntimeInv'
<1>1. CASE UNCHANGED vars
  <2>1. NoLostWakeup'
    BY <1>1, MoreMembersNoLostWakeup DEF vars, callerVars, RuntimeInv, Members
  <2> QED BY <1>1, <2>1, CallerKeeps DEF vars, callerVars, closeVars, RuntimeInv, Typed,
                                          CallersPlaced
<1>2. CASE Next
  <2>1. CASE \E c \in Callers, k \in Keys : Request(c, k)
    BY <1>2, <2>1, AdmitKeeps DEF Next, Request
  <2>2. CASE \E c \in Callers : CallerSteps(c)
    BY <1>2, <2>2, CallerStepKeeps DEF Next
  <2>3. CASE \E c \in Callers : RecordFailure(c) \/ RecordSuccess(c)
    BY <1>2, <2>3, RecordKeeps DEF Next
  <2>4. CASE \E c \in Callers : LoopSteps(c) \/ TaskAnswers(c) \/ TaskCancelled(c) \/ WorkerEnds(c)
    BY <1>2, <2>4, WorkStepKeeps DEF Next, LoopSteps
  <2>5. CASE CooldownEnds
    BY <1>2, <2>5, CooldownKeeps DEF Next
  <2>6. CASE CloseBegin \/ CloseEnd
    BY <1>2, <2>6, CloseBeginKeeps, CloseEndKeeps DEF Next
  <2> QED BY <1>2, <2>1, <2>2, <2>3, <2>4, <2>5, <2>6 DEF Next, Step
<1> QED BY <1>1, <1>2

-----------------------------------------------------------------------------
(* The theorems.                                                           *)

\* The calls under way are those registered, and each is counted, marked and
\* bounded as the properties below say (ProviderRuntime).
THEOREM RuntimeInvariant == Spec => []RuntimeInv
<1> QED BY InitHasRuntimeInv, RuntimeInvInductive, PTL DEF Spec

\* The state stays well typed and the counter of waiters exact.
THEOREM RuntimeTypeCorrect == Spec => []TypeOK
<1>1. RuntimeInv => TypeOK
  BY DEF RuntimeInv, Typed, MembersCounted, TypeOK, CallRecord
<1> QED BY <1>1, RuntimeInvariant, PTL

\* Requests for one key share one fetch (_join_existing_provider_call).
THEOREM KeysShareFetch == Spec => []OneFetchPerKey
<1>1. RuntimeInv => OneFetchPerKey
  BY DEF RuntimeInv, RegisteredIsActive, Registered, OneFetchPerKey
<1> QED BY <1>1, RuntimeInvariant, PTL

\* A capability never has more calls under way than its limit, orphaned worker
\* threads included (_active_provider_call_count).
THEOREM CapabilityIsLimited == Spec => []CapabilityLimit
<1>1. RuntimeInv => CapabilityLimit
  BY DEF RuntimeInv
<1> QED BY <1>1, RuntimeInvariant, PTL

\* A call under way has a caller or is marked orphaned, and stays registered
\* (_wait_for_provider_task).
THEOREM CallsAreAccounted == Spec => []NothingAbandoned
<1>1. RuntimeInv => NothingAbandoned
  BY DEF RuntimeInv, RegisteredIsActive, OrphansMarked, NothingAbandoned
<1> QED BY <1>1, RuntimeInvariant, PTL

\* No caller's deadline cancels a call that another one waits for
\* (_stop_unshared_async_call).
THEOREM CallersAreIsolated == Spec => []SharedNotCancelled
<1>1. RuntimeInv => SharedNotCancelled
  BY DEF RuntimeInv
<1> QED BY <1>1, RuntimeInvariant, PTL

\* No caller sleeps through the last notification of a slot (notify_all).
THEOREM WakeupsAreKept == Spec => []NoLostWakeup
<1>1. RuntimeInv => NoLostWakeup
  BY DEF RuntimeInv
<1> QED BY <1>1, RuntimeInvariant, PTL

\* When aclose reports quiescence no call is left and none comes to life.
THEOREM QuiescenceIsFinal == Spec => []QuiescedMeansIdle
<1>1. RuntimeInv => QuiescedMeansIdle
  BY DEF RuntimeInv
<1> QED BY <1>1, RuntimeInvariant, PTL
=============================================================================
