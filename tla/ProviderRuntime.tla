---------------------------- MODULE ProviderRuntime ----------------------------
(***************************************************************************)
(* ProviderRuntime: the calls to one capability of one data provider.      *)
(*                                                                         *)
(* Callers that ask for the same request key share one provider call; the  *)
(* calls of a capability are limited; a caller leaves at its deadline, but *)
(* an SDK call on a worker thread cannot be stopped and stays tracked,     *)
(* orphaned, until the thread returns.  Everything runs on one event loop  *)
(* except the workers; an action is the code between two awaits.  The      *)
(* condition's lock is never held across an await, so that entering it     *)
(* costs no step.                                                          *)
(***************************************************************************)
EXTENDS Naturals, FiniteSets

CONSTANTS
    Callers,      \* requests; a call is named after the caller that began it
    Keys,         \* request keys
    NoCall,       \* no entry of _provider_calls
    Limits,       \* values _capability_max_in_flight may have
    MaxWorkers,   \* executor threads left to this capability
    Adapters      \* "sync": SDK call on the executor; "async": awaited I/O

ASSUME ProviderAssumption ==
    /\ NoCall \notin Callers
    /\ Limits \subseteq Nat \ {0}
    /\ MaxWorkers \in Nat \ {0}
    /\ Adapters \subseteq {"sync", "async"}
    /\ IsFiniteSet(Callers)

VARIABLES
    limit,    \* _capability_max_in_flight, a setting
    call,     \* the _ProviderCallState each caller may have begun
    cur,      \* _provider_calls: the call registered under each key
    pc,       \* where each caller is
    req,      \* the request key of each caller
    on,       \* the call each caller waits for
    woken,    \* callers notified on the capability's condition
    result,   \* "value", or "failure" for an error or a timeout of the provider
    cooling,  \* the capability has a cooldown that has not run out
    closed,   \* _closed (and _executor_shutdown)
    closer,   \* progress of aclose
    quiesced  \* _quiesced

callerVars == <<pc, req, on, woken, result>>
closeVars  == <<closed, closer, quiesced>>
vars       == <<limit, call, cur, callerVars, cooling, closeVars>>

-----------------------------------------------------------------------------
TaskDone    == {"ok", "error", "cancelled"}
TaskState   == {"none", "new", "async", "io", "cancelling"} \cup TaskDone
WorkerState == {"none", "queued", "running", "done"}

NoRequest == [adapter |-> "none", key |-> NoCall, task |-> "none", worker |-> "none",
              waiters |-> 0, orphaned |-> FALSE, stopping |-> FALSE]

Done(d) == call[d].task \in TaskDone

\* _provider_call_is_active
Busy(s)   == s.task \notin TaskDone \/ s.worker \in {"queued", "running"}
Active(d) == call[d].task # "none" /\ Busy(call[d])

Registered(d) == call[d].task # "none" /\ cur[call[d].key] = d

\* _active_provider_call_count counts these.
InFlight == {d \in Callers : Registered(d) /\ Active(d)}

\* The calls become s.  An entry of _provider_calls that is over is treated as
\* absent wherever it is read, so that the done-callbacks that drop it
\* (_discard_finished_provider_call) are part of the step that ends it.
Update(s) ==
    /\ call' = [d \in Callers |-> IF Busy(s[d]) \/ s[d].waiters > 0
                                  THEN s[d] ELSE NoRequest]
    /\ cur' = [k \in Keys |-> IF cur[k] # NoCall /\ Busy(s[cur[k]])
                              THEN cur[k] ELSE NoCall]

Members(d) == {c \in Callers : on[c] = d /\ pc[c] \in {"wait", "grace"}}

TypeOK ==
    /\ limit \in Limits
    /\ \A d \in Callers :
          /\ call[d].adapter \in Adapters \cup {"none"}
          /\ call[d].key \in Keys \cup {NoCall}
          /\ call[d].task \in TaskState
          /\ call[d].worker \in WorkerState
          /\ call[d].waiters = Cardinality(Members(d))
    /\ cur \in [Keys -> Callers \cup {NoCall}]
    /\ pc \in [Callers -> {"idle", "slot", "wait", "grace", "left", "end"}]
    /\ req \in [Callers -> Keys \cup {NoCall}]
    /\ on \in [Callers -> Callers \cup {NoCall}]
    /\ woken \subseteq {c \in Callers : pc[c] = "slot"}
    /\ result \in [Callers -> {"none", "value", "failure"}]
    /\ cooling \in BOOLEAN /\ closed \in BOOLEAN /\ quiesced \in BOOLEAN
    /\ closer \in {"idle", "wait"}

Init ==
    /\ limit \in Limits
    /\ call     = [c \in Callers |-> NoRequest]
    /\ cur      = [k \in Keys |-> NoCall]
    /\ pc       = [c \in Callers |-> "idle"]
    /\ req      = [c \in Callers |-> NoCall]
    /\ on       = [c \in Callers |-> NoCall]
    /\ woken    = {}
    /\ result   = [c \in Callers |-> "none"]
    /\ cooling  = FALSE
    /\ closed   = FALSE
    /\ closer   = "idle"
    /\ quiesced = FALSE

-----------------------------------------------------------------------------
(* Admission.                                                              *)

\* Refused (busy, closed) or cancelled: nothing is recorded of the provider.
Refuse(c) ==
    /\ pc' = [pc EXCEPT ![c] = "end"]
    /\ req' = [req EXCEPT ![c] = NoCall]
    /\ woken' = woken \ {c}
    /\ UNCHANGED <<call, cur, on, result>>

Enter(c, d) ==
    /\ pc' = [pc EXCEPT ![c] = "wait"]
    /\ on' = [on EXCEPT ![c] = d]
    /\ req' = [req EXCEPT ![c] = NoCall]
    /\ woken' = woken \ {c}
    /\ UNCHANGED result

\* _join_existing_provider_call: a call under way can be joined unless it is
\* being cancelled; one whose task is over or being cancelled, but whose work
\* is not over, refuses; one that is over is dropped.
Joinable(k) ==
    /\ cur[k] # NoCall
    /\ ~Done(cur[k])
    /\ ~call[cur[k]].stopping

\* Seeded fault: a call that is being cancelled is replaced at once.
Settling_Replaced(k) ==
    /\ cur[k] # NoCall
    /\ Active(cur[k]) /\ Done(cur[k])

Settling(k) ==
    /\ cur[k] # NoCall
    /\ Active(cur[k])
    /\ ~Joinable(k)

\* Seeded fault: the new member is not counted.
Join_Uncounted(c, k) ==
    /\ Joinable(k)
    /\ Enter(c, cur[k])
    /\ call' = [call EXCEPT ![cur[k]].orphaned = FALSE]
    /\ UNCHANGED cur

Join(c, k) ==
    /\ Joinable(k)
    /\ Enter(c, cur[k])
    /\ call' = [call EXCEPT ![cur[k]].waiters = @ + 1, ![cur[k]].orphaned = FALSE]
    /\ UNCHANGED cur

Vacant(k) == ~Joinable(k) /\ ~Settling(k)

HasOrphan == \E d \in InFlight : call[d].orphaned

\* Seeded fault: the limit counts running tasks and forgets running workers.
Start_TasksOnly(c, k) ==
    /\ Cardinality({d \in InFlight : ~Done(d) /\ ~call[d].stopping}) < limit
    /\ Enter(c, c)
    /\ \E adapter \in Adapters :
          call' = [call EXCEPT ![c] = [NoRequest EXCEPT
                      !.adapter = adapter, !.key = k, !.task = "new", !.waiters = 1]]
    /\ cur' = [cur EXCEPT ![k] = c]

\* _start_provider_call
Start(c, k) ==
    /\ Cardinality(InFlight) < limit
    /\ Enter(c, c)
    /\ \E adapter \in Adapters :
          call' = [call EXCEPT ![c] = [NoRequest EXCEPT
                      !.adapter = adapter, !.key = k, !.task = "new", !.waiters = 1]]
    /\ cur' = [cur EXCEPT ![k] = c]

AwaitSlot(c, k) ==
    /\ Cardinality(InFlight) >= limit
    /\ pc' = [pc EXCEPT ![c] = "slot"]
    /\ req' = [req EXCEPT ![c] = k]
    /\ woken' = woken \ {c}
    /\ UNCHANGED <<call, cur, on, result>>

\* The body of the loop of _admit_provider_call.
Admit(c, k) ==
    \/ /\ closed \/ Settling(k) \/ (Vacant(k) /\ (cooling \/ HasOrphan))
       /\ Refuse(c)
    \/ /\ ~closed
       /\ Join(c, k)
    \/ /\ ~closed /\ Vacant(k) /\ ~cooling /\ ~HasOrphan
       /\ Start(c, k) \/ AwaitSlot(c, k)

\* call_provider
Request(c, k) ==
    /\ pc[c] = "idle"
    /\ Admit(c, k)
    /\ UNCHANGED <<cooling, closeVars>>

SlotRetry(c) ==
    /\ c \in woken
    /\ Admit(c, req[c])
    /\ UNCHANGED <<cooling, closeVars>>

\* The deadline passes, or the caller is cancelled, before there is a slot.
SlotTimeout(c) ==
    /\ pc[c] = "slot"
    /\ Refuse(c)
    /\ UNCHANGED <<cooling, closeVars>>

-----------------------------------------------------------------------------
(* Waiting for the call, and leaving it.                                   *)

\* Seeded fault: a caller notifies only when the call is over.
Leave_Quietly(c, why) ==
    LET d == on[c]
    IN  /\ Update([call EXCEPT
               ![d].waiters  = @ - 1,
               ![d].orphaned = @ \/ (call[d].waiters = 1 /\ Busy(call[d]))])
        /\ pc' = [pc EXCEPT ![c] = IF why = "none" THEN "end" ELSE "left"]
        /\ on' = [on EXCEPT ![c] = NoCall]
        /\ result' = [result EXCEPT ![c] = why]
        /\ woken' = IF Busy(call[d]) THEN woken ELSE {x \in Callers : pc[x] = "slot"}
        /\ UNCHANGED <<req, cooling, closeVars>>

\* Seeded fault: only a running worker makes the call an orphan.
Leave_WorkerOnly(c, why) ==
    LET d == on[c]
    IN  /\ Update([call EXCEPT
               ![d].waiters  = @ - 1,
               ![d].orphaned = @ \/ (call[d].waiters = 1 /\ call[d].worker = "running")])
        /\ pc' = [pc EXCEPT ![c] = IF why = "none" THEN "end" ELSE "left"]
        /\ on' = [on EXCEPT ![c] = NoCall]
        /\ result' = [result EXCEPT ![c] = why]
        /\ woken' = {x \in Callers : pc[x] = "slot"}
        /\ UNCHANGED <<req, cooling, closeVars>>

\* The `finally' of _wait_for_provider_task.
Leave(c, why) ==
    LET d == on[c]
    IN  /\ Update([call EXCEPT
               ![d].waiters  = @ - 1,
               ![d].orphaned = @ \/ (call[d].waiters = 1 /\ Busy(call[d]))])
        /\ pc' = [pc EXCEPT ![c] = IF why = "none" THEN "end" ELSE "left"]
        /\ on' = [on EXCEPT ![c] = NoCall]
        /\ result' = [result EXCEPT ![c] = why]
        /\ woken' = {x \in Callers : pc[x] = "slot"}
        /\ UNCHANGED <<req, cooling, closeVars>>

\* The task is done: its value, its error, or its cancellation by aclose.
WaitDone(c) ==
    /\ pc[c] = "wait" /\ Done(on[c])
    /\ Leave(c, CASE call[on[c]].task = "ok"        -> "value"
                  [] call[on[c]].task = "error"     -> "failure"
                  [] call[on[c]].task = "cancelled" -> "none")

\* Seeded fault: the other callers of the call are not looked at.
Unshared_Any(d) ==
    /\ ~call[d].stopping
    /\ call[d].worker # "running"

\* Whether _stop_unshared_async_call does anything: the caller is the only one
\* and no worker has begun to run.
Unshared(d) ==
    /\ call[d].waiters = 1
    /\ ~call[d].stopping
    /\ call[d].worker # "running"

\* The deadline passes (a failure of the provider), or the caller is
\* cancelled, before the task is done.  An unshared call is cancelled and given
\* a grace period.
GiveUp(c) ==
    /\ pc[c] = "wait" /\ ~Done(on[c])
    /\ \E why \in {"failure", "none"} :
          \/ /\ ~Unshared(on[c])
             /\ Leave(c, why)
          \/ /\ Unshared(on[c])
             /\ call' = [call EXCEPT ![on[c]].stopping = TRUE, ![on[c]].task = "cancelling",
                                     ![on[c]].worker = IF @ = "queued" THEN "done" ELSE @]
             /\ pc' = [pc EXCEPT ![c] = "grace"]
             /\ result' = [result EXCEPT ![c] = why]
             /\ UNCHANGED <<cur, req, on, woken, cooling, closeVars>>

\* The task ends, or PROVIDER_ASYNC_CANCEL_GRACE_SECONDS pass.
GraceEnds(c) ==
    /\ pc[c] = "grace"
    /\ Leave(c, result[c])

-----------------------------------------------------------------------------
(* The task of a call and its worker.                                      *)

SetTask(d, st)   == Update([call EXCEPT ![d].task = st])
SetWorker(d, st) == Update([call EXCEPT ![d].worker = st])
CallStep         == UNCHANGED <<callerVars, cooling, closeVars>>

\* The first step of the adapter's coroutine; run_provider_io submits to the
\* executor.
TaskBegins(d) ==
    /\ call[d].task = "new"
    /\ IF call[d].adapter = "async" THEN SetTask(d, "async")
       ELSE Update([call EXCEPT ![d].task = "io", ![d].worker = "queued"])
    /\ CallStep

TaskAnswers(d) ==
    /\ call[d].task = "async"
    /\ \E st \in {"ok", "error"} : SetTask(d, st)
    /\ CallStep

\* The adapter goes on after its worker: it ends, or submits another one.
TaskResumes(d) ==
    /\ call[d].task = "io" /\ call[d].worker = "done"
    /\ (\E st \in {"ok", "error"} : SetTask(d, st)) \/ SetWorker(d, "queued")
    /\ CallStep

\* A cancelled coroutine ends when its cleanup does, and may still answer; one
\* that waits for a running worker ends without it.
TaskCancelled(d) ==
    /\ call[d].task = "cancelling"
    /\ \E st \in {"cancelled", "ok"} : SetTask(d, st)
    /\ CallStep

WorkerBegins(d) ==
    /\ call[d].worker = "queued"
    /\ Cardinality({x \in Callers : call[x].worker = "running"}) < MaxWorkers
    /\ SetWorker(d, "running")
    /\ CallStep

WorkerEnds(d) ==
    /\ call[d].worker = "running"
    /\ SetWorker(d, "done")
    /\ CallStep

-----------------------------------------------------------------------------
(* Cooldown: the callers record how their request went.                    *)

Record(c, outcome) ==
    /\ pc[c] = "left" /\ result[c] = outcome
    /\ pc' = [pc EXCEPT ![c] = "end"]
    /\ result' = [result EXCEPT ![c] = "none"]
    /\ UNCHANGED <<call, cur, req, on, woken, closeVars>>

\* A data error of one instrument starts no cooldown.
RecordFailure(c) ==
    /\ Record(c, "failure")
    /\ cooling' \in {cooling, TRUE}

\* record_success_async clears the cooldown after its cache write.
RecordSuccess(c) ==
    /\ Record(c, "value")
    /\ cooling' = FALSE

CooldownEnds ==
    /\ cooling
    /\ cooling' = FALSE
    /\ UNCHANGED <<call, cur, callerVars, closeVars>>

-----------------------------------------------------------------------------
(* aclose, repeated by DataHub until it reports quiescence.                *)

CloseBegin ==
    /\ closer = "idle" /\ ~quiesced
    /\ closed' = TRUE
    /\ closer' = "wait"
    /\ Update([d \in Callers |-> [call[d] EXCEPT
                   !.task   = IF Registered(d) /\ ~Done(d) THEN "cancelling" ELSE @,
                   !.worker = IF @ = "queued" THEN "done" ELSE @]])
    /\ UNCHANGED <<callerVars, cooling, quiesced>>

\* Seeded fault: worker threads are not waited for.
CloseEnd_TasksOnly ==
    /\ closer = "wait"
    /\ closer' = "idle"
    /\ IF \E d \in Callers : Registered(d) /\ ~Done(d)
       THEN UNCHANGED <<cur, cooling, quiesced>>
       ELSE /\ cur' = [k \in Keys |-> NoCall]
            /\ cooling' = FALSE
            /\ quiesced' = TRUE
    /\ UNCHANGED <<call, callerVars, closed>>

\* The bounded wait is over: quiescent, or to be tried again.
CloseEnd ==
    /\ closer = "wait"
    /\ closer' = "idle"
    /\ IF \E d \in Callers : Active(d)
       THEN UNCHANGED <<cur, cooling, quiesced>>
       ELSE /\ cur' = [k \in Keys |-> NoCall]
            /\ cooling' = FALSE
            /\ quiesced' = TRUE
    /\ UNCHANGED <<call, callerVars, closed>>

-----------------------------------------------------------------------------
CallerSteps(c) ==
    SlotRetry(c) \/ SlotTimeout(c) \/ WaitDone(c) \/ GiveUp(c) \/ GraceEnds(c)

LoopSteps(c) == TaskBegins(c) \/ TaskResumes(c) \/ WorkerBegins(c)

Step ==
    \/ \E c \in Callers :
          \/ \E k \in Keys : Request(c, k)
          \/ CallerSteps(c)
          \/ RecordFailure(c) \/ RecordSuccess(c)
          \/ LoopSteps(c) \/ TaskAnswers(c) \/ TaskCancelled(c) \/ WorkerEnds(c)
    \/ CooldownEnds
    \/ CloseBegin
    \/ CloseEnd

Next == Step /\ UNCHANGED limit

Spec == Init /\ [][Next]_vars

-----------------------------------------------------------------------------
(* Properties.                                                             *)

\* Requests for the same key share one fetch: there are never two calls with
\* work under way for one key, whoever left, timed out or came back between
\* (_join_existing_provider_call, REQUIREMENTS R14).
OneFetchPerKey ==
    \A d, e \in Callers :
        Active(d) /\ Active(e) /\ call[d].key = call[e].key => d = e

\* Work that nobody waits for any more still counts: a capability never has
\* more calls under way than its limit, worker threads that outlived their
\* callers included (_active_provider_call_count).
CapabilityLimit == Cardinality({d \in Callers : Active(d)}) <= limit

\* A call under way either has a caller or is marked orphaned, and is still
\* registered, so that other work is held back until it ends and a caller
\* with the same key can take it over (_wait_for_provider_task).
NothingAbandoned ==
    \A d \in Callers :
        Active(d) => Registered(d) /\ (Members(d) # {} \/ call[d].orphaned)

\* One caller's cancellation or deadline never cancels a call that another
\* caller waits for: a call that is being stopped has no member but the one
\* that stops it (_stop_unshared_async_call, _join_existing_provider_call).
SharedNotCancelled ==
    \A d \in Callers :
        call[d].stopping => \A c \in Members(d) : Members(d) = {c} /\ pc[c] # "wait"

\* A caller asleep on the capability's condition has been notified, or as many
\* calls as the limit allows still have members, each of which notifies when
\* it leaves: no free slot is slept through (notify_all, condition.wait).
NoLostWakeup ==
    \A c \in Callers :
        pc[c] = "slot" /\ c \notin woken
            => Cardinality({d \in Callers : Members(d) # {}}) >= limit

\* aclose reports quiescence, on which DataHub closes the providers, only when
\* no task and no worker thread is left, and none comes to life afterwards.
QuiescedMeansIdle == quiesced => \A d \in Callers : ~Active(d)
=============================================================================
