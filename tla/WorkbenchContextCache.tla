------------------------ MODULE WorkbenchContextCache ------------------------
(***************************************************************************)
(* WorkbenchContextCache: the contexts of the single-stock workbench, built *)
(* by background tasks that the requests for a symbol share.               *)
(*                                                                         *)
(* Everything runs on one event loop, and the lock is never held across an *)
(* await, so that an action is the code between two awaits.  A build that  *)
(* is done still has its done-callback, _finalize_task, to come.           *)
(***************************************************************************)
EXTENDS Naturals, FiniteSets, SequencesExt

CONSTANTS
    Clients,      \* requests
    Symbols,      \* normalized symbols
    Builds,       \* build tasks that may be created
    NoBuild,      \* no build
    MaxInflight,  \* max_inflight
    MaxSize,      \* max_size
    MaxClears     \* bound on the calls of clear()

ASSUME WorkbenchAssumption ==
    /\ NoBuild \notin Builds
    /\ IsFiniteSet(Builds)
    /\ MaxInflight \in Nat \ {0}
    /\ MaxSize \in Nat \ {0}
    /\ MaxClears \in Nat

VARIABLES
    entries,   \* _entries: builds with a cached context, oldest first
    inflight,  \* _inflight: the build shared by the requests for a symbol
    owned,     \* _owned_tasks
    build,     \* symbol and state of each build task
    born,      \* how many clears came before each build (history)
    clears,    \* calls of clear() so far
    pc,        \* where each request is
    on,        \* the build each request waits for
    closed     \* _closed

buildVars  == <<inflight, owned, build, born>>
clientVars == <<pc, on>>
vars       == <<entries, buildVars, clears, clientVars, closed>>

-----------------------------------------------------------------------------
DoneStates == {"value", "failed", "cancelled"}

Undone(b)    == build[b].st \in {"running", "cancelling"}
Unborn(b)    == build[b].st = "none"
SymbolOf(b)  == build[b].sym
Cached(s)    == {i \in DOMAIN entries : SymbolOf(entries[i]) = s}

TypeOK ==
    /\ entries \in Seq(Builds) /\ Len(entries) <= MaxSize
    /\ \A i, j \in DOMAIN entries : i # j => SymbolOf(entries[i]) # SymbolOf(entries[j])
    /\ inflight \in [Symbols -> Builds \cup {NoBuild}]
    /\ owned \subseteq {b \in Builds : ~Unborn(b)}
    /\ \A b \in Builds : /\ build[b].sym \in Symbols \cup {NoBuild}
                         /\ build[b].st \in DoneStates \cup {"none", "running", "cancelling"}
    /\ clears \in 0..MaxClears
    /\ pc \in [Clients -> {"idle", "wait", "end"}]
    /\ on \in [Clients -> Builds \cup {NoBuild}]
    /\ closed \in BOOLEAN

Init ==
    /\ entries  = <<>>
    /\ inflight = [s \in Symbols |-> NoBuild]
    /\ owned    = {}
    /\ build    = [b \in Builds |-> [sym |-> NoBuild, st |-> "none"]]
    /\ born     = [b \in Builds |-> 0]
    /\ clears   = 0
    /\ pc       = [c \in Clients |-> "idle"]
    /\ on       = [c \in Clients |-> NoBuild]
    /\ closed   = FALSE

-----------------------------------------------------------------------------
(* The cache.                                                              *)

\* _entries.pop: a symbol has at most one entry.
Without(s) == IF Cached(s) = {} THEN entries
              ELSE RemoveAt(entries, CHOOSE i \in Cached(s) : TRUE)

\* Seeded fault: the cache is trimmed one entry late.
Trimmed_Late(seq) == IF Len(seq) <= MaxSize + 1 THEN seq
                     ELSE SubSeq(seq, Len(seq) - MaxSize, Len(seq))

\* _trim_entries drops the oldest.
Trimmed(seq) == IF Len(seq) <= MaxSize THEN seq
                ELSE SubSeq(seq, Len(seq) - MaxSize + 1, Len(seq))

Stored(b) == Trimmed(Append(Without(SymbolOf(b)), b))

\* Seeded fault: a build stores its context whether or not it is still shared.
Finalize_Unowned(b) ==
    /\ owned' = owned \ {b}
    /\ inflight' = [s \in Symbols |-> IF inflight[s] = b THEN NoBuild ELSE inflight[s]]
    /\ \/ build[b].st # "value" /\ UNCHANGED entries
       \/ build[b].st = "value" /\ entries' \in {entries, Stored(b)}

\* _finalize_task.  A context bound to another symbol or to a past research
\* period is not stored.
Finalize(b) ==
    /\ owned' = owned \ {b}
    /\ inflight' = [s \in Symbols |-> IF inflight[s] = b THEN NoBuild ELSE inflight[s]]
    /\ \/ /\ inflight[SymbolOf(b)] # b \/ build[b].st # "value"
          /\ UNCHANGED entries
       \/ /\ inflight[SymbolOf(b)] = b /\ build[b].st = "value"
          /\ entries' \in {entries, Stored(b)}

\* A done build whose callback has not run yet.
Unfinalized(b) == build[b].st \in DoneStates /\ b \in owned

BuildFinalized(b) ==
    /\ Unfinalized(b)
    /\ Finalize(b)
    /\ UNCHANGED <<build, born, clears, clientVars, closed>>

-----------------------------------------------------------------------------
(* get().                                                                  *)

Respond(c) ==
    /\ pc' = [pc EXCEPT ![c] = "end"]
    /\ on' = [on EXCEPT ![c] = NoBuild]

Await(c, b) ==
    /\ pc' = [pc EXCEPT ![c] = "wait"]
    /\ on' = [on EXCEPT ![c] = b]

\* An entry answers at once while it is fresh; a stale one is dropped.
Hit(c, s, useCache) ==
    /\ useCache /\ Cached(s) # {}
    /\ Respond(c)
    /\ UNCHANGED <<entries, buildVars>>

Miss(s, useCache) ==
    IF useCache THEN entries' = Without(s) ELSE UNCHANGED entries

\* Seeded fault: the limit counts the shared builds only.
HasRoom_Shared == Cardinality({s \in Symbols : inflight[s] # NoBuild}) < MaxInflight

HasRoom == Cardinality({b \in owned : Undone(b)}) < MaxInflight

Join(c, s, useCache) ==
    /\ inflight[s] # NoBuild /\ Undone(inflight[s])
    /\ Await(c, inflight[s])
    /\ Miss(s, useCache)
    /\ UNCHANGED buildVars

\* Seeded fault: a request that bypasses the cache does not share a build.
Begin_Unshared(c, s, useCache) ==
    /\ inflight[s] = NoBuild \/ ~useCache
    /\ Miss(s, useCache)
    /\ IF HasRoom
       THEN \E b \in Builds :
               /\ Unborn(b)
               /\ build' = [build EXCEPT ![b] = [sym |-> s, st |-> "running"]]
               /\ born' = [born EXCEPT ![b] = clears]
               /\ owned' = owned \cup {b}
               /\ inflight' = [inflight EXCEPT ![s] = b]
               /\ Await(c, b)
       ELSE Respond(c) /\ UNCHANGED buildVars

\* A new build, or WorkbenchContextBusyError.
Begin(c, s, useCache) ==
    /\ inflight[s] = NoBuild
    /\ Miss(s, useCache)
    /\ IF HasRoom
       THEN \E b \in Builds :
               /\ Unborn(b)
               /\ build' = [build EXCEPT ![b] = [sym |-> s, st |-> "running"]]
               /\ born' = [born EXCEPT ![b] = clears]
               /\ owned' = owned \cup {b}
               /\ inflight' = [inflight EXCEPT ![s] = b]
               /\ Await(c, b)
       ELSE Respond(c) /\ UNCHANGED buildVars

\* A shared build that is done but not finalized is finalized by _active_task;
\* the request then goes on as if its callback had run before.
Get(c, s, useCache) ==
    /\ pc[c] = "idle"
    /\ IF closed THEN Respond(c) /\ UNCHANGED <<entries, buildVars>>
       ELSE Hit(c, s, useCache) \/ Join(c, s, useCache) \/ Begin(c, s, useCache)
    /\ UNCHANGED <<clears, closed>>

\* The build the request waits for is done.
Answered(c) ==
    /\ pc[c] = "wait"
    /\ build[on[c]].st \in DoneStates /\ on[c] \notin owned
    /\ Respond(c)
    /\ UNCHANGED <<entries, buildVars, clears, closed>>

\* Seeded fault: the request's cancellation reaches the shared task.
ClientCancelled_Unshielded(c) ==
    /\ pc[c] = "wait"
    /\ Respond(c)
    /\ build' = [build EXCEPT ![on[c]].st = IF @ = "running" THEN "cancelling" ELSE @]
    /\ UNCHANGED <<entries, inflight, owned, born, clears, closed>>

\* The request is cancelled; asyncio.shield keeps the build.
ClientCancelled(c) ==
    /\ pc[c] = "wait"
    /\ Respond(c)
    /\ UNCHANGED <<entries, buildVars, clears, closed>>

-----------------------------------------------------------------------------
(* The builds, clear and aclose.                                           *)

BuildEnds(b) ==
    /\ Undone(b)
    /\ \E st \in IF build[b].st = "running" THEN {"value", "failed"} ELSE DoneStates :
          build' = [build EXCEPT ![b] = [sym |-> SymbolOf(b), st |-> st]]
    /\ UNCHANGED <<entries, inflight, owned, born, clears, clientVars, closed>>

Clear ==
    /\ clears < MaxClears
    /\ clears' = clears + 1
    /\ entries' = <<>>
    /\ inflight' = [s \in Symbols |-> NoBuild]
    /\ UNCHANGED <<owned, build, born, clientVars, closed>>

\* aclose up to its bounded wait, after which it changes nothing.
Close ==
    /\ closed' = TRUE
    /\ entries' = <<>>
    /\ inflight' = [s \in Symbols |-> NoBuild]
    /\ build' = [b \in Builds |->
                    IF b \in owned /\ build[b].st = "running"
                    THEN [sym |-> SymbolOf(b), st |-> "cancelling"] ELSE build[b]]
    /\ UNCHANGED <<owned, born, clears, clientVars>>

-----------------------------------------------------------------------------
Next ==
    \/ \E c \in Clients :
          \/ \E s \in Symbols, useCache \in BOOLEAN : Get(c, s, useCache)
          \/ Answered(c)
          \/ ClientCancelled(c)
    \/ \E b \in Builds : BuildEnds(b) \/ BuildFinalized(b)
    \/ Clear
    \/ Close

Spec == Init /\ [][Next]_vars

-----------------------------------------------------------------------------
(* Properties.                                                             *)

\* The builds under way never exceed max_inflight, those that a clear has cut
\* off from their symbol and those whose requests are gone included (_task_for,
\* DESIGN.md:39).
BuildsBounded == Cardinality({b \in Builds : Undone(b)}) <= MaxInflight

\* Two builds of one symbol are under way only if a clear came between them:
\* every other request shares the build it finds (_active_task).
BuildIsShared ==
    \A a, b \in Builds :
        Undone(a) /\ Undone(b) /\ SymbolOf(a) = SymbolOf(b) /\ a # b => born[a] # born[b]

\* A context in the cache was begun after the last clear, and none is there
\* once the cache is closed: a build that outlives a clear or a close never
\* writes into the cache (_finalize_task).
NoStaleEntry ==
    \A i \in DOMAIN entries : born[entries[i]] = clears /\ ~closed

\* Builds are cancelled by the close of the cache only, never by a request
\* that gives up on a build others may wait for; and after the close none runs
\* on uncancelled (asyncio.shield in get, aclose).
OnlyCloseCancels ==
    \A b \in Builds :
        /\ build[b].st \in {"cancelling", "cancelled"} => closed
        /\ build[b].st = "running" => ~closed

=============================================================================
