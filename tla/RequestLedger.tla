---------------------------- MODULE RequestLedger ----------------------------
(***************************************************************************)
(* Manual task requests as their clients are entitled to see them.  A      *)
(* request is accepted once, executed at most once after that, and then     *)
(* answered.  A completed or failed answer is that of an execution that     *)
(* has returned; an interrupted request executes no longer and never will;  *)
(* no answer is ever taken back.  If the process dies the executions die    *)
(* with it, and the requests wait to be interrupted.                        *)
(***************************************************************************)
EXTENDS Naturals

CONSTANT Requests

VARIABLES
    answer,     \* what a client that asks for the request is told
    executing,  \* requests whose handler is at work
    runs        \* how often the handler of each request was started

ledgerVars == <<answer, executing, runs>>

Open == {m \in Requests : answer[m] \in {"accepted", "running"}}

Init ==
    /\ answer    = [m \in Requests |-> "none"]
    /\ executing = {}
    /\ runs      = [m \in Requests |-> 0]

Accept(m) ==
    /\ answer[m] = "none"
    /\ answer' = [answer EXCEPT ![m] = "accepted"]
    /\ UNCHANGED <<executing, runs>>

Execute(m) ==
    /\ answer[m] = "accepted" /\ runs[m] = 0
    /\ answer' = [answer EXCEPT ![m] = "running"]
    /\ executing' = executing \cup {m}
    /\ runs' = [runs EXCEPT ![m] = 1]

Return(m) ==
    /\ m \in executing
    /\ executing' = executing \ {m}
    /\ UNCHANGED <<answer, runs>>

Answer(m, a) ==
    /\ answer[m] = "running" /\ m \notin executing
    /\ answer' = [answer EXCEPT ![m] = a]
    /\ UNCHANGED <<executing, runs>>

Interrupt(S) ==
    /\ S # {} /\ S \subseteq Open
    /\ answer' = [m \in Requests |-> IF m \in S THEN "interrupted" ELSE answer[m]]
    /\ executing' = executing \ S
    /\ UNCHANGED runs

Die ==
    /\ executing' = {}
    /\ UNCHANGED <<answer, runs>>

Next ==
    \/ \E m \in Requests : Accept(m) \/ Execute(m) \/ Return(m)
    \/ \E m \in Requests, a \in {"completed", "failed"} : Answer(m, a)
    \/ \E S \in SUBSET Requests : Interrupt(S)
    \/ Die

Spec == Init /\ [][Next]_ledgerVars
=============================================================================
