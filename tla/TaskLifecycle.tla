--------------------------- MODULE TaskLifecycle ---------------------------
(***************************************************************************)
(* What the tasks module promises of the life of every task: the changes   *)
(* of its status, and that a task is opened only when no other is open.    *)
(***************************************************************************)
EXTENDS Integers, TaskDomain

CONSTANT MaxTasks
VARIABLES tasks, status, used, limit

TaskId == 1..MaxTasks
vars == <<tasks, status, used, limit>>

Closed(k) == status[k] \in Terminal \cup {"none"}

Init ==
    /\ tasks = 0
    /\ status = [k \in TaskId |-> "none"]
    /\ used = [k \in TaskId |-> 0] /\ limit = [k \in TaskId |-> 0]

\* The first input when nothing is open.
Create(k) ==
    /\ k = tasks + 1 /\ \A j \in TaskId : Closed(j)
    /\ tasks' = k /\ status' = [status EXCEPT ![k] = "QUEUED"]
    /\ limit'[k] > 0 /\ limit' = [limit EXCEPT ![k] = limit'[k]]
    /\ UNCHANGED used

\* The user may raise an open task's limit; it is never lowered.
Extended ==
    \A k \in TaskId : limit'[k] = limit[k] \/ (~Closed(k) /\ limit'[k] > limit[k])

\* A transition of the domain model; a file without a goal is begun and left WAITING
\* in one step.
Moves(st) == Successors(st) \cup (IF st = "QUEUED" THEN {"WAITING"} ELSE {})

Move(k) ==
    /\ \E st \in Moves(status[k]) : status' = [status EXCEPT ![k] = st]
    /\ Extended
    /\ UNCHANGED <<tasks, used>>

Extend == Extended /\ UNCHANGED <<tasks, status, used>>

\* One model call: only for a running task and within its limit.
Call(k) ==
    /\ status[k] = "RUNNING" /\ used[k] < limit[k]
    /\ used' = [used EXCEPT ![k] = @ + 1]
    /\ UNCHANGED <<tasks, status, limit>>

\* The end of a conversation closes whatever is open in it.
Close ==
    /\ status' = [k \in TaskId |-> IF Closed(k) THEN status[k] ELSE "CANCELLED"]
    /\ UNCHANGED <<tasks, used, limit>>

Next == \/ \E k \in TaskId : Create(k) \/ Move(k) \/ Call(k)
        \/ Extend \/ Close

Spec == Init /\ [][Next]_vars
=============================================================================
