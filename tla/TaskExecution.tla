--------------------------- MODULE TaskExecution ---------------------------
(***************************************************************************)
(* Tasks and turns of one user's conversations: the poll loop admits       *)
(* batches of messages, the single turn worker claims turns and drives     *)
(* task runs, reviews and settlements, and user controls, new input,       *)
(* permission changes, idle expiry and restarts interleave with it at      *)
(* every await.                                                            *)
(*                                                                         *)
(* Rows of SQLite tables are numbered in insertion order: a turn is a      *)
(* number in 1..turns and a task one in 1..tasks, each column a function.  *)
(* A code segment that runs without an await is one action.  A batch is    *)
(* one such segment too; it is spelled as a few steps (Receive, Commit,    *)
(* Admit) during which phase # "idle" keeps everybody else out, except for *)
(* a crash after the batch's transaction has committed.                    *)
(***************************************************************************)
EXTENDS Integers, FiniteSets, TaskDomain

CONSTANTS
    MaxTurns,      \* bound: rows of table turns
    MaxTasks,      \* bound: rows of table tasks
    MaxSessions,   \* bound: conversations
    MaxMessages,   \* bound: messages the channel delivers
    MaxBatch,      \* bound: messages of one getUpdates batch
    MaxRestarts,   \* bound: stops, orderly or not, of the process
    InitialLimit,  \* INITIAL_REACT_LIMIT
    BudgetAmount,  \* N of "/task budget N"
    Kinds,         \* kinds of message the user sends
    StorageFaults  \* BOOLEAN: may a database or disk write of the turn worker throw?

InputKinds == {"text", "file"}
ControlKinds == {"pause", "cancel", "resume", "budget", "new"}
CommandKinds == ControlKinds \cup {"confirm", "revoke", "manage"}
InternalKinds == {"task_continue", "permission_continue"}
MessageKinds == InputKinds \cup CommandKinds
TurnKinds == MessageKinds \cup InternalKinds

ASSUME BoundsAssumption ==
    /\ MaxTurns \in Nat \ {0} /\ MaxTasks \in Nat \ {0} /\ MaxSessions \in Nat \ {0}
    /\ MaxMessages \in Nat /\ MaxBatch \in Nat \ {0} /\ MaxRestarts \in Nat
ASSUME ParametersAssumption ==
    /\ InitialLimit \in Nat \ {0} /\ BudgetAmount \in Nat \ {0}
    /\ Kinds \subseteq MessageKinds /\ StorageFaults \in BOOLEAN

TurnId == 1..MaxTurns
TaskId == 1..MaxTasks
SessionId == 1..MaxSessions
NoTurn == 0
NoTask == 0
NoReceipt == 0
Void == MaxTasks + 1        \* receipt of a control that found no open task

TurnStatus == {"QUEUED", "RUNNING", "REPLY_PENDING", "SUCCEEDED", "FAILED", "CANCELLED"}
Decisions == {"approved", "revise", "waiting"}

VARIABLES
    sess, live,                   \* newest conversation, and whether it is ACTIVE
    turns,                        \* rows of table turns
    kind, tstat, at, tsess, ttask, trev,
    receipt,                      \* task_control_receipts: turn of the message -> task
    tasks,                        \* rows of table tasks
    conv, status, rev, used, limit,
    review,                       \* task_reviews, one request per turn
    reqState, reqTurn,            \* the permission request and its blocked turn
    approvedBy, contTurn,         \* the turn that confirmed it, and its continuation
    pc, cur, aborted, called,     \* the turn worker and TaskManager's active run
    settlement,                   \* the TaskSettlement on its way to completeTurn
    phase, bNext, bLast,          \* the poll loop's batch
    msgs, restarts                \* counters behind the bounds

sessVars == <<sess, live>>
rowVars == <<turns, kind, at, tsess, ttask, trev>>
taskVars == <<tasks, conv, status, rev, used, limit>>
permVars == <<reqState, reqTurn, approvedBy, contTurn>>
workVars == <<pc, cur, aborted, called, settlement>>
pollVars == <<phase, bNext, bLast, msgs>>
vars == <<sessVars, rowVars, tstat, receipt, taskVars, review, permVars, workVars,
          pollVars, restarts>>

NoSettlement == [status |-> "NONE", rev |-> 0, publish |-> FALSE]

Receipts == 0..Void
Settlements == [status : TaskStatus \cup {"NONE"}, rev : Nat, publish : BOOLEAN]

SessionTypeOK == sess \in 0..MaxSessions /\ (live => sess # 0)
RowTypeOK ==
    /\ turns \in 0..MaxTurns
    /\ kind \in [TurnId -> TurnKinds \cup {"none"}]
    /\ at \in [TurnId -> 0..MaxTurns]
    /\ tsess \in [TurnId -> 0..MaxSessions]
    /\ ttask \in [TurnId -> 0..MaxTasks]
    /\ trev \in [TurnId -> Nat]
TaskTypeOK ==
    /\ tasks \in 0..MaxTasks
    /\ conv \in [TaskId -> 0..MaxSessions]
    /\ status \in [TaskId -> TaskStatus \cup {"none"}]
    /\ rev \in [TaskId -> Nat] /\ used \in [TaskId -> Nat] /\ limit \in [TaskId -> Nat]
PermissionTypeOK ==
    /\ reqState \in {"none", "pending", "approved", "revoked"}
    /\ reqTurn \in 0..MaxTurns /\ approvedBy \in 0..MaxTurns /\ contTurn \in 0..MaxTurns
WorkTypeOK ==
    /\ pc \in {"idle", "claimed", "manage", "run", "outcome", "review", "settle"}
    /\ cur \in 0..MaxTurns /\ settlement \in Settlements
FlagTypeOK == live \in BOOLEAN /\ aborted \in BOOLEAN /\ called \in BOOLEAN
PollTypeOK ==
    /\ phase \in {"idle", "insert", "control"}
    /\ bNext \in 0..MaxTurns /\ bLast \in 0..MaxTurns /\ msgs \in Nat

\* Types of the columns, of the worker's registers and of the poll loop's.
TypeOK ==
    /\ SessionTypeOK /\ RowTypeOK /\ TaskTypeOK /\ PermissionTypeOK /\ WorkTypeOK
    /\ PollTypeOK /\ FlagTypeOK
    /\ tstat \in [TurnId -> TurnStatus \cup {"none"}]
    /\ receipt \in [TurnId -> Receipts]
    /\ review \in [TurnId -> Decisions \cup {"none", "open"}]
    /\ restarts \in Nat

Init ==
    /\ sess = 0 /\ live = FALSE
    /\ turns = 0
    /\ kind = [t \in TurnId |-> "none"] /\ tstat = [t \in TurnId |-> "none"]
    /\ at = [t \in TurnId |-> 0] /\ tsess = [t \in TurnId |-> 0]
    /\ ttask = [t \in TurnId |-> NoTask] /\ trev = [t \in TurnId |-> 0]
    /\ receipt = [t \in TurnId |-> NoReceipt]
    /\ tasks = 0
    /\ conv = [k \in TaskId |-> 0] /\ status = [k \in TaskId |-> "none"]
    /\ rev = [k \in TaskId |-> 0] /\ used = [k \in TaskId |-> 0]
    /\ limit = [k \in TaskId |-> 0]
    /\ review = [t \in TurnId |-> "none"]
    /\ reqState = "none" /\ reqTurn = NoTurn /\ approvedBy = NoTurn /\ contTurn = NoTurn
    /\ pc = "idle" /\ cur = NoTurn /\ aborted = FALSE /\ called = FALSE
    /\ settlement = NoSettlement
    /\ phase = "idle" /\ bNext = NoTurn /\ bLast = NoTurn /\ msgs = 0 /\ restarts = 0

-----------------------------------------------------------------------------
(* The task store.                                                          *)

IsOpen(k) == status[k] \notin Terminal \cup {"none"}

\* Mutant: a paused task is not looked up as the open one.
OpenSkipsPaused(s) == {k \in TaskId : conv[k] = s /\ IsOpen(k) /\ status[k] # "PAUSED"}

Open(s) == {k \in TaskId : conv[k] = s /\ IsOpen(k)}

\* The row INSERT INTO turns adds; base is table turns' status column before it.
InsertTurn(src, s, k, r, when, base) ==
    /\ turns < MaxTurns
    /\ turns' = turns + 1
    /\ kind' = [kind EXCEPT ![turns + 1] = src]
    /\ tstat' = [base EXCEPT ![turns + 1] = "QUEUED"]
    /\ at' = [at EXCEPT ![turns + 1] = when]
    /\ tsess' = [tsess EXCEPT ![turns + 1] = s]
    /\ ttask' = [ttask EXCEPT ![turns + 1] = k]
    /\ trev' = [trev EXCEPT ![turns + 1] = r]

\* enqueue: an internal request at the task's current revision.
Enqueue(k, src, base) == InsertTurn(src, conv[k], k, rev[k], turns + 1, base)

\* attach, its three outcomes: no open task, one being cancelled, any other.
Binding(s) ==
    IF Open(s) = {} THEN [task |-> tasks + 1, rev |-> 1]
    ELSE LET k == CHOOSE o \in Open(s) : TRUE
         IN  IF status[k] = "CANCELLING" THEN [task |-> NoTask, rev |-> 0]
             ELSE [task |-> k, rev |-> rev[k] + 1]

\* Mutant: input resumes a paused task.
InputResumes(st) == IF st \in {"WAITING", "PAUSED"} THEN "QUEUED" ELSE st

InputStatus(st) == IF st = "WAITING" THEN "QUEUED" ELSE st

Attach(s) ==
    LET k == Binding(s).task IN
    IF k = NoTask THEN UNCHANGED taskVars
    ELSE /\ k \in TaskId
         /\ rev' = [rev EXCEPT ![k] = @ + 1]
         /\ IF Open(s) = {}
            THEN /\ tasks' = k
                 /\ conv' = [conv EXCEPT ![k] = s]
                 /\ status' = [status EXCEPT ![k] = "QUEUED"]
                 /\ limit' = [limit EXCEPT ![k] = InitialLimit]
                 /\ UNCHANGED used
            ELSE /\ status' = [status EXCEPT ![k] = InputStatus(@)]
                 /\ UNCHANGED <<tasks, conv, used, limit>>

\* Mutant: a pause overrides a cancel in progress.
HaltOverrides(st, action) ==
    IF action = "pause" THEN (IF st \in Active THEN "PAUSING" ELSE "PAUSED")
    ELSE (IF st \in Active THEN "CANCELLING" ELSE "CANCELLED")

\* control, for pause and cancel: a task at work is asked to stop, another stops at once.
HaltStatus(st, action) ==
    IF st = "CANCELLING" THEN st
    ELSE IF action = "pause"
         THEN (IF st \in Active THEN "PAUSING" ELSE "PAUSED")
         ELSE (IF st \in Active THEN "CANCELLING" ELSE "CANCELLED")

\* control's UPDATE turns: whatever the halted task still has queued goes with it.
DropQueued(k, base) ==
    [t \in TurnId |-> IF ttask[t] = k /\ base[t] = "QUEUED" THEN "CANCELLED" ELSE base[t]]

Halt(t, k, base) ==
    /\ status' = [status EXCEPT ![k] = HaltStatus(@, kind[t])]
    /\ tstat' = DropQueued(k, base)
    /\ UNCHANGED <<rowVars, tasks, conv, rev, used, limit>>

Resume(t, k, base) ==
    /\ limit' = [limit EXCEPT ![k] = @ + IF kind[t] = "budget" THEN BudgetAmount ELSE 0]
    /\ IF status[k] = "PAUSED"
       THEN /\ status' = [status EXCEPT ![k] = "QUEUED"]
            /\ Enqueue(k, "task_continue", base)
       ELSE /\ tstat' = base
            /\ UNCHANGED <<rowVars, status>>
    /\ UNCHANGED <<tasks, conv, rev, used>>

\* A control message takes effect once: at ingress, or when its turn runs.
Control(t, base) ==
    IF receipt[t] # NoReceipt
    THEN tstat' = base /\ UNCHANGED <<rowVars, taskVars, receipt>>
    ELSE IF Open(tsess[t]) = {}
    THEN /\ receipt' = [receipt EXCEPT ![t] = Void]
         /\ tstat' = base
         /\ UNCHANGED <<rowVars, taskVars>>
    ELSE \E k \in Open(tsess[t]) :
            /\ receipt' = [receipt EXCEPT ![t] = k]
            /\ IF kind[t] \in {"resume", "budget"}
               THEN Resume(t, k, base)
               ELSE Halt(t, k, base)

\* Mutant: the failure of a turn at work is not told to its task.
FailureUnnoticed(t) == status[ttask[t]]

\* turnFailed: what the failure of turn t makes of its task.
FailedStatus(t) ==
    LET k == ttask[t] IN
    IF status[k] = "CANCELLING" THEN "CANCELLED"
    ELSE IF rev[k] # trev[t] /\ status[k] # "PAUSING" THEN "QUEUED"
    ELSE "PAUSED"

Close(s) == [k \in TaskId |-> IF k \in Open(s) THEN "CANCELLED" ELSE status[k]]

\* permissions.endSession: the session's request can no longer be confirmed or resumed.
RevokeSession(s) ==
    /\ reqState' = IF reqState \in {"pending", "approved"} /\ tsess[reqTurn] = s
                   THEN "revoked" ELSE reqState
    /\ UNCHANGED <<reqTurn, approvedBy, contTurn>>

-----------------------------------------------------------------------------
(* The poll loop: ingestBatch, then the controls of the batch in order.     *)

Driving == pc \in {"run", "outcome", "review"}   \* TaskManager.active has an entry

\* A "/new" that has not finished yet claims the conversation's later messages.
PendingNew(s) ==
    \E t \in TurnId : tsess[t] = s /\ kind[t] = "new" /\ tstat[t] \in {"QUEUED", "RUNNING"}

Receive(m) ==
    LET s == IF live THEN sess ELSE sess + 1
        first == IF phase = "idle" THEN turns + 1 ELSE bNext
        binds == m \in InputKinds /\ ~PendingNew(s)
        bound == IF binds THEN Binding(s) ELSE [task |-> NoTask, rev |-> 0]
    IN  /\ phase \in {"idle", "insert"} /\ turns + 1 - first < MaxBatch
        /\ msgs < MaxMessages /\ s \in SessionId
        /\ sess' = s /\ live' = TRUE
        /\ InsertTurn(m, s, bound.task, bound.rev, first, tstat)
        /\ IF binds THEN Attach(s) ELSE UNCHANGED taskVars
        /\ phase' = "insert" /\ bNext' = first /\ bLast' = turns + 1 /\ msgs' = msgs + 1
        /\ UNCHANGED <<receipt, review, permVars, workVars, restarts>>

Commit ==
    /\ phase = "insert" /\ phase' = "control"
    /\ UNCHANGED <<sessVars, rowVars, tstat, receipt, taskVars, review, permVars, workVars,
                   bNext, bLast, msgs, restarts>>

\* TaskManager.handleMessage aborts a run that was stopped or whose input is out of date.
Superseded(st, rv) ==
    /\ Driving
    /\ \/ rv[ttask[cur]] # trev[cur]
       \/ st[ttask[cur]] \in {"PAUSING", "CANCELLING", "CANCELLED"}

Admitting(kinds) == phase = "control" /\ kind[bNext] \in kinds

AdmitNext ==
    /\ phase' = IF bNext = bLast THEN "idle" ELSE "control"
    /\ bNext' = IF bNext = bLast THEN bNext ELSE bNext + 1
    /\ UNCHANGED <<sessVars, review, reqTurn, contTurn, pc, cur, called, settlement, bLast,
                   msgs, restarts>>

AdmitInput ==
    /\ Admitting(InputKinds \cup {"manage"})
    /\ aborted' = (aborted \/ Superseded(status, rev))
    /\ UNCHANGED <<rowVars, tstat, receipt, taskVars, reqState, approvedBy>>
    /\ AdmitNext

AdmitControl ==
    /\ Admitting(ControlKinds \ {"new"})
    /\ Control(bNext, tstat)
    /\ aborted' = (aborted \/ Superseded(status', rev'))
    /\ UNCHANGED <<reqState, approvedBy>>
    /\ AdmitNext

\* "/new" cancels the task and ends the session's permissions, which aborts any run.
AdmitNew ==
    /\ Admitting({"new"})
    /\ Control(bNext, tstat)
    /\ RevokeSession(tsess[bNext])
    /\ aborted' = (aborted \/ Driving)
    /\ AdmitNext

\* permissions.handleMessage; a changed permission revision aborts any run.
AdmitConfirm ==
    /\ Admitting({"confirm"})
    /\ IF reqState = "pending" /\ tsess[reqTurn] = tsess[bNext]
       THEN /\ reqState' = "approved" /\ approvedBy' = bNext
            /\ aborted' = (aborted \/ Driving)
       ELSE /\ UNCHANGED <<reqState, approvedBy>>
            /\ aborted' = (aborted \/ Superseded(status, rev))
    /\ UNCHANGED <<rowVars, tstat, receipt, taskVars>>
    /\ AdmitNext

AdmitRevoke ==
    /\ Admitting({"revoke"})
    /\ reqState' = IF reqState = "none" THEN "none" ELSE "revoked"
    /\ aborted' = (aborted \/ (Driving /\ reqState # "none") \/ Superseded(status, rev))
    /\ UNCHANGED <<rowVars, tstat, receipt, taskVars, approvedBy>>
    /\ AdmitNext

Admit == AdmitInput \/ AdmitControl \/ AdmitNew \/ AdmitConfirm \/ AdmitRevoke

-----------------------------------------------------------------------------
(* The turn worker: RunNextTurn and TaskManager.                            *)

Candidates ==
    {t \in TurnId : /\ tstat[t] = "QUEUED"
                    /\ ~ \E u \in TurnId : tsess[u] = tsess[t] /\ tstat[u] = "RUNNING"}
\* Mutant: turns are claimed in any order.
ClaimableUnordered(t) == t \in Candidates

Claimable(t) == t \in Candidates /\ \A u \in Candidates : at[t] <= at[u]

Idle == pc = "idle" /\ phase = "idle"
Works(p) == pc = p /\ phase = "idle"

\* completeTurn or failTurn leaves the worker free for the next claim.
Release ==
    /\ pc' = "idle" /\ cur' = NoTurn /\ aborted' = FALSE /\ called' = FALSE
    /\ settlement' = NoSettlement

CanContinue(t) == reqState = "approved" /\ tsess[reqTurn] = tsess[t]
InLiveSession(t) == live /\ tsess[t] = sess

\* Claim up to the first await of a turn that may run the agent.
ClaimInput(t) ==
    LET binds == ttask[t] = NoTask /\ kind[t] \in InputKinds
    IN  /\ Idle /\ Claimable(t)
        /\ kind[t] \in InputKinds \cup InternalKinds
        /\ (t = contTurn) => InLiveSession(t) /\ CanContinue(t)
        /\ IF binds
           THEN /\ Attach(tsess[t])
                /\ ttask' = [ttask EXCEPT ![t] = Binding(tsess[t]).task]
                /\ trev' = [trev EXCEPT ![t] = Binding(tsess[t]).rev]
           ELSE UNCHANGED <<taskVars, ttask, trev>>
        /\ tstat' = [tstat EXCEPT ![t] = "RUNNING"]
        /\ pc' = "claimed" /\ cur' = t
        /\ UNCHANGED <<sessVars, turns, kind, at, tsess, receipt, review, permVars, aborted,
                       called, settlement, pollVars, restarts>>

\* A continuation whose grant or session is gone is answered without a settlement.
ClaimLapsed(t) ==
    /\ Idle /\ Claimable(t)
    /\ t = contTurn /\ ~(InLiveSession(t) /\ CanContinue(t))
    /\ tstat' = [tstat EXCEPT ![t] = "REPLY_PENDING"]
    /\ UNCHANGED <<sessVars, rowVars, receipt, taskVars, review, permVars, workVars, pollVars,
                   restarts>>

ClaimControl(t) ==
    /\ Idle /\ Claimable(t)
    /\ kind[t] \in (ControlKinds \ {"new"}) \cup {"revoke"}
    /\ IF kind[t] = "revoke"
       THEN /\ tstat' = [tstat EXCEPT ![t] = "REPLY_PENDING"]
            /\ UNCHANGED <<rowVars, taskVars, receipt>>
       ELSE Control(t, [tstat EXCEPT ![t] = "REPLY_PENDING"])
    /\ UNCHANGED <<sessVars, review, permVars, workVars, pollVars, restarts>>

\* continuationFor and enqueuePermissionContinuation: only the message that confirmed the
\* request wakes the blocked turn's task, and only once.
Wakes(t) ==
    /\ approvedBy = t /\ CanContinue(t) /\ InLiveSession(t) /\ contTurn = NoTurn
    /\ ttask[reqTurn] # NoTask /\ status[ttask[reqTurn]] \in {"WAITING", "PAUSED"}

ClaimConfirm(t) ==
    /\ Idle /\ Claimable(t) /\ kind[t] = "confirm"
    /\ IF Wakes(t)
       THEN LET k == ttask[reqTurn] IN
            /\ status' = [status EXCEPT ![k] = "QUEUED"]
            /\ Enqueue(k, "permission_continue", [tstat EXCEPT ![t] = "REPLY_PENDING"])
            /\ contTurn' = turns + 1
       ELSE /\ tstat' = [tstat EXCEPT ![t] = "REPLY_PENDING"]
            /\ UNCHANGED <<rowVars, status, contTurn>>
    /\ UNCHANGED <<sessVars, receipt, tasks, conv, rev, used, limit, review, reqState, reqTurn,
                   approvedBy, workVars, pollVars, restarts>>

\* endSession "manual": the conversation closes, later messages move to a new one.
ClaimNew(t) ==
    LET s == tsess[t]
        queued == {u \in TurnId \ {t} : tsess[u] = s /\ tstat[u] = "QUEUED"}
        moved == {u \in queued : kind[u] \in MessageKinds}
        next == IF moved = {} THEN sess ELSE sess + 1
    IN  /\ Idle /\ Claimable(t) /\ kind[t] = "new"
        /\ IF InLiveSession(t)
           THEN /\ next \in SessionId
                /\ status' = Close(s)
                /\ tstat' = [u \in TurnId |-> IF u = t THEN "REPLY_PENDING"
                                              ELSE IF u \in queued \ moved THEN "CANCELLED"
                                              ELSE tstat[u]]
                /\ sess' = next /\ live' = (moved # {})
                /\ tsess' = [u \in TurnId |-> IF u \in moved THEN next ELSE tsess[u]]
                /\ ttask' = [u \in TurnId |-> IF u \in moved THEN NoTask ELSE ttask[u]]
                /\ trev' = [u \in TurnId |-> IF u \in moved THEN 0 ELSE trev[u]]
                /\ RevokeSession(s)
           ELSE /\ tstat' = [tstat EXCEPT ![t] = "REPLY_PENDING"]
                /\ UNCHANGED <<sessVars, status, tsess, ttask, trev, permVars>>
        /\ UNCHANGED <<turns, kind, at, receipt, tasks, conv, rev, used, limit, review,
                       workVars, pollVars, restarts>>

\* A model management command is the one command with awaits.
ClaimManage(t) ==
    /\ Idle /\ Claimable(t) /\ kind[t] = "manage"
    /\ tstat' = [tstat EXCEPT ![t] = "RUNNING"]
    /\ pc' = "manage" /\ cur' = t
    /\ UNCHANGED <<sessVars, rowVars, receipt, taskVars, review, permVars, aborted, called,
                   settlement, pollVars, restarts>>

FinishManage ==
    /\ Works("manage")
    /\ tstat' = [tstat EXCEPT ![cur] = "REPLY_PENDING"]
    /\ Release
    /\ UNCHANGED <<sessVars, rowVars, receipt, taskVars, review, permVars, pollVars, restarts>>

(* The run: cur's task is ttask[cur], its revision at begin trev[cur].      *)

Task == ttask[cur]
FromUser == kind[cur] \in MessageKinds
\* shouldExecuteUploadedFile: files alone run the agent only for a goal stated before.
Executes == kind[cur] = "file" => \E t \in TurnId : ttask[t] = Task /\ kind[t] = "text"

CanBegin == rev[Task] = trev[cur] /\ status[Task] = "QUEUED"

\* Mutant: without a reply to send the turn is not completed.
ReplyLeavesRunning(publish) ==
    tstat' = [tstat EXCEPT ![cur] = IF publish THEN "REPLY_PENDING" ELSE @]

Reply(publish) ==
    tstat' = [tstat EXCEPT ![cur] = IF publish THEN "REPLY_PENDING" ELSE "SUCCEEDED"]

\* begin fails: the turn was overtaken, or the task is paused or closed.
BeginRefused ==
    /\ Works("claimed") /\ Task # NoTask /\ ~CanBegin
    /\ Reply(~Executes \/ (status[Task] = "PAUSED" /\ FromUser))
    /\ Release
    /\ UNCHANGED <<sessVars, rowVars, receipt, taskVars, review, permVars, pollVars, restarts>>

\* Mutant: a task without budget is left queued.
BeginLeavesQueued ==
    /\ Works("claimed") /\ Task # NoTask /\ CanBegin /\ used[Task] >= limit[Task]
    /\ Reply(~Executes \/ FromUser)
    /\ Release
    /\ UNCHANGED <<sessVars, rowVars, receipt, taskVars, review, permVars, pollVars, restarts>>

BeginExhausted ==
    /\ Works("claimed") /\ Task # NoTask /\ CanBegin /\ used[Task] >= limit[Task]
    /\ status' = [status EXCEPT ![Task] = "PAUSED"]
    /\ Reply(~Executes \/ FromUser)
    /\ Release
    /\ UNCHANGED <<sessVars, rowVars, receipt, tasks, conv, rev, used, limit, review, permVars,
                   pollVars, restarts>>

\* upload: begin and the WAITING settlement of a file without a goal, in one segment.
BeginUpload ==
    /\ Works("claimed") /\ Task # NoTask /\ CanBegin /\ used[Task] < limit[Task] /\ ~Executes
    /\ status' = [status EXCEPT ![Task] = "WAITING"]
    /\ Reply(TRUE)
    /\ Release
    /\ UNCHANGED <<sessVars, rowVars, receipt, tasks, conv, rev, used, limit, review, permVars,
                   pollVars, restarts>>

BeginRun ==
    /\ Works("claimed") /\ Task # NoTask /\ CanBegin /\ used[Task] < limit[Task] /\ Executes
    /\ status' = [status EXCEPT ![Task] = "RUNNING"]
    /\ pc' = "run"
    /\ UNCHANGED <<sessVars, rowVars, tstat, receipt, tasks, conv, rev, used, limit, review,
                   permVars, cur, aborted, called, settlement, pollVars, restarts>>

\* Mutant: one model call too many.
MayReserveOneMore(k, r) == rev[k] = r /\ status[k] = "RUNNING" /\ used[k] <= limit[k]

\* reserveRound, in the engine's beforeModelCall.
MayReserve(k, r) == rev[k] = r /\ status[k] = "RUNNING" /\ used[k] < limit[k]

ModelCall ==
    /\ Works("run") /\ MayReserve(Task, trev[cur])
    /\ used' = [used EXCEPT ![Task] = @ + 1]
    /\ called' = TRUE
    /\ UNCHANGED <<sessVars, rowVars, tstat, receipt, tasks, conv, status, rev, limit, review,
                   permVars, pc, cur, aborted, settlement, pollVars, restarts>>

\* The agent's permission tool records the running turn as the blocked one.
RequestPermission ==
    /\ Works("run") /\ "confirm" \in Kinds /\ reqState = "none"
    /\ reqState' = "pending" /\ reqTurn' = cur
    /\ UNCHANGED <<sessVars, rowVars, tstat, receipt, taskVars, review, approvedBy, contTurn,
                   workVars, pollVars, restarts>>

Settlement(st, r, publish) == [status |-> st, rev |-> r, publish |-> publish]

\* execute's catch block.
CatchSettlement ==
    Settlement(IF status[Task] \in {"CANCELLING", "CANCELLED"} THEN "CANCELLED" ELSE "PAUSED",
               trev[cur], rev[Task] = trev[cur])

\* Mutant: the agent's disposition is taken for a status.
ContinueUnconverted == Settlement("continue", rev[Task], FALSE)

\* continueOrPause, at the task's revision of that moment.
ContinueSettlement ==
    IF used[Task] < limit[Task] THEN Settlement("QUEUED", rev[Task], FALSE)
    ELSE Settlement("PAUSED", rev[Task], TRUE)

Decide(stl) == settlement' = stl /\ pc' = "settle"

\* engine.runTurn resolves after at least one model call, or throws.  The text about a skill
\* that cannot be read, which needs no call, is no outcome: it ends in the same catch.
RunEnds ==
    /\ Works("run")
    /\ \/ called /\ ~aborted /\ pc' = "outcome" /\ UNCHANGED settlement
       \/ Decide(CatchSettlement)
    /\ UNCHANGED <<sessVars, rowVars, tstat, receipt, taskVars, review, permVars, cur, aborted,
                   called, pollVars, restarts>>

\* The answer is judged against the task as it is now, not as it was at begin.
StillCurrent == rev[Task] = trev[cur] /\ status[Task] = "RUNNING"

Outcome(d) ==
    /\ Works("outcome")
    /\ IF ~StillCurrent \/ d = "malformed" THEN Decide(CatchSettlement)
       ELSE \/ d = "waiting" /\ Decide(Settlement("WAITING", trev[cur], TRUE))
            \/ d = "continue" /\ Decide(ContinueSettlement)
    /\ UNCHANGED <<sessVars, rowVars, tstat, receipt, taskVars, review, permVars, cur, aborted,
                   called, pollVars, restarts>>

\* beginReview: the completion application of this turn, once.
ApplyForCompletion ==
    /\ Works("outcome") /\ StillCurrent /\ review[cur] = "none"
    /\ review' = [review EXCEPT ![cur] = "open"]
    /\ status' = [status EXCEPT ![Task] = "REVIEWING"]
    /\ pc' = "review"
    /\ UNCHANGED <<sessVars, rowVars, tstat, receipt, tasks, conv, rev, used, limit, permVars,
                   cur, aborted, called, settlement, pollVars, restarts>>

\* Mutant: the abort signal is not looked at after the review.
ReviewIgnoresAbort(d) ==
    IF d = "approved" THEN Settlement("COMPLETED", trev[cur], TRUE)
    ELSE IF d = "waiting" THEN Settlement("WAITING", trev[cur], TRUE)
    ELSE ContinueSettlement

ReviewSettlement(d) ==
    IF aborted THEN CatchSettlement
    ELSE IF d = "approved" THEN Settlement("COMPLETED", trev[cur], TRUE)
    ELSE IF d = "waiting" THEN Settlement("WAITING", trev[cur], TRUE)
    ELSE ContinueSettlement

ReviewReturns(d) ==
    /\ Works("review")
    /\ review' = [review EXCEPT ![cur] = d]
    /\ Decide(ReviewSettlement(d))
    /\ UNCHANGED <<sessVars, rowVars, tstat, receipt, taskVars, permVars, cur, aborted, called,
                   pollVars, restarts>>

ReviewFails ==
    /\ Works("review")
    /\ Decide(CatchSettlement)
    /\ UNCHANGED <<sessVars, rowVars, tstat, receipt, taskVars, review, permVars, cur, aborted,
                   called, pollVars, restarts>>

\* Mutant: late results are applied.
NeverOutdated == FALSE

\* Mutant: late results are dropped of a task that is stopping, too.
OutdatedAlways == rev[Task] # settlement.rev

\* settle: a late result of an old revision only hands the task to its newer turn.
Outdated == /\ rev[Task] # settlement.rev
            /\ status[Task] \notin {"CANCELLING", "PAUSING"}

SettledStatus ==
    LET st == status[Task] IN
    IF st \in Terminal THEN st
    ELSE IF Outdated THEN IF st \in {"RUNNING", "REVIEWING"} THEN "QUEUED" ELSE st
    ELSE IF st \notin Active THEN st
    ELSE IF st = "CANCELLING" THEN "CANCELLED"
    ELSE IF st = "PAUSING" THEN "PAUSED"
    ELSE settlement.status

Applies == status[Task] \in Active /\ ~Outdated
\* Mutant: whatever the settlement did, its reply is sent.
AcceptedBlindly == Applies

Accepted == Applies /\ SettledStatus = settlement.status
LegalMove == Applies => SettledStatus \in Successors(status[Task])

\* completeTurn: settlement, reply and next request in one transaction.
Complete ==
    /\ Works("settle") /\ LegalMove
    /\ status' = [status EXCEPT ![Task] = SettledStatus]
    /\ LET replied == [tstat EXCEPT ![cur] =
                          IF Accepted /\ settlement.publish THEN "REPLY_PENDING" ELSE "SUCCEEDED"]
       IN  IF Accepted /\ settlement.status = "QUEUED"
           THEN Enqueue(Task, "task_continue", replied)
           ELSE tstat' = replied /\ UNCHANGED rowVars
    /\ Release
    /\ UNCHANGED <<sessVars, receipt, tasks, conv, rev, used, limit, review, permVars, pollVars,
                   restarts>>

\* failTurn: an error outside execute's own catch, or a completeTurn rolled back.
TurnFails ==
    /\ Works(pc) /\ pc \in {"claimed", "manage", "settle"}
    /\ StorageFaults \/ (pc = "settle" /\ ~LegalMove)
    /\ tstat' = [tstat EXCEPT ![cur] = "FAILED"]
    /\ status' = IF Task = NoTask \/ ~IsOpen(Task) THEN status
                 ELSE [status EXCEPT ![Task] = FailedStatus(cur)]
    /\ Release
    /\ UNCHANGED <<sessVars, rowVars, receipt, tasks, conv, rev, used, limit, review, permVars,
                   pollVars, restarts>>

Work ==
    \/ \E t \in TurnId : \/ ClaimInput(t) \/ ClaimLapsed(t) \/ ClaimControl(t)
                         \/ ClaimConfirm(t) \/ ClaimNew(t) \/ ClaimManage(t)
    \/ FinishManage
    \/ BeginRefused \/ BeginExhausted \/ BeginUpload \/ BeginRun
    \/ ModelCall \/ RequestPermission \/ RunEnds
    \/ \E d \in {"waiting", "continue", "malformed"} : Outcome(d)
    \/ ApplyForCompletion
    \/ \E d \in Decisions : ReviewReturns(d)
    \/ ReviewFails \/ Complete \/ TurnFails

-----------------------------------------------------------------------------
(* Time and the process.                                                    *)

\* endSession "idle_timeout": nothing open, queued or running in the session.
MayExpire(s) ==
    /\ Open(s) = {}
    /\ ~ \E t \in TurnId : tsess[t] = s /\ tstat[t] \in {"QUEUED", "RUNNING"}

IdleTimeout ==
    /\ phase = "idle" /\ live /\ MayExpire(sess)
    /\ live' = FALSE
    /\ RevokeSession(sess)
    /\ UNCHANGED <<sess, rowVars, tstat, receipt, taskVars, review, workVars, pollVars, restarts>>

RequestExpires ==
    /\ phase = "idle" /\ reqState = "pending"
    /\ reqState' = "revoked"
    /\ UNCHANGED <<sessVars, rowVars, tstat, receipt, taskVars, review, reqTurn, approvedBy,
                   contTurn, workVars, pollVars, restarts>>

\* A stop or a crash, then the recovery at startup: endSession.all closes the live session,
\* recoverInterrupted cancels what is left in sessions already closed.
Restart ==
    /\ phase # "insert" /\ restarts < MaxRestarts
    /\ restarts' = restarts + 1
    /\ live' = FALSE
    /\ status' = IF live THEN Close(sess) ELSE status
    /\ tstat' = [t \in TurnId |-> IF tstat[t] \in {"QUEUED", "RUNNING"} THEN "CANCELLED"
                                  ELSE tstat[t]]
    /\ IF live THEN RevokeSession(sess) ELSE UNCHANGED permVars
    /\ Release
    /\ phase' = "idle"
    /\ UNCHANGED <<sess, rowVars, receipt, tasks, conv, rev, used, limit, review, bNext, bLast,
                   msgs>>

Ingest == Commit \/ Admit

Next ==
    \/ \E m \in Kinds : Receive(m)
    \/ Ingest \/ Work
    \/ IdleTimeout \/ RequestExpires \/ Restart

Spec == Init /\ [][Next]_vars

\* The batch's segment runs on; the turn loop claims again after every turn and its
\* awaits end (engine and reviewer have time limits).
Fairness == WF_vars(Ingest) /\ WF_vars(Work)
FairSpec == Spec /\ Fairness

-----------------------------------------------------------------------------
(* Safety.                                                                  *)

InFlight(k) == pc \in {"run", "outcome", "review", "settle"} /\ ttask[cur] = k
Runnable(t) == tstat[t] = "QUEUED" \/ (t = cur /\ pc = "claimed")

\* A conversation has at most one task that is not closed, and an ended one has none.
OneOpenTask ==
    \A j, k \in TaskId : IsOpen(j) /\ IsOpen(k) => j = k /\ live /\ conv[k] = sess

\* A task that is RUNNING, REVIEWING or stopping is being driven by the turn worker:
\* whatever fails or restarts, none is left in such a state with nobody at work on it.
ActiveHasDriver == \A k \in TaskId : status[k] \in Active => InFlight(k)

\* A QUEUED task is waiting for a turn of its newest revision, so it will be taken up.
QueuedHasTurn ==
    \A k \in TaskId : status[k] = "QUEUED" =>
        \E t \in TurnId : ttask[t] = k /\ trev[t] = rev[k] /\ Runnable(t)

\* The exceptions to it: the continuation of a permission that was taken back meanwhile is
\* answered without its task, and turnFailed queues a task whose newest input is not the
\* one that failed, whether or not a turn of that input is left.
Stranded(k) ==
    \/ /\ contTurn # NoTurn /\ ttask[contTurn] = k /\ trev[contTurn] = rev[k]
       /\ tstat[contTurn] = "REPLY_PENDING" /\ reqState = "revoked"
    \/ \E t \in TurnId : ttask[t] = k /\ trev[t] # rev[k] /\ tstat[t] = "FAILED"

\* Every task that does not wait for the user is being moved along: the worker drives it if
\* it is active, and a turn of its newest revision will take it up if it is queued. Nothing
\* but the two known exceptions leaves one behind.
TasksServed ==
    /\ ActiveHasDriver
    /\ \A k \in TaskId : status[k] = "QUEUED" =>
          \/ \E t \in TurnId : ttask[t] = k /\ trev[t] = rev[k] /\ Runnable(t)
          \/ Stranded(k)

\* A task that waits for the user, or is finished, has told the user so in the reply of a
\* turn that saw the user's newest input; finished ones have passed the review of it.
AnsweredNewestInput ==
    \A k \in TaskId : status[k] \in {"WAITING", "COMPLETED"} =>
        \E t \in TurnId : /\ ttask[t] = k /\ trev[t] = rev[k]
                          /\ tstat[t] = "REPLY_PENDING"
                          /\ status[k] = "COMPLETED" => review[t] = "approved"

\* Model calls stay within the initial limit and the budget messages, each counted once
\* although both the ingress and the turn of the message apply it.
BudgetHonoured ==
    \A k \in TaskId :
        used[k] <= InitialLimit + BudgetAmount
                       * Cardinality({t \in TurnId : kind[t] = "budget" /\ receipt[t] = k})

\* Only the user's "/task resume", "/task budget" or permission confirmation, seen by the
\* program for the first time, puts a paused task back to work.
Woken(k) ==
    \/ contTurn' # contTurn /\ ttask[reqTurn] = k
    \/ \E t \in TurnId : /\ kind[t] \in {"resume", "budget"}
                         /\ receipt[t] = NoReceipt /\ receipt'[t] = k
PausedStays ==
    [][\A k \in TaskId : status[k] = "PAUSED" /\ status'[k] \notin {"PAUSED", "CANCELLED"}
                            => Woken(k)]_vars

\* A run's reply is sent only if the task takes on the status the reply announces; a
\* result or a question goes out only if no input came after the one it answers.
PublishedIsCurrent ==
    [][\A t \in TurnId :
          /\ pc = "settle" /\ t = cur /\ tstat[t] = "RUNNING" /\ tstat'[t] = "REPLY_PENDING"
          => /\ status'[ttask[t]] = settlement.status
             /\ settlement.status \in {"COMPLETED", "WAITING"} => rev[ttask[t]] = trev[t]]_vars

\* A run that was told to stop, for a control, new input or a permission taken back,
\* does not complete its task.
StoppedNeverCompletes ==
    [][\A k \in TaskId : status[k] # "COMPLETED" /\ status'[k] = "COMPLETED" => ~aborted]_vars

\* What the user sends in a batch after that of a "/new" is never worked on in the old
\* conversation.
NewSeparates ==
    \A n, t \in TurnId :
        /\ at[n] < at[t] /\ kind[n] = "new" /\ kind[t] \in InputKinds /\ tsess[n] = tsess[t]
        => tstat[t] \in {"QUEUED", "CANCELLED"}

\* Status changes of every task are those of the domain model.
Lifecycle == INSTANCE TaskLifecycle
RefinesLifecycle == Lifecycle!Spec

-----------------------------------------------------------------------------
(* Liveness, under FairSpec.                                                *)

\* Every request in the queue is answered, dropped or cancelled in the end.
TurnsFinish ==
    \A t \in TurnId : tstat[t] = "QUEUED" ~> tstat[t] \notin {"QUEUED", "RUNNING"}

\* A requested stop takes effect.
HaltsFinish ==
    \A k \in TaskId : status[k] \in {"PAUSING", "CANCELLING"}
                          ~> status[k] \in {"PAUSED", "CANCELLED"}

\* A task that is to be worked on gets to a state that waits for the user or is closed.
TasksProgress ==
    \A k \in TaskId : status[k] = "QUEUED"
                          ~> status[k] \in Terminal \cup {"WAITING", "PAUSED"}
=============================================================================
