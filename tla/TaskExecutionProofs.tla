------------------------ MODULE TaskExecutionProofs ------------------------
(***************************************************************************)
(* Theorems about TaskExecution for every value of its constants.          *)
(***************************************************************************)
EXTENDS TaskExecution, TLAPS

-----------------------------------------------------------------------------
(* The inductive invariant.                                                 *)

\* Rows exist up to the counter, and a message waits only in the live conversation.
QueueOK ==
    \A t \in TurnId :
        /\ tstat[t] = "none" <=> t > turns
        /\ tstat[t] = "QUEUED" => live /\ tsess[t] = sess

\* The worker's turn is a row; one that runs the agent has a task.
WorkerOK ==
    /\ pc # "idle" => cur \in TurnId /\ cur <= turns
    /\ pc \in {"run", "outcome", "review", "settle"} => ttask[cur] \in TaskId
    /\ settlement.status \notin Active

\* The batch's rows and the blocked turn are rows.
BatchOK == phase # "idle" => bNext \in 1..bLast /\ bLast \in 1..turns
RequestOK == reqState # "none" => reqTurn \in 1..turns

IInv == TypeOK /\ QueueOK /\ WorkerOK /\ BatchOK /\ RequestOK /\ OneOpenTask /\ ActiveHasDriver

-----------------------------------------------------------------------------
(* Lemmas about the store's operators.                                      *)

TurnStatuses == [TurnId -> TurnStatus \cup {"none"}]

\* A row is added behind the others and changes none of them.
LEMMA InsertTurnRow ==
    ASSUME RowTypeOK,
           NEW src \in TurnKinds, NEW s \in 0..MaxSessions, NEW k \in 0..MaxTasks,
           NEW r \in Nat, NEW when \in 1..(turns + 1), NEW base \in TurnStatuses,
           InsertTurn(src, s, k, r, when, base)
    PROVE  /\ RowTypeOK' /\ tstat' \in TurnStatuses
           /\ turns' = turns + 1 /\ turns + 1 \in TurnId
           /\ tstat'[turns + 1] = "QUEUED" /\ tsess'[turns + 1] = s /\ ttask'[turns + 1] = k
           /\ \A t \in TurnId \ {turns + 1} :
                 tstat'[t] = base[t] /\ tsess'[t] = tsess[t] /\ ttask'[t] = ttask[t]
<1>1. turns \in Nat /\ turns + 1 \in TurnId
  BY BoundsAssumption DEF InsertTurn, RowTypeOK, TurnId
<1>2. when \in 0..MaxTurns /\ turns' \in 0..MaxTurns
  BY <1>1, BoundsAssumption DEF InsertTurn, TurnId
<1>3. tstat' \in TurnStatuses
  BY <1>1 DEF InsertTurn, TurnStatuses, TurnStatus
<1>4. RowTypeOK'
  BY <1>1, <1>2 DEF InsertTurn, RowTypeOK
<1>5. /\ turns' = turns + 1
      /\ tstat'[turns + 1] = "QUEUED" /\ tsess'[turns + 1] = s /\ ttask'[turns + 1] = k
  BY <1>1 DEF InsertTurn, RowTypeOK, TurnStatuses
<1>6. ASSUME NEW t \in TurnId \ {turns + 1}
      PROVE  tstat'[t] = base[t] /\ tsess'[t] = tsess[t] /\ ttask'[t] = ttask[t]
  BY <1>1, <1>6 DEF InsertTurn, RowTypeOK, TurnStatuses
<1> QED  BY <1>1, <1>3, <1>4, <1>5, <1>6

\* attach finds the open task of the live conversation, or opens the only one.
LEMMA AttachOpens ==
    ASSUME TaskTypeOK, OneOpenTask, NEW s \in 0..MaxSessions, live => s = sess, Attach(s)
    PROVE  /\ TaskTypeOK'
           /\ Binding(s).task \in 0..MaxTasks /\ Binding(s).rev \in Nat
           /\ \A k \in TaskId : status'[k] \in Active => status[k] \in Active
           /\ \A j, k \in TaskId : IsOpen(j)' /\ IsOpen(k)' => j = k /\ conv'[k] = s
<1>1. CASE Open(s) = {}
  <2>1. /\ tasks + 1 \in TaskId
        /\ Binding(s) = [task |-> tasks + 1, rev |-> 1]
        /\ rev' = [rev EXCEPT ![tasks + 1] = @ + 1]
        /\ tasks' = tasks + 1
        /\ conv' = [conv EXCEPT ![tasks + 1] = s]
        /\ status' = [status EXCEPT ![tasks + 1] = "QUEUED"]
        /\ limit' = [limit EXCEPT ![tasks + 1] = InitialLimit]
        /\ used' = used
    BY <1>1, BoundsAssumption DEF Attach, Binding, NoTask, TaskTypeOK
  <2>2. TaskTypeOK'
    <3>1. tasks' \in 0..MaxTasks
      BY <2>1, BoundsAssumption DEF TaskTypeOK, TaskId
    <3>2. conv' \in [TaskId -> 0..MaxSessions]
      BY <2>1 DEF TaskTypeOK
    <3>3. status' \in [TaskId -> TaskStatus \cup {"none"}]
      BY <2>1 DEF TaskTypeOK, TaskStatus
    <3>4. rev' \in [TaskId -> Nat] /\ used' \in [TaskId -> Nat]
      BY <2>1 DEF TaskTypeOK
    <3>5. limit' \in [TaskId -> Nat]
      BY <2>1, ParametersAssumption DEF TaskTypeOK
    <3> QED  BY <3>1, <3>2, <3>3, <3>4, <3>5 DEF TaskTypeOK
  <2>3. ASSUME NEW k \in TaskId, IsOpen(k)'
        PROVE  k = tasks + 1 /\ conv'[k] = s
    BY <1>1, <2>1, <2>3 DEF Open, IsOpen, TaskTypeOK, OneOpenTask
  <2>4. \A k \in TaskId : status'[k] \in Active => status[k] \in Active
    BY <2>1 DEF TaskTypeOK, Active
  <2> QED  BY <2>1, <2>2, <2>3, <2>4 DEF TaskTypeOK, TaskId
<1>2. CASE Open(s) # {}
  <2>1. PICK k \in Open(s) : Binding(s) = IF status[k] = "CANCELLING"
                                           THEN [task |-> NoTask, rev |-> 0]
                                           ELSE [task |-> k, rev |-> rev[k] + 1]
    BY <1>2 DEF Binding
  <2>2. k \in TaskId /\ IsOpen(k) /\ conv[k] = s
    BY DEF Open
  <2>3. /\ status[k] = "CANCELLING" => UNCHANGED taskVars
        /\ status[k] # "CANCELLING" =>
              /\ rev' = [rev EXCEPT ![k] = @ + 1]
              /\ status' = [status EXCEPT ![k] = InputStatus(@)]
              /\ UNCHANGED <<tasks, conv, used, limit>>
    BY <1>2, <2>1, <2>2 DEF Attach, NoTask, TaskId
  <2>4. Binding(s).task \in 0..MaxTasks /\ Binding(s).rev \in Nat
    <3>1. k \in 0..MaxTasks /\ rev[k] + 1 \in Nat
      BY <2>2, BoundsAssumption DEF TaskTypeOK, TaskId
    <3>2. CASE status[k] = "CANCELLING"
      BY <2>1, <3>2, BoundsAssumption DEF NoTask
    <3>3. CASE status[k] # "CANCELLING"
      BY <2>1, <3>1, <3>3
    <3> QED  BY <3>2, <3>3
  <2>5. TaskTypeOK'
    BY <2>2, <2>3 DEF TaskTypeOK, taskVars, InputStatus, TaskStatus
  <2>6. \A j \in TaskId : /\ IsOpen(j)' <=> IsOpen(j)
                          /\ status'[j] \in Active => status[j] \in Active
                          /\ conv'[j] = conv[j]
    BY <2>2, <2>3 DEF TaskTypeOK, taskVars, InputStatus, IsOpen, Active, Terminal
  <2>7. \A i, j \in TaskId : IsOpen(i) /\ IsOpen(j) => i = j /\ conv[j] = s
    BY <2>2 DEF OneOpenTask
  <2> QED  BY <2>4, <2>5, <2>6, <2>7
<1> QED  BY <1>1, <1>2

\* What a step may do to the rows: queue in the live conversation, and nothing to the
\* tasks of the rows there are.
RowsKept(base) ==
    \A t \in TurnId : /\ base[t] = "none" <=> t > turns
                      /\ base[t] = "QUEUED" => live /\ tsess[t] = sess

RowsExtended ==
    /\ turns' \in Nat /\ turns <= turns'
    /\ \A t \in TurnId : /\ tstat'[t] = "none" <=> t > turns'
                         /\ tstat'[t] = "QUEUED" => live /\ tsess'[t] = sess
                         /\ t <= turns => ttask'[t] = ttask[t]

TasksKept ==
    /\ conv' = conv
    /\ \A k \in TaskId : /\ IsOpen(k)' => IsOpen(k)
                         /\ status'[k] \in Active => status[k] \in Active

\* enqueue's row is one more in the live conversation, if the task is open.
LEMMA EnqueueRow ==
    ASSUME RowTypeOK, TaskTypeOK, OneOpenTask, NEW k \in TaskId, IsOpen(k),
           NEW src \in InternalKinds, NEW base \in TurnStatuses, RowsKept(base),
           Enqueue(k, src, base)
    PROVE  RowTypeOK' /\ tstat' \in TurnStatuses /\ RowsExtended
<1>1. live /\ conv[k] = sess
  BY DEF OneOpenTask
<1>2. /\ conv[k] \in 0..MaxSessions /\ rev[k] \in Nat /\ k \in 0..MaxTasks
      /\ turns \in Nat /\ turns + 1 \in 1..(turns + 1)
  BY BoundsAssumption DEF TaskTypeOK, RowTypeOK, TaskId
<1>3. InsertTurn(src, conv[k], k, rev[k], turns + 1, base)
  BY DEF Enqueue
<1>4. src \in TurnKinds
  BY DEF TurnKinds
<1>5. /\ RowTypeOK' /\ tstat' \in TurnStatuses
      /\ turns' = turns + 1 /\ turns + 1 \in TurnId
      /\ tstat'[turns + 1] = "QUEUED" /\ tsess'[turns + 1] = conv[k]
      /\ \A t \in TurnId \ {turns + 1} :
            tstat'[t] = base[t] /\ tsess'[t] = tsess[t] /\ ttask'[t] = ttask[t]
  BY <1>2, <1>3, <1>4, InsertTurnRow
<1>6. ASSUME NEW t \in TurnId
      PROVE  /\ tstat'[t] = "none" <=> t > turns'
             /\ tstat'[t] = "QUEUED" => live /\ tsess'[t] = sess
             /\ t <= turns => ttask'[t] = ttask[t]
  BY <1>1, <1>2, <1>5 DEF RowsKept, TurnId
<1> QED  BY <1>2, <1>5, <1>6 DEF RowsExtended

\* A control touches the open task and the queue only.
LEMMA ControlKeeps ==
    ASSUME RowTypeOK, TaskTypeOK, OneOpenTask, receipt \in [TurnId -> Receipts],
           NEW t \in TurnId, NEW base \in TurnStatuses, RowsKept(base), Control(t, base)
    PROVE  /\ RowTypeOK' /\ TaskTypeOK' /\ tstat' \in TurnStatuses
           /\ receipt' \in [TurnId -> Receipts]
           /\ RowsExtended /\ TasksKept
<1>1. CASE receipt[t] # NoReceipt \/ Open(tsess[t]) = {}
  <2>1. /\ tstat' = base /\ UNCHANGED <<rowVars, taskVars>>
        /\ receipt' = receipt \/ receipt' = [receipt EXCEPT ![t] = Void]
    BY <1>1 DEF Control
  <2>2. receipt' \in [TurnId -> Receipts]
    BY <2>1, BoundsAssumption DEF Receipts, Void
  <2>3. RowTypeOK' /\ TaskTypeOK'
    BY <2>1 DEF RowTypeOK, TaskTypeOK, rowVars, taskVars
  <2>4. RowsExtended /\ TasksKept
    BY <2>1 DEF RowsExtended, RowsKept, TasksKept, RowTypeOK, rowVars, taskVars, IsOpen
  <2> QED  BY <2>1, <2>2, <2>3, <2>4
<1>2. CASE receipt[t] = NoReceipt /\ Open(tsess[t]) # {}
  <2>1. PICK k \in Open(tsess[t]) :
            /\ receipt' = [receipt EXCEPT ![t] = k]
            /\ IF kind[t] \in {"resume", "budget"} THEN Resume(t, k, base) ELSE Halt(t, k, base)
    BY <1>2 DEF Control
  <2>2. k \in TaskId /\ IsOpen(k)
    BY DEF Open
  <2>3. receipt' \in [TurnId -> Receipts]
    BY <2>1, <2>2, BoundsAssumption DEF Receipts, Void, TaskId
  <2>4. CASE Halt(t, k, base)
    <3>1. /\ status' = [status EXCEPT ![k] = HaltStatus(@, kind[t])]
          /\ tstat' = DropQueued(k, base)
          /\ UNCHANGED <<rowVars, tasks, conv, rev, used, limit>>
      BY <2>4 DEF Halt
    <3>2. RowTypeOK' /\ TaskTypeOK'
      <4>1. HaltStatus(status[k], kind[t]) \in TaskStatus
        BY <2>2 DEF HaltStatus, TaskStatus, TaskTypeOK, Active, Terminal
      <4> QED  BY <3>1, <4>1 DEF RowTypeOK, TaskTypeOK, rowVars
    <3>3. tstat' \in TurnStatuses
      BY <3>1 DEF DropQueued, TurnStatuses, TurnStatus
    <3>4. RowsExtended
      BY <3>1 DEF RowsExtended, RowsKept, RowTypeOK, rowVars, DropQueued
    <3>5. TasksKept
      BY <2>2, <3>1 DEF TasksKept, TaskTypeOK, HaltStatus, IsOpen, Active, Terminal
    <3> QED  BY <2>3, <3>2, <3>3, <3>4, <3>5
  <2>5. CASE Resume(t, k, base)
    <3>1. TaskTypeOK'
      BY <2>2, <2>5, ParametersAssumption DEF Resume, TaskTypeOK, TaskStatus
    <3>2. TasksKept
      BY <2>2, <2>5 DEF Resume, TasksKept, TaskTypeOK, IsOpen, Active, Terminal
    <3>3. CASE status[k] = "PAUSED"
      BY <2>2, <2>3, <2>5, <3>1, <3>2, <3>3, EnqueueRow DEF Resume, InternalKinds
    <3>4. CASE status[k] # "PAUSED"
      <4>1. tstat' = base /\ UNCHANGED rowVars
        BY <2>5, <3>4 DEF Resume
      <4>2. RowTypeOK' /\ RowsExtended
        BY <4>1 DEF RowTypeOK, RowsExtended, RowsKept, rowVars
      <4> QED  BY <2>3, <3>1, <3>2, <4>1, <4>2
    <3> QED  BY <3>3, <3>4
  <2> QED  BY <2>1, <2>4, <2>5
<1> QED  BY <1>1, <1>2 DEF TurnId

LEMMA Initially == Init => IInv
<1> SUFFICES ASSUME Init PROVE IInv  OBVIOUS
<1>1. TypeOK
  <2>1. SessionTypeOK /\ PermissionTypeOK /\ PollTypeOK
    BY BoundsAssumption
    DEF Init, SessionTypeOK, PermissionTypeOK, PollTypeOK, NoTurn
  <2>2. RowTypeOK
    BY BoundsAssumption DEF Init, RowTypeOK, NoTask
  <2>3. TaskTypeOK
    BY BoundsAssumption DEF Init, TaskTypeOK
  <2>4. WorkTypeOK
    BY BoundsAssumption DEF Init, WorkTypeOK, NoTurn, NoSettlement, Settlements, TaskStatus
  <2>5. receipt \in [TurnId -> Receipts]
    BY BoundsAssumption DEF Init, NoReceipt, Receipts, Void, TurnId
  <2>6. FlagTypeOK
    BY DEF Init, FlagTypeOK
  <2> QED
    BY <2>1, <2>2, <2>3, <2>4, <2>5, <2>6 DEF Init, TypeOK
<1>2. QueueOK /\ WorkerOK /\ BatchOK /\ RequestOK
  BY DEF Init, QueueOK, WorkerOK, BatchOK, RequestOK, NoSettlement, Active, TurnId
<1>3. OneOpenTask /\ ActiveHasDriver
  BY DEF Init, OneOpenTask, ActiveHasDriver, IsOpen, Active, Terminal
<1> QED  BY <1>1, <1>2, <1>3 DEF IInv

-----------------------------------------------------------------------------
(* Every action preserves the invariant: the poll loop.                     *)

LEMMA ReceivePreserves == ASSUME IInv, NEW m \in Kinds, Receive(m) PROVE IInv'
<1> DEFINE s == IF live THEN sess ELSE sess + 1
           first == IF phase = "idle" THEN turns + 1 ELSE bNext
           binds == m \in InputKinds /\ ~PendingNew(s)
           bound == IF binds THEN Binding(s) ELSE [task |-> NoTask, rev |-> 0]
<1> USE DEF IInv
<1>1. /\ phase \in {"idle", "insert"} /\ s \in SessionId
      /\ sess' = s /\ live' = TRUE
      /\ InsertTurn(m, s, bound.task, bound.rev, first, tstat)
      /\ IF binds THEN Attach(s) ELSE UNCHANGED taskVars
      /\ phase' = "insert" /\ bNext' = first /\ bLast' = turns + 1 /\ msgs' = msgs + 1
      /\ UNCHANGED <<receipt, review, permVars, workVars, restarts>>
  BY DEF Receive
<1> HIDE DEF s, binds, bound, first
<1>2. /\ s \in 0..MaxSessions /\ (live => s = sess) /\ s # 0
      /\ turns \in Nat /\ m \in TurnKinds
  BY <1>1, BoundsAssumption, ParametersAssumption
  DEF s, SessionId, TurnKinds, TypeOK, SessionTypeOK, RowTypeOK
<1>3. first \in 1..(turns + 1)
  BY <1>2 DEF first, BatchOK, TypeOK, PollTypeOK
<1>4. /\ TaskTypeOK'
      /\ bound.task \in 0..MaxTasks /\ bound.rev \in Nat
      /\ \A k \in TaskId : status'[k] \in Active => status[k] \in Active
      /\ \A j, k \in TaskId : IsOpen(j)' /\ IsOpen(k)' => j = k /\ conv'[k] = s
  <2>1. CASE binds
    BY <1>1, <1>2, <2>1, AttachOpens DEF bound, TypeOK
  <2>2. CASE ~binds
    <3>1. UNCHANGED taskVars /\ bound = [task |-> NoTask, rev |-> 0]
      BY <1>1, <2>2 DEF bound
    <3>2. TaskTypeOK' /\ bound.task \in 0..MaxTasks /\ bound.rev \in Nat
      BY <3>1, BoundsAssumption DEF TypeOK, TaskTypeOK, taskVars, NoTask
    <3>3. \A j, k \in TaskId : IsOpen(j)' /\ IsOpen(k)' => j = k /\ conv'[k] = s
      BY <1>2, <3>1 DEF OneOpenTask, IsOpen, taskVars
    <3> QED  BY <3>1, <3>2, <3>3 DEF taskVars
  <2> QED  BY <2>1, <2>2
<1>5. /\ RowTypeOK' /\ tstat' \in TurnStatuses
      /\ turns' = turns + 1 /\ turns + 1 \in TurnId
      /\ tstat'[turns + 1] = "QUEUED" /\ tsess'[turns + 1] = s
      /\ \A t \in TurnId \ {turns + 1} :
            tstat'[t] = tstat[t] /\ tsess'[t] = tsess[t] /\ ttask'[t] = ttask[t]
  BY <1>1, <1>2, <1>3, <1>4, InsertTurnRow DEF TypeOK, TurnStatuses
<1>6. TypeOK'
  <2>1. SessionTypeOK' /\ PollTypeOK'
    <3>1. first \in 0..MaxTurns /\ turns + 1 \in 0..MaxTurns
      BY <1>2, <1>3, <1>5, BoundsAssumption DEF TurnId
    <3> QED  BY <1>1, <1>2, <3>1 DEF SessionTypeOK, PollTypeOK, TypeOK
  <2>2. PermissionTypeOK' /\ WorkTypeOK'
    BY <1>1 DEF TypeOK, PermissionTypeOK, WorkTypeOK, permVars, workVars
  <2>3. FlagTypeOK'
    BY <1>1 DEF TypeOK, FlagTypeOK, workVars
  <2> QED  BY <1>1, <1>4, <1>5, <2>1, <2>2, <2>3 DEF TypeOK, TurnStatuses
<1>7. QueueOK'
  <2> SUFFICES ASSUME NEW t \in TurnId
               PROVE  /\ tstat'[t] = "none" <=> t > turns'
                      /\ tstat'[t] = "QUEUED" => live' /\ tsess'[t] = sess'
    BY DEF QueueOK
  <2>1. CASE t = turns + 1
    BY <1>1, <1>2, <1>5, <2>1
  <2>2. CASE t # turns + 1
    BY <1>1, <1>2, <1>5, <2>2 DEF QueueOK, TurnId
  <2> QED  BY <2>1, <2>2
<1>8. WorkerOK'
  BY <1>1, <1>2, <1>5 DEF WorkerOK, workVars, TypeOK, WorkTypeOK, TurnId
<1>9. BatchOK' /\ RequestOK'
  BY <1>1, <1>2, <1>3, <1>5 DEF BatchOK, RequestOK, permVars, TypeOK, PermissionTypeOK
<1>10. OneOpenTask'
  BY <1>1, <1>4 DEF OneOpenTask
<1>11. ActiveHasDriver'
  <2> SUFFICES ASSUME NEW k \in TaskId, status'[k] \in Active
               PROVE  InFlight(k)'
    BY DEF ActiveHasDriver
  <2>1. InFlight(k)
    BY <1>4 DEF ActiveHasDriver
  <2>2. cur \in TurnId /\ cur <= turns
    BY <2>1 DEF InFlight, WorkerOK
  <2> QED  BY <1>1, <1>2, <1>5, <2>1, <2>2 DEF InFlight, workVars
<1> QED  BY <1>6, <1>7, <1>8, <1>9, <1>10, <1>11

LEMMA CommitPreserves == ASSUME IInv, Commit PROVE IInv'
<1> USE DEF IInv, Commit
<1>1. TypeOK' /\ QueueOK' /\ WorkerOK'
  <2>1. /\ SessionTypeOK' /\ RowTypeOK' /\ TaskTypeOK' /\ PermissionTypeOK' /\ WorkTypeOK'
        /\ PollTypeOK'
    BY DEF TypeOK, SessionTypeOK, RowTypeOK, TaskTypeOK, PermissionTypeOK, WorkTypeOK,
           PollTypeOK, sessVars, rowVars, taskVars, permVars, workVars
  <2>2. FlagTypeOK'
    BY DEF TypeOK, FlagTypeOK, sessVars, workVars
  <2> QED
    BY <2>1, <2>2 DEF TypeOK, QueueOK, WorkerOK, sessVars, rowVars, workVars
<1>2. BatchOK' /\ RequestOK' /\ OneOpenTask' /\ ActiveHasDriver'
  BY DEF BatchOK, RequestOK, OneOpenTask, ActiveHasDriver, IsOpen, InFlight, sessVars,
         rowVars, taskVars, permVars, workVars
<1> QED  BY <1>1, <1>2

\* A step that keeps the open task, the rows and the worker's position keeps the invariant.
LEMMA StoreStep ==
    ASSUME IInv, RowTypeOK', TaskTypeOK', tstat' \in TurnStatuses,
           receipt' \in [TurnId -> Receipts], PermissionTypeOK', PollTypeOK', FlagTypeOK',
           RowsExtended, TasksKept, BatchOK', RequestOK',
           UNCHANGED <<sessVars, review, pc, cur, settlement, restarts>>
    PROVE  IInv'
<1> USE DEF IInv
<1>1. TypeOK'
  BY DEF TypeOK, SessionTypeOK, WorkTypeOK, TurnStatuses, sessVars
<1>2. QueueOK'
  BY DEF QueueOK, RowsExtended, sessVars
<1>3. turns \in Nat /\ turns' \in Nat /\ turns <= turns'
  BY DEF RowsExtended, TypeOK, RowTypeOK
<1>4. WorkerOK'
  BY <1>3 DEF WorkerOK, RowsExtended, TypeOK, WorkTypeOK, TurnId
<1>5. OneOpenTask'
  BY DEF OneOpenTask, TasksKept, sessVars
<1>6. ActiveHasDriver'
  <2> SUFFICES ASSUME NEW k \in TaskId, status'[k] \in Active
               PROVE  InFlight(k)'
    BY DEF ActiveHasDriver
  <2>1. InFlight(k) /\ cur \in TurnId /\ cur <= turns
    BY DEF ActiveHasDriver, TasksKept, InFlight, WorkerOK
  <2> QED  BY <2>1 DEF InFlight, RowsExtended
<1> QED  BY <1>1, <1>2, <1>4, <1>5, <1>6

\* The same for a step that leaves the rows and the tasks alone.
LEMMA IdleStore ==
    ASSUME IInv, UNCHANGED <<rowVars, tstat, taskVars>>
    PROVE  /\ RowTypeOK' /\ TaskTypeOK' /\ tstat' \in TurnStatuses
           /\ RowsExtended /\ TasksKept
<1>1. RowTypeOK' /\ TaskTypeOK' /\ tstat' \in TurnStatuses
  BY DEF IInv, TypeOK, RowTypeOK, TaskTypeOK, TurnStatuses, rowVars, taskVars
<1>2. RowsExtended /\ TasksKept
  BY DEF IInv, TypeOK, RowTypeOK, QueueOK, RowsExtended, TasksKept, IsOpen, rowVars, taskVars
<1> QED  BY <1>1, <1>2

LEMMA AdmitNextKeeps ==
    ASSUME IInv, turns' \in Nat, turns <= turns', phase = "control", AdmitNext
    PROVE  PollTypeOK' /\ BatchOK'
<1>1. /\ phase' \in {"idle", "control"} /\ bLast' = bLast /\ msgs' = msgs
      /\ phase' # "idle" => bNext # bLast /\ bNext' = bNext + 1
      /\ phase' = "idle" => bNext' = bNext
  BY DEF AdmitNext
<1>2. bNext \in 1..bLast /\ bLast \in 1..turns /\ turns \in 0..MaxTurns
  BY DEF IInv, BatchOK, TypeOK, RowTypeOK
<1>3. bNext' \in 1..bLast
  BY <1>1, <1>2, BoundsAssumption
<1>4. bNext' \in 0..MaxTurns /\ bLast \in 0..MaxTurns /\ bLast \in 1..turns'
  BY <1>2, <1>3, BoundsAssumption
<1> QED  BY <1>1, <1>3, <1>4 DEF PollTypeOK, BatchOK, IInv, TypeOK

LEMMA AdmitPreserves == ASSUME IInv, Admit PROVE IInv'
<1> USE DEF Admitting
<1>1. bNext \in TurnId
  <2>1. phase = "control"
    BY DEF Admit, AdmitInput, AdmitControl, AdmitNew, AdmitConfirm, AdmitRevoke
  <2> QED
    BY <2>1, BoundsAssumption DEF IInv, BatchOK, TypeOK, RowTypeOK, TurnId
<1>2. RowsKept(tstat) /\ tstat \in TurnStatuses
  BY DEF IInv, QueueOK, RowsKept, TypeOK, TurnStatuses
<1>3. /\ phase = "control" /\ AdmitNext
      /\ UNCHANGED <<sessVars, review, pc, cur, settlement, restarts>>
  BY DEF Admit, AdmitInput, AdmitControl, AdmitNew, AdmitConfirm, AdmitRevoke, AdmitNext
<1>4. FlagTypeOK'
  <2>1. live' \in BOOLEAN /\ called' \in BOOLEAN
    BY <1>3 DEF AdmitNext, IInv, TypeOK, FlagTypeOK, sessVars
  <2>2. aborted' \in BOOLEAN
    BY DEF Admit, AdmitInput, AdmitControl, AdmitNew, AdmitConfirm, AdmitRevoke, IInv, TypeOK,
           FlagTypeOK
  <2> QED  BY <2>1, <2>2 DEF FlagTypeOK
<1>5. /\ RowTypeOK' /\ TaskTypeOK' /\ tstat' \in TurnStatuses
      /\ receipt' \in [TurnId -> Receipts]
      /\ RowsExtended /\ TasksKept
  <2>1. CASE AdmitControl \/ AdmitNew
    <3>1. Control(bNext, tstat)
      BY <2>1 DEF AdmitControl, AdmitNew
    <3> QED  BY <1>1, <1>2, <3>1, ControlKeeps DEF IInv, TypeOK
  <2>2. CASE AdmitInput \/ AdmitConfirm \/ AdmitRevoke
    <3>1. UNCHANGED <<rowVars, tstat, taskVars, receipt>>
      BY <2>2 DEF AdmitInput, AdmitConfirm, AdmitRevoke
    <3> QED  BY <3>1, IdleStore DEF IInv, TypeOK
  <2> QED  BY <2>1, <2>2 DEF Admit
<1>6. turns \in Nat /\ turns' \in Nat /\ turns <= turns'
  BY <1>5 DEF RowsExtended, IInv, TypeOK, RowTypeOK
<1>7. PermissionTypeOK' /\ RequestOK'
  <2>1. /\ reqState' \in {reqState, "approved", "revoked"}
        /\ reqState = "none" => reqState' = "none"
        /\ approvedBy' \in {approvedBy, bNext}
        /\ UNCHANGED <<reqTurn, contTurn>>
    BY <1>3 DEF Admit, AdmitInput, AdmitControl, AdmitNew, AdmitConfirm, AdmitRevoke,
                RevokeSession, AdmitNext
  <2>2. bNext \in 0..MaxTurns
    BY DEF IInv, TypeOK, PollTypeOK
  <2>3. PermissionTypeOK'
    BY <2>1, <2>2 DEF IInv, TypeOK, PermissionTypeOK
  <2>4. reqState # "none" => reqTurn \in 1..turns
    BY DEF IInv, RequestOK
  <2>5. RequestOK'
    BY <1>6, <2>1, <2>4 DEF RequestOK, IInv, TypeOK, PermissionTypeOK
  <2> QED  BY <2>3, <2>5
<1>8. PollTypeOK' /\ BatchOK'
  BY <1>3, <1>6, AdmitNextKeeps
<1> QED  BY <1>3, <1>4, <1>5, <1>7, <1>8, StoreStep

-----------------------------------------------------------------------------
(* Every action preserves the invariant: the turn worker's claims.          *)

LEMMA ClaimedRow ==
    ASSUME IInv, NEW t \in TurnId, Idle, Claimable(t)
    PROVE  /\ tstat[t] = "QUEUED" /\ t <= turns /\ live /\ tsess[t] = sess
           /\ \A k \in TaskId : status[k] \notin Active
           /\ BatchOK /\ pc = "idle" /\ phase = "idle"
<1>1. tstat[t] = "QUEUED" /\ pc = "idle" /\ phase = "idle"
  BY DEF Idle, Claimable, Candidates
<1>2. t <= turns /\ live /\ tsess[t] = sess
  BY <1>1 DEF IInv, QueueOK, TypeOK, RowTypeOK, TurnId
<1> QED  BY <1>1, <1>2 DEF IInv, ActiveHasDriver, InFlight

\* Whatever a claimed turn's own status becomes, it is no row of the queue any more.
LEMMA ClaimedBase ==
    ASSUME IInv, NEW t \in TurnId, tstat[t] # "none", NEW st \in TurnStatus \ {"QUEUED"}
    PROVE  /\ [tstat EXCEPT ![t] = st] \in TurnStatuses
           /\ RowsKept([tstat EXCEPT ![t] = st])
<1>1. tstat \in TurnStatuses /\ st # "none"
  BY DEF IInv, TypeOK, TurnStatuses, TurnStatus
<1> QED  BY <1>1 DEF TurnStatuses, RowsKept, IInv, QueueOK

\* A step that only changes the statuses of rows.
LEMMA StatusStep ==
    ASSUME IInv, tstat' \in TurnStatuses, RowsKept(tstat'), UNCHANGED <<rowVars, taskVars>>
    PROVE  RowTypeOK' /\ TaskTypeOK' /\ RowsExtended /\ TasksKept
<1>1. RowTypeOK' /\ TaskTypeOK'
  BY DEF IInv, TypeOK, RowTypeOK, TaskTypeOK, rowVars, taskVars
<1>2. RowsExtended /\ TasksKept
  BY DEF IInv, TypeOK, RowTypeOK, RowsExtended, RowsKept, TasksKept, IsOpen, rowVars, taskVars
<1> QED  BY <1>1, <1>2

LEMMA FlagsKept == ASSUME IInv, UNCHANGED <<live, aborted, called>> PROVE FlagTypeOK'
BY DEF IInv, TypeOK, FlagTypeOK

LEMMA PollKept ==
    ASSUME IInv, UNCHANGED pollVars, RowsExtended
    PROVE  PollTypeOK' /\ BatchOK'
<1>1. turns \in Nat /\ turns' \in Nat /\ turns <= turns'
  BY DEF RowsExtended, IInv, TypeOK, RowTypeOK
<1>2. PollTypeOK'
  BY DEF IInv, TypeOK, PollTypeOK, pollVars
<1>3. BatchOK'
  BY <1>1 DEF IInv, BatchOK, pollVars, TypeOK, PollTypeOK
<1> QED  BY <1>2, <1>3

LEMMA RequestKept ==
    ASSUME IInv, RowsExtended, reqTurn' = reqTurn, approvedBy' = approvedBy,
           reqState' \in {reqState, "revoked"}, reqState = "none" => reqState' = "none",
           contTurn' \in 0..MaxTurns
    PROVE  PermissionTypeOK' /\ RequestOK'
<1>1. turns \in Nat /\ turns' \in Nat /\ turns <= turns'
  BY DEF RowsExtended, IInv, TypeOK, RowTypeOK
<1>2. PermissionTypeOK'
  BY DEF IInv, TypeOK, PermissionTypeOK
<1>3. RequestOK'
  BY <1>1 DEF IInv, TypeOK, PermissionTypeOK, RequestOK
<1> QED  BY <1>2, <1>3

LEMMA ClaimLapsedPreserves == ASSUME IInv, NEW t \in TurnId, ClaimLapsed(t) PROVE IInv'
<1>1. tstat[t] = "QUEUED"
  BY ClaimedRow DEF ClaimLapsed
<1>2. tstat' \in TurnStatuses /\ RowsKept(tstat')
  BY <1>1, ClaimedBase DEF ClaimLapsed, TurnStatus
<1>3. RowTypeOK' /\ TaskTypeOK' /\ RowsExtended /\ TasksKept
  BY <1>2, StatusStep DEF ClaimLapsed
<1>4. PollTypeOK' /\ BatchOK'
  BY <1>3, PollKept DEF ClaimLapsed
<1>5. PermissionTypeOK' /\ RequestOK'
  BY <1>3, RequestKept DEF ClaimLapsed, permVars, IInv, TypeOK, PermissionTypeOK
<1>6. FlagTypeOK' /\ receipt' \in [TurnId -> Receipts]
  BY FlagsKept DEF ClaimLapsed, sessVars, workVars, IInv, TypeOK
<1> QED  BY <1>2, <1>3, <1>4, <1>5, <1>6, StoreStep DEF ClaimLapsed, workVars

LEMMA ClaimControlPreserves == ASSUME IInv, NEW t \in TurnId, ClaimControl(t) PROVE IInv'
<1> DEFINE base == [tstat EXCEPT ![t] = "REPLY_PENDING"]
<1>1. tstat[t] = "QUEUED"
  BY ClaimedRow DEF ClaimControl
<1>2. base \in TurnStatuses /\ RowsKept(base)
  BY <1>1, ClaimedBase DEF TurnStatus
<1>3. /\ RowTypeOK' /\ TaskTypeOK' /\ tstat' \in TurnStatuses
      /\ receipt' \in [TurnId -> Receipts] /\ RowsExtended /\ TasksKept
  <2>1. CASE kind[t] = "revoke"
    <3>1. tstat' = base /\ UNCHANGED <<rowVars, taskVars, receipt>>
      BY <2>1 DEF ClaimControl
    <3> QED  BY <1>2, <3>1, StatusStep DEF IInv, TypeOK
  <2>2. CASE kind[t] # "revoke"
    <3>1. Control(t, base)
      BY <2>2 DEF ClaimControl
    <3> HIDE DEF base
    <3> QED  BY <1>2, <3>1, ControlKeeps DEF IInv, TypeOK
  <2> QED  BY <2>1, <2>2
<1>4. PollTypeOK' /\ BatchOK'
  BY <1>3, PollKept DEF ClaimControl
<1>5. PermissionTypeOK' /\ RequestOK'
  BY <1>3, RequestKept DEF ClaimControl, permVars, IInv, TypeOK, PermissionTypeOK
<1>6. FlagTypeOK'
  BY FlagsKept DEF ClaimControl, sessVars, workVars
<1> QED  BY <1>3, <1>4, <1>5, <1>6, StoreStep DEF ClaimControl, workVars

LEMMA ClaimConfirmPreserves == ASSUME IInv, NEW t \in TurnId, ClaimConfirm(t) PROVE IInv'
<1> DEFINE base == [tstat EXCEPT ![t] = "REPLY_PENDING"]
           k == ttask[reqTurn]
<1>1. tstat[t] = "QUEUED"
  BY ClaimedRow DEF ClaimConfirm
<1>2. base \in TurnStatuses /\ RowsKept(base)
  BY <1>1, ClaimedBase DEF TurnStatus
<1>3. /\ RowTypeOK' /\ TaskTypeOK' /\ tstat' \in TurnStatuses
      /\ RowsExtended /\ TasksKept /\ contTurn' \in 0..MaxTurns
  <2>1. CASE Wakes(t)
    <3>1. /\ status' = [status EXCEPT ![k] = "QUEUED"]
          /\ Enqueue(k, "permission_continue", base)
          /\ contTurn' = turns + 1
      BY <2>1 DEF ClaimConfirm
    <3>2. /\ k # NoTask /\ status[k] \in {"WAITING", "PAUSED"} /\ reqState # "none"
          /\ UNCHANGED <<tasks, conv, rev, used, limit>>
      BY <2>1 DEF Wakes, CanContinue, ClaimConfirm
    <3> HIDE DEF base
    <3>3. k \in TaskId
      <4>1. reqTurn \in TurnId
        BY <3>2, BoundsAssumption DEF IInv, RequestOK, TypeOK, RowTypeOK, TurnId
      <4> QED  BY <3>2, <4>1 DEF IInv, TypeOK, RowTypeOK, TaskId, NoTask
    <3> HIDE DEF k
    <3>4. IsOpen(k)
      BY <3>2 DEF IsOpen, Terminal
    <3>5. TaskTypeOK' /\ TasksKept
      BY <3>1, <3>2, <3>3, <3>4 DEF IInv, TypeOK, TaskTypeOK, TasksKept, TaskStatus, IsOpen,
                                    Active
    <3>6. RowTypeOK' /\ tstat' \in TurnStatuses /\ RowsExtended
      BY <1>2, <3>1, <3>3, <3>4, EnqueueRow DEF IInv, TypeOK, InternalKinds
    <3>7. contTurn' \in 0..MaxTurns
      BY <3>1, BoundsAssumption DEF Enqueue, InsertTurn, IInv, TypeOK, RowTypeOK
    <3> QED  BY <3>5, <3>6, <3>7
  <2>2. CASE ~Wakes(t)
    <3>1. tstat' = base /\ contTurn' = contTurn /\ UNCHANGED <<rowVars, taskVars>>
      BY <2>2 DEF ClaimConfirm, taskVars
    <3>2. contTurn' \in 0..MaxTurns
      BY <3>1 DEF IInv, TypeOK, PermissionTypeOK
    <3> QED  BY <1>2, <3>1, <3>2, StatusStep
  <2> QED  BY <2>1, <2>2
<1>4. PollTypeOK' /\ BatchOK'
  BY <1>3, PollKept DEF ClaimConfirm
<1>5. PermissionTypeOK' /\ RequestOK'
  BY <1>3, RequestKept DEF ClaimConfirm
<1>6. FlagTypeOK' /\ receipt' \in [TurnId -> Receipts]
  BY FlagsKept DEF ClaimConfirm, sessVars, workVars, IInv, TypeOK
<1> QED  BY <1>3, <1>4, <1>5, <1>6, StoreStep DEF ClaimConfirm, workVars

LEMMA ClaimInputPreserves == ASSUME IInv, NEW t \in TurnId, ClaimInput(t) PROVE IInv'
<1> DEFINE binds == ttask[t] = NoTask /\ kind[t] \in InputKinds
<1>1. /\ tstat[t] = "QUEUED" /\ t <= turns /\ live /\ tsess[t] = sess
      /\ \A k \in TaskId : status[k] \notin Active
      /\ BatchOK /\ phase = "idle"
  BY ClaimedRow DEF ClaimInput
<1>2. /\ tstat' = [tstat EXCEPT ![t] = "RUNNING"] /\ pc' = "claimed" /\ cur' = t
      /\ UNCHANGED <<sessVars, turns, kind, at, tsess, receipt, review, permVars, aborted,
                     called, settlement, pollVars, restarts>>
      /\ IF binds
         THEN /\ Attach(tsess[t])
              /\ ttask' = [ttask EXCEPT ![t] = Binding(tsess[t]).task]
              /\ trev' = [trev EXCEPT ![t] = Binding(tsess[t]).rev]
         ELSE UNCHANGED <<taskVars, ttask, trev>>
  BY DEF ClaimInput
<1> HIDE DEF binds
<1>3. /\ TaskTypeOK' /\ ttask' \in [TurnId -> 0..MaxTasks] /\ trev' \in [TurnId -> Nat]
      /\ \A k \in TaskId : status'[k] \notin Active
      /\ \A j, k \in TaskId : IsOpen(j)' /\ IsOpen(k)' => j = k /\ conv'[k] = sess
  <2>1. CASE binds
    <3>1. sess \in 0..MaxSessions
      BY DEF IInv, TypeOK, SessionTypeOK
    <3>2. /\ TaskTypeOK'
          /\ Binding(sess).task \in 0..MaxTasks /\ Binding(sess).rev \in Nat
          /\ \A k \in TaskId : status'[k] \in Active => status[k] \in Active
          /\ \A j, k \in TaskId : IsOpen(j)' /\ IsOpen(k)' => j = k /\ conv'[k] = sess
      BY <1>1, <1>2, <2>1, <3>1, AttachOpens DEF IInv, TypeOK
    <3> QED  BY <1>1, <1>2, <2>1, <3>2 DEF IInv, TypeOK, RowTypeOK
  <2>2. CASE ~binds
    BY <1>1, <1>2, <2>2 DEF IInv, TypeOK, RowTypeOK, TaskTypeOK, OneOpenTask, IsOpen, taskVars
  <2> QED  BY <2>1, <2>2
<1>4. TypeOK'
  <2>1. SessionTypeOK' /\ RowTypeOK' /\ PermissionTypeOK' /\ PollTypeOK'
    BY <1>2, <1>3 DEF IInv, TypeOK, SessionTypeOK, RowTypeOK, PermissionTypeOK, PollTypeOK,
                      sessVars, permVars, pollVars
  <2>2. WorkTypeOK'
    BY <1>2, BoundsAssumption DEF IInv, TypeOK, WorkTypeOK, TurnId
  <2>3. FlagTypeOK'
    BY <1>2, FlagsKept DEF sessVars
  <2>4. tstat' \in [TurnId -> TurnStatus \cup {"none"}]
    BY <1>2 DEF IInv, TypeOK, TurnStatus
  <2> QED  BY <1>2, <1>3, <2>1, <2>2, <2>3, <2>4 DEF IInv, TypeOK
<1>5. QueueOK'
  BY <1>1, <1>2 DEF IInv, TypeOK, QueueOK, sessVars
<1>6. WorkerOK' /\ BatchOK' /\ RequestOK'
  BY <1>1, <1>2 DEF IInv, WorkerOK, BatchOK, RequestOK, permVars, pollVars
<1>7. OneOpenTask' /\ ActiveHasDriver'
  BY <1>1, <1>2, <1>3 DEF OneOpenTask, ActiveHasDriver, sessVars
<1> QED  BY <1>4, <1>5, <1>6, <1>7 DEF IInv

\* The conversation that ends is the live one, so nothing stays open.
LEMMA CloseEndsAll ==
    ASSUME IInv, live, status' = Close(sess), UNCHANGED <<tasks, conv, rev, used, limit>>
    PROVE  TaskTypeOK' /\ \A k \in TaskId : ~IsOpen(k)' /\ status'[k] \notin Active
<1>1. \A k \in TaskId : IsOpen(k) => k \in Open(sess)
  BY DEF IInv, OneOpenTask, Open
<1>2. \A k \in TaskId : status'[k] = IF k \in Open(sess) THEN "CANCELLED" ELSE status[k]
  BY DEF Close
<1>3. TaskTypeOK'
  BY DEF IInv, TypeOK, TaskTypeOK, Close, TaskStatus, Terminal
<1> QED  BY <1>1, <1>2, <1>3 DEF IsOpen, Terminal, Active

LEMMA ClaimNewPreserves == ASSUME IInv, NEW t \in TurnId, ClaimNew(t) PROVE IInv'
<1> DEFINE s == tsess[t]
           queued == {u \in TurnId \ {t} : tsess[u] = s /\ tstat[u] = "QUEUED"}
           moved == {u \in queued : kind[u] \in MessageKinds}
           next == IF moved = {} THEN sess ELSE sess + 1
<1>1. /\ tstat[t] = "QUEUED" /\ live /\ s = sess
      /\ \A k \in TaskId : status[k] \notin Active
      /\ BatchOK /\ pc = "idle" /\ phase = "idle"
  BY ClaimedRow DEF ClaimNew
<1>2. InLiveSession(t)
  BY <1>1 DEF InLiveSession
<1>3. /\ next \in SessionId
      /\ status' = Close(s)
      /\ tstat' = [u \in TurnId |-> IF u = t THEN "REPLY_PENDING"
                                    ELSE IF u \in queued \ moved THEN "CANCELLED" ELSE tstat[u]]
      /\ sess' = next /\ live' = (moved # {})
      /\ tsess' = [u \in TurnId |-> IF u \in moved THEN next ELSE tsess[u]]
      /\ ttask' = [u \in TurnId |-> IF u \in moved THEN NoTask ELSE ttask[u]]
      /\ trev' = [u \in TurnId |-> IF u \in moved THEN 0 ELSE trev[u]]
      /\ RevokeSession(s)
      /\ UNCHANGED <<turns, kind, at, receipt, tasks, conv, rev, used, limit, review,
                     workVars, pollVars, restarts>>
  BY <1>2 DEF ClaimNew
<1>4. \A u \in moved : tstat[u] = "QUEUED"
  OBVIOUS
<1>5. \A u \in TurnId : tstat[u] = "QUEUED" /\ u # t => u \in queued
  BY <1>1 DEF IInv, QueueOK
<1> HIDE DEF queued, moved, next
<1>6. TaskTypeOK' /\ \A k \in TaskId : ~IsOpen(k)' /\ status'[k] \notin Active
  BY <1>1, <1>3, CloseEndsAll
<1>7. TypeOK'
  <2>1. next \in 0..MaxSessions /\ next # 0 /\ NoTask \in 0..MaxTasks
    BY <1>3, BoundsAssumption DEF SessionId, NoTask
  <2>2. SessionTypeOK'
    BY <1>3, <2>1 DEF SessionTypeOK
  <2>3. RowTypeOK'
    BY <1>3, <2>1 DEF IInv, TypeOK, RowTypeOK
  <2>4. PermissionTypeOK' /\ PollTypeOK' /\ WorkTypeOK'
    BY <1>3 DEF RevokeSession, IInv, TypeOK, PermissionTypeOK, PollTypeOK, WorkTypeOK, pollVars,
                workVars
  <2>5. FlagTypeOK'
    BY <1>3 DEF IInv, TypeOK, FlagTypeOK, workVars
  <2>6. tstat' \in [TurnId -> TurnStatus \cup {"none"}]
    BY <1>3 DEF IInv, TypeOK, TurnStatus
  <2> QED  BY <1>3, <1>6, <2>2, <2>3, <2>4, <2>5, <2>6 DEF IInv, TypeOK
<1>8. QueueOK'
  <2> SUFFICES ASSUME NEW u \in TurnId
               PROVE  /\ tstat'[u] = "none" <=> u > turns'
                      /\ tstat'[u] = "QUEUED" => live' /\ tsess'[u] = sess'
    BY DEF QueueOK
  <2>1. tstat[u] = "none" <=> u > turns
    BY DEF IInv, QueueOK
  <2>2. tstat'[u] = "none" <=> tstat[u] = "none"
    BY <1>1, <1>3, <1>5 DEF queued
  <2>3. tstat'[u] = "QUEUED" => u \in moved
    BY <1>3, <1>5
  <2> QED  BY <1>3, <2>1, <2>2, <2>3
<1>9. WorkerOK' /\ BatchOK' /\ RequestOK'
  BY <1>1, <1>3 DEF IInv, WorkerOK, BatchOK, RequestOK, RevokeSession, workVars, pollVars
<1>10. OneOpenTask' /\ ActiveHasDriver'
  BY <1>6 DEF OneOpenTask, ActiveHasDriver
<1> QED  BY <1>7, <1>8, <1>9, <1>10 DEF IInv

LEMMA ClaimManagePreserves == ASSUME IInv, NEW t \in TurnId, ClaimManage(t) PROVE IInv'
<1>1. /\ tstat[t] = "QUEUED" /\ t <= turns /\ \A k \in TaskId : status[k] \notin Active
      /\ pc = "idle" /\ phase = "idle"
  BY ClaimedRow DEF ClaimManage
<1>2. tstat' \in TurnStatuses /\ RowsKept(tstat')
  BY <1>1, ClaimedBase DEF ClaimManage, TurnStatus
<1>3. RowTypeOK' /\ TaskTypeOK' /\ RowsExtended /\ TasksKept
  BY <1>2, StatusStep DEF ClaimManage
<1>4. TypeOK'
  <2>1. FlagTypeOK'
    BY FlagsKept DEF ClaimManage, sessVars
  <2>2. SessionTypeOK' /\ PermissionTypeOK' /\ PollTypeOK'
    BY DEF ClaimManage, IInv, TypeOK, SessionTypeOK, PermissionTypeOK, PollTypeOK, sessVars,
           permVars, pollVars
  <2>3. WorkTypeOK'
    BY BoundsAssumption DEF ClaimManage, IInv, TypeOK, WorkTypeOK, TurnId
  <2> QED  BY <1>2, <1>3, <2>1, <2>2, <2>3 DEF ClaimManage, IInv, TypeOK, TurnStatuses
<1>5. QueueOK' /\ WorkerOK' /\ BatchOK' /\ RequestOK'
  BY <1>1, <1>3 DEF ClaimManage, RowsExtended, IInv, QueueOK, WorkerOK, BatchOK, RequestOK,
                    sessVars, rowVars, permVars, pollVars
<1>6. OneOpenTask' /\ ActiveHasDriver'
  BY <1>1 DEF ClaimManage, IInv, OneOpenTask, ActiveHasDriver, IsOpen, sessVars, taskVars
<1> QED  BY <1>4, <1>5, <1>6 DEF IInv

-----------------------------------------------------------------------------
(* Every action preserves the invariant: the run.                           *)

\* The worker lets go of its turn: nothing may be left that only it would finish.
LEMMA ReleaseStep ==
    ASSUME IInv, RowTypeOK', TaskTypeOK', tstat' \in TurnStatuses, RowsExtended, TasksKept,
           \A k \in TaskId : status'[k] \notin Active,
           Release, UNCHANGED <<sessVars, receipt, review, permVars, pollVars, restarts>>
    PROVE  IInv'
<1>1. TypeOK'
  <2>1. SessionTypeOK' /\ PermissionTypeOK'
    BY DEF IInv, TypeOK, SessionTypeOK, PermissionTypeOK, sessVars, permVars
  <2>2. WorkTypeOK'
    BY BoundsAssumption DEF Release, WorkTypeOK, NoSettlement, NoTurn, Settlements, TaskStatus
  <2>3. FlagTypeOK'
    BY DEF Release, IInv, TypeOK, FlagTypeOK, sessVars
  <2> QED  BY <2>1, <2>2, <2>3, PollKept DEF IInv, TypeOK, TurnStatuses
<1>2. QueueOK' /\ RequestOK' /\ BatchOK'
  <2>1. BatchOK'
    BY PollKept
  <2>2. QueueOK'
    BY DEF QueueOK, RowsExtended, sessVars
  <2>3. RequestOK'
    BY DEF IInv, TypeOK, RowTypeOK, PermissionTypeOK, RequestOK, RowsExtended, permVars
  <2> QED  BY <2>1, <2>2, <2>3
<1>3. WorkerOK' /\ OneOpenTask' /\ ActiveHasDriver'
  BY DEF Release, WorkerOK, NoSettlement, Active, IInv, OneOpenTask, ActiveHasDriver, TasksKept,
         sessVars
<1> QED  BY <1>1, <1>2, <1>3 DEF IInv

LEMMA CurrentRow ==
    ASSUME IInv, pc # "idle"
    PROVE  cur \in TurnId /\ cur <= turns /\ tstat[cur] # "none"
BY DEF IInv, WorkerOK, QueueOK, TypeOK, RowTypeOK, TurnId

LEMMA ReplyRow ==
    ASSUME IInv, pc # "idle", NEW publish \in BOOLEAN, Reply(publish)
    PROVE  tstat' \in TurnStatuses /\ RowsKept(tstat')
BY CurrentRow, ClaimedBase DEF Reply, TurnStatus

LEMMA FinishManagePreserves == ASSUME IInv, FinishManage PROVE IInv'
<1>1. pc = "manage" /\ \A k \in TaskId : status[k] \notin Active
  BY DEF FinishManage, Works, IInv, ActiveHasDriver, InFlight
<1>2. tstat' \in TurnStatuses /\ RowsKept(tstat')
  BY <1>1, CurrentRow, ClaimedBase DEF FinishManage, TurnStatus
<1>3. RowTypeOK' /\ TaskTypeOK' /\ RowsExtended /\ TasksKept
  BY <1>2, StatusStep DEF FinishManage
<1> QED  BY <1>1, <1>2, <1>3, ReleaseStep DEF FinishManage, taskVars

LEMMA ClaimedIsQuiet ==
    ASSUME IInv, pc = "claimed" PROVE \A k \in TaskId : status[k] \notin Active
BY DEF IInv, ActiveHasDriver, InFlight

LEMMA TaskOfTurn ==
    ASSUME IInv, pc # "idle", Task # NoTask PROVE Task \in TaskId
<1>1. ttask[cur] \in 0..MaxTasks /\ MaxTasks \in Nat
  BY CurrentRow, BoundsAssumption DEF IInv, TypeOK, RowTypeOK
<1> QED  BY <1>1 DEF Task, NoTask, TaskId

LEMMA BeginRefusedPreserves == ASSUME IInv, BeginRefused PROVE IInv'
<1>1. pc = "claimed" /\ Reply(~Executes \/ (status[Task] = "PAUSED" /\ FromUser))
  BY DEF BeginRefused, Works
<1>2. tstat' \in TurnStatuses /\ RowsKept(tstat')
  BY <1>1, ReplyRow
<1>3. RowTypeOK' /\ TaskTypeOK' /\ RowsExtended /\ TasksKept
  BY <1>2, StatusStep DEF BeginRefused
<1> QED  BY <1>1, <1>2, <1>3, ClaimedIsQuiet, ReleaseStep DEF BeginRefused, taskVars

\* begin without a run: the QUEUED task moves to a status nobody has to drive.
LEMMA BeginEnds ==
    ASSUME IInv, pc = "claimed", Task # NoTask, CanBegin, NEW publish \in BOOLEAN,
           Reply(publish), NEW st \in {"PAUSED", "WAITING"}, Release,
           status' = [status EXCEPT ![Task] = st],
           UNCHANGED <<sessVars, rowVars, receipt, tasks, conv, rev, used, limit, review,
                       permVars, pollVars, restarts>>
    PROVE  IInv'
<1>1. Task \in TaskId /\ IsOpen(Task)
  BY TaskOfTurn DEF CanBegin, IsOpen, Terminal
<1>2. tstat' \in TurnStatuses /\ RowsKept(tstat')
  BY ReplyRow
<1>3. TaskTypeOK' /\ TasksKept /\ \A k \in TaskId : status'[k] \notin Active
  BY <1>1, ClaimedIsQuiet DEF IInv, TypeOK, TaskTypeOK, TasksKept, IsOpen, TaskStatus, Active
<1>4. RowTypeOK' /\ RowsExtended
  BY <1>2 DEF IInv, TypeOK, RowTypeOK, RowsKept, RowsExtended, rowVars
<1> QED  BY <1>2, <1>3, <1>4, ReleaseStep

LEMMA BeginExhaustedPreserves == ASSUME IInv, BeginExhausted PROVE IInv'
BY BeginEnds DEF BeginExhausted, Works

LEMMA BeginUploadPreserves == ASSUME IInv, BeginUpload PROVE IInv'
BY BeginEnds DEF BeginUpload, Works

RunStates == {"run", "outcome", "review", "settle"}

\* A step of the run in hand keeps it in hand.
LEMMA RunStep ==
    ASSUME IInv, TaskTypeOK', PermissionTypeOK', RequestOK', FlagTypeOK', TasksKept,
           review' \in [TurnId -> Decisions \cup {"none", "open"}],
           pc \in RunStates, pc' \in RunStates,
           settlement' \in Settlements, settlement'.status \notin Active,
           UNCHANGED <<sessVars, rowVars, tstat, receipt, cur, pollVars, restarts>>
    PROVE  IInv'
<1>1. RowTypeOK' /\ PollTypeOK' /\ SessionTypeOK' /\ QueueOK' /\ BatchOK'
  BY DEF IInv, TypeOK, RowTypeOK, PollTypeOK, SessionTypeOK, QueueOK, BatchOK, sessVars,
         rowVars, pollVars
<1>2. TypeOK'
  BY <1>1 DEF IInv, TypeOK, WorkTypeOK, RunStates
<1>3. WorkerOK'
  BY DEF IInv, WorkerOK, RunStates, rowVars
<1>4. OneOpenTask' /\ ActiveHasDriver'
  BY DEF IInv, OneOpenTask, ActiveHasDriver, InFlight, TasksKept, RunStates, sessVars, rowVars
<1> QED  BY <1>1, <1>2, <1>3, <1>4 DEF IInv

LEMMA BeginRunPreserves == ASSUME IInv, BeginRun PROVE IInv'
<1>1. /\ pc = "claimed" /\ Task # NoTask /\ status[Task] = "QUEUED"
      /\ status' = [status EXCEPT ![Task] = "RUNNING"] /\ pc' = "run" /\ cur' = cur
      /\ UNCHANGED <<sessVars, rowVars, tstat, receipt, tasks, conv, rev, used, limit, review,
                     permVars, aborted, called, settlement, pollVars, restarts>>
  BY DEF BeginRun, Works, CanBegin
<1>2. Task \in TaskId /\ \A k \in TaskId : status[k] \notin Active
  BY <1>1, TaskOfTurn, ClaimedIsQuiet
<1>3. TypeOK'
  <2>1. TaskTypeOK'
    BY <1>1, <1>2 DEF IInv, TypeOK, TaskTypeOK, TaskStatus, Active
  <2>2. FlagTypeOK'
    BY <1>1, FlagsKept DEF sessVars
  <2>3. /\ SessionTypeOK' /\ RowTypeOK' /\ PermissionTypeOK' /\ WorkTypeOK' /\ PollTypeOK'
    BY <1>1 DEF IInv, TypeOK, SessionTypeOK, RowTypeOK, PermissionTypeOK, WorkTypeOK,
                PollTypeOK, sessVars, rowVars, permVars, pollVars
  <2> QED  BY <1>1, <2>1, <2>2, <2>3 DEF IInv, TypeOK
<1>4. QueueOK' /\ WorkerOK' /\ BatchOK' /\ RequestOK'
  BY <1>1, <1>2 DEF IInv, QueueOK, WorkerOK, BatchOK, RequestOK, Task, sessVars, rowVars,
                    permVars, pollVars
<1>5. OneOpenTask'
  <2>1. \A k \in TaskId : IsOpen(k)' => IsOpen(k)
    BY <1>1, <1>2 DEF IInv, TypeOK, TaskTypeOK, IsOpen, Terminal
  <2> QED  BY <1>1, <2>1 DEF IInv, OneOpenTask, sessVars
<1>6. ActiveHasDriver'
  BY <1>1, <1>2 DEF IInv, TypeOK, TaskTypeOK, ActiveHasDriver, InFlight, Task, rowVars
<1> QED  BY <1>3, <1>4, <1>5, <1>6 DEF IInv

LEMMA TasksStay ==
    ASSUME IInv, UNCHANGED taskVars PROVE TaskTypeOK' /\ TasksKept
BY DEF IInv, TypeOK, TaskTypeOK, TasksKept, IsOpen, taskVars

LEMMA PermissionsStay ==
    ASSUME IInv, UNCHANGED <<permVars, turns>> PROVE PermissionTypeOK' /\ RequestOK'
BY DEF IInv, TypeOK, PermissionTypeOK, RequestOK, permVars

LEMMA RunTask ==
    ASSUME IInv, pc \in RunStates
    PROVE  /\ Task \in TaskId /\ cur \in TurnId
           /\ rev[Task] \in Nat /\ trev[cur] \in Nat
           /\ settlement \in Settlements /\ settlement.status \notin Active
<1>1. Task \in TaskId /\ cur \in TurnId
  BY DEF IInv, WorkerOK, RunStates, Task
<1> QED  BY <1>1 DEF IInv, TypeOK, TaskTypeOK, RowTypeOK, WorkTypeOK, WorkerOK

\* What the task manager decides on is a status nobody has to drive.
LEMMA DecisionTypes ==
    ASSUME IInv, pc \in RunStates
    PROVE  /\ CatchSettlement \in Settlements /\ CatchSettlement.status \notin Active
           /\ ContinueSettlement \in Settlements /\ ContinueSettlement.status \notin Active
           /\ \A st \in {"WAITING", "COMPLETED"} :
                 /\ Settlement(st, trev[cur], TRUE) \in Settlements
                 /\ Settlement(st, trev[cur], TRUE).status \notin Active
<1>1. rev[Task] \in Nat /\ trev[cur] \in Nat
  BY RunTask
<1>2. CatchSettlement \in Settlements /\ CatchSettlement.status \notin Active
  BY <1>1 DEF CatchSettlement, Settlement, Settlements, TaskStatus, Active, Terminal
<1>3. ContinueSettlement \in Settlements /\ ContinueSettlement.status \notin Active
  BY <1>1 DEF ContinueSettlement, Settlement, Settlements, TaskStatus, Active, Terminal
<1>4. ASSUME NEW st \in {"WAITING", "COMPLETED"}
      PROVE  /\ Settlement(st, trev[cur], TRUE) \in Settlements
             /\ Settlement(st, trev[cur], TRUE).status \notin Active
  BY <1>1, <1>4 DEF Settlement, Settlements, TaskStatus, Active, Terminal
<1> QED  BY <1>2, <1>3, <1>4

LEMMA ModelCallPreserves == ASSUME IInv, ModelCall PROVE IInv'
<1>1. pc = "run" /\ pc' = pc /\ Task \in TaskId
  BY RunTask DEF ModelCall, Works, RunStates
<1>2. TaskTypeOK' /\ TasksKept
  BY <1>1 DEF ModelCall, IInv, TypeOK, TaskTypeOK, TasksKept, IsOpen
<1>3. FlagTypeOK'
  BY DEF ModelCall, IInv, TypeOK, FlagTypeOK, sessVars
<1>4. PermissionTypeOK' /\ RequestOK'
  BY PermissionsStay DEF ModelCall, rowVars
<1>5. review' \in [TurnId -> Decisions \cup {"none", "open"}]
  BY DEF ModelCall, IInv, TypeOK
<1>6. settlement' \in Settlements /\ settlement'.status \notin Active
  BY <1>1, RunTask DEF ModelCall, RunStates
<1> QED  BY <1>1, <1>2, <1>3, <1>4, <1>5, <1>6, RunStep DEF ModelCall, RunStates

LEMMA RequestPermissionPreserves == ASSUME IInv, RequestPermission PROVE IInv'
<1>1. pc = "run" /\ pc' = pc
  BY DEF RequestPermission, Works, workVars
<1>2. TaskTypeOK' /\ TasksKept
  BY TasksStay DEF RequestPermission
<1>3. FlagTypeOK'
  BY FlagsKept DEF RequestPermission, sessVars, workVars
<1>4. PermissionTypeOK' /\ RequestOK'
  <2>1. cur \in TurnId /\ cur <= turns /\ turns \in Nat
    BY <1>1, CurrentRow DEF IInv, TypeOK, RowTypeOK
  <2>2. cur \in 1..turns /\ cur \in 0..MaxTurns
    BY <2>1, BoundsAssumption DEF TurnId
  <2> QED  BY <2>2 DEF RequestPermission, IInv, TypeOK, PermissionTypeOK, RequestOK, rowVars
<1>5. review' \in [TurnId -> Decisions \cup {"none", "open"}]
  BY DEF RequestPermission, IInv, TypeOK
<1>6. settlement' \in Settlements /\ settlement'.status \notin Active
  BY <1>1, RunTask DEF RequestPermission, RunStates, workVars
<1> QED  BY <1>1, <1>2, <1>3, <1>4, <1>5, <1>6, RunStep
         DEF RequestPermission, RunStates, workVars

\* A decision, or the step to the review of it: only the worker's registers change.
LEMMA DecisionStep ==
    ASSUME IInv, pc \in RunStates, pc' \in RunStates,
           settlement' \in Settlements, settlement'.status \notin Active,
           review' \in [TurnId -> Decisions \cup {"none", "open"}],
           UNCHANGED <<sessVars, rowVars, tstat, receipt, taskVars, permVars, cur, aborted,
                       called, pollVars, restarts>>
    PROVE  IInv'
<1>1. TaskTypeOK' /\ TasksKept
  BY TasksStay
<1>2. PermissionTypeOK' /\ RequestOK'
  BY PermissionsStay DEF rowVars
<1>3. FlagTypeOK'
  BY FlagsKept DEF sessVars
<1> QED  BY <1>1, <1>2, <1>3, RunStep

LEMMA RunEndsPreserves == ASSUME IInv, RunEnds PROVE IInv'
<1>1. pc \in RunStates /\ pc' \in RunStates
  BY DEF RunEnds, Works, Decide, RunStates
<1>2. settlement' \in Settlements /\ settlement'.status \notin Active
  BY <1>1, RunTask, DecisionTypes DEF RunEnds, Decide
<1>3. review' \in [TurnId -> Decisions \cup {"none", "open"}]
  BY DEF RunEnds, IInv, TypeOK
<1> QED  BY <1>1, <1>2, <1>3, DecisionStep DEF RunEnds

LEMMA OutcomePreserves ==
    ASSUME IInv, NEW d \in {"waiting", "continue", "malformed"}, Outcome(d) PROVE IInv'
<1>1. pc \in RunStates /\ pc' \in RunStates
  BY DEF Outcome, Works, Decide, RunStates
<1>2. settlement' \in Settlements /\ settlement'.status \notin Active
  BY <1>1, DecisionTypes DEF Outcome, Decide
<1>3. review' \in [TurnId -> Decisions \cup {"none", "open"}]
  BY DEF Outcome, IInv, TypeOK
<1> QED  BY <1>1, <1>2, <1>3, DecisionStep DEF Outcome

LEMMA ApplyForCompletionPreserves == ASSUME IInv, ApplyForCompletion PROVE IInv'
<1>1. /\ pc \in RunStates /\ pc' \in RunStates /\ status[Task] = "RUNNING"
      /\ settlement' = settlement
  BY DEF ApplyForCompletion, Works, StillCurrent, RunStates
<1>2. Task \in TaskId /\ cur \in TurnId
  BY <1>1, RunTask
<1>3. TaskTypeOK' /\ TasksKept
  BY <1>1, <1>2 DEF ApplyForCompletion, IInv, TypeOK, TaskTypeOK, TasksKept, IsOpen,
                    TaskStatus, Active, Terminal
<1>4. FlagTypeOK'
  BY FlagsKept DEF ApplyForCompletion, sessVars
<1>5. PermissionTypeOK' /\ RequestOK'
  BY PermissionsStay DEF ApplyForCompletion, rowVars
<1>6. review' \in [TurnId -> Decisions \cup {"none", "open"}]
  BY <1>2 DEF ApplyForCompletion, IInv, TypeOK
<1>7. settlement' \in Settlements /\ settlement'.status \notin Active
  BY <1>1, RunTask
<1> QED  BY <1>1, <1>3, <1>4, <1>5, <1>6, <1>7, RunStep DEF ApplyForCompletion

LEMMA ReviewReturnsPreserves ==
    ASSUME IInv, NEW d \in Decisions, ReviewReturns(d) PROVE IInv'
<1>1. pc \in RunStates /\ pc' \in RunStates
  BY DEF ReviewReturns, Works, Decide, RunStates
<1>2. settlement' \in Settlements /\ settlement'.status \notin Active
  BY <1>1, DecisionTypes DEF ReviewReturns, Decide, ReviewSettlement
<1>3. review' \in [TurnId -> Decisions \cup {"none", "open"}]
  BY DEF ReviewReturns, IInv, TypeOK
<1> QED  BY <1>1, <1>2, <1>3, DecisionStep DEF ReviewReturns

LEMMA ReviewFailsPreserves == ASSUME IInv, ReviewFails PROVE IInv'
<1>1. pc \in RunStates /\ pc' \in RunStates
  BY DEF ReviewFails, Works, Decide, RunStates
<1>2. settlement' \in Settlements /\ settlement'.status \notin Active
  BY <1>1, DecisionTypes DEF ReviewFails, Decide
<1>3. review' \in [TurnId -> Decisions \cup {"none", "open"}]
  BY DEF ReviewFails, IInv, TypeOK
<1> QED  BY <1>1, <1>2, <1>3, DecisionStep DEF ReviewFails

\* What settle makes of the task is a status of the domain model that nobody has to drive.
LEMMA SettledIsQuiet ==
    ASSUME IInv, pc \in RunStates, LegalMove
    PROVE  /\ SettledStatus \notin Active
           /\ status[Task] \in TaskStatus => SettledStatus \in TaskStatus
           /\ status[Task] = "none" => SettledStatus = "none"
           /\ status[Task] \in Terminal => SettledStatus = status[Task]
<1>1. /\ settlement.status \in TaskStatus \cup {"NONE"} /\ settlement.status \notin Active
      /\ status[Task] \in TaskStatus \cup {"none"}
  BY RunTask DEF Settlements, IInv, TypeOK, TaskTypeOK
<1>2. CASE status[Task] \notin Active \/ status[Task] \in Terminal
  BY <1>1, <1>2 DEF SettledStatus, Outdated, TaskStatus, Terminal, Active
<1>3. CASE status[Task] \in Active /\ Outdated
  BY <1>3 DEF SettledStatus, Outdated, TaskStatus, Terminal, Active
<1>4. CASE status[Task] \in Active /\ ~Outdated
  <2>1. SettledStatus \in Successors(status[Task])
    BY <1>4 DEF LegalMove, Applies
  <2>2. Successors(status[Task]) \subseteq TaskStatus
    BY <1>4 DEF Successors, TaskStatus, Active, Terminal
  <2>3. SettledStatus \notin Active
    BY <1>1, <1>4 DEF SettledStatus, Active, Terminal
  <2> QED  BY <1>4, <2>1, <2>2, <2>3 DEF Active, Terminal
<1> QED  BY <1>2, <1>3, <1>4

LEMMA CompletePreserves == ASSUME IInv, Complete PROVE IInv'
<1> DEFINE replied == [tstat EXCEPT ![cur] =
                          IF Accepted /\ settlement.publish THEN "REPLY_PENDING" ELSE "SUCCEEDED"]
           continues == Accepted /\ settlement.status = "QUEUED"
<1>1. /\ pc = "settle" /\ pc \in RunStates /\ LegalMove
      /\ status' = [status EXCEPT ![Task] = SettledStatus]
      /\ IF continues THEN Enqueue(Task, "task_continue", replied)
         ELSE tstat' = replied /\ UNCHANGED rowVars
      /\ Release
      /\ UNCHANGED <<sessVars, receipt, tasks, conv, rev, used, limit, review, permVars,
                     pollVars, restarts>>
  BY DEF Complete, Works, RunStates
<1>2. Task \in TaskId
  BY <1>1, RunTask
<1>3. replied \in TurnStatuses /\ RowsKept(replied)
  BY <1>1, CurrentRow, ClaimedBase DEF TurnStatus
<1>4. TaskTypeOK' /\ TasksKept
  <2>1. status[Task] \in TaskStatus \cup {"none"}
    BY <1>2 DEF IInv, TypeOK, TaskTypeOK
  <2>2. status' \in [TaskId -> TaskStatus \cup {"none"}]
    BY <1>1, <1>2, <2>1, SettledIsQuiet DEF IInv, TypeOK, TaskTypeOK
  <2>3. \A k \in TaskId : /\ status'[k] = IF k = Task THEN SettledStatus ELSE status[k]
    BY <1>1, <1>2 DEF IInv, TypeOK, TaskTypeOK
  <2>4. TasksKept
    BY <1>1, <2>3, SettledIsQuiet DEF TasksKept, IsOpen
  <2> QED  BY <1>1, <2>2, <2>4 DEF IInv, TypeOK, TaskTypeOK
<1>5. \A k \in TaskId : status'[k] \notin Active
  BY <1>1, <1>2, SettledIsQuiet DEF IInv, TypeOK, TaskTypeOK, ActiveHasDriver, InFlight, Task
<1>6. RowTypeOK' /\ tstat' \in TurnStatuses /\ RowsExtended
  <2> HIDE DEF replied
  <2>1. CASE continues
    <3>1. status[Task] \in Active
      BY <2>1 DEF Accepted, Applies
    <3>2. IsOpen(Task)
      BY <3>1 DEF IsOpen, Active, Terminal
    <3> QED  BY <1>1, <1>2, <1>3, <2>1, <3>2, EnqueueRow DEF IInv, TypeOK, InternalKinds
  <2>2. CASE ~continues
    BY <1>1, <1>3, <2>2 DEF IInv, TypeOK, RowTypeOK, RowsKept, RowsExtended, rowVars
  <2> QED  BY <2>1, <2>2
<1> QED  BY <1>1, <1>4, <1>5, <1>6, ReleaseStep

LEMMA TurnFailsPreserves == ASSUME IInv, TurnFails PROVE IInv'
<1>1. /\ pc \in {"claimed", "manage", "settle"}
      /\ tstat' = [tstat EXCEPT ![cur] = "FAILED"]
      /\ status' = IF Task = NoTask \/ ~IsOpen(Task) THEN status
                   ELSE [status EXCEPT ![Task] = FailedStatus(cur)]
      /\ Release
      /\ UNCHANGED <<sessVars, rowVars, receipt, tasks, conv, rev, used, limit, review,
                     permVars, pollVars, restarts>>
  BY DEF TurnFails
<1>2. tstat' \in TurnStatuses /\ RowsKept(tstat')
  BY <1>1, CurrentRow, ClaimedBase DEF TurnStatus
<1>3. RowTypeOK' /\ RowsExtended
  BY <1>1, <1>2 DEF IInv, TypeOK, RowTypeOK, RowsKept, RowsExtended, rowVars
<1>4. \A k \in TaskId : status[k] \in Active => k = Task /\ Task # NoTask /\ IsOpen(Task)
  BY <1>1 DEF IInv, ActiveHasDriver, InFlight, Task, NoTask, TaskId, IsOpen, Active, Terminal
<1>5. TaskTypeOK' /\ TasksKept /\ \A k \in TaskId : status'[k] \notin Active
  <2>1. CASE Task = NoTask \/ ~IsOpen(Task)
    BY <1>1, <1>4, <2>1 DEF IInv, TypeOK, TaskTypeOK, TasksKept, IsOpen
  <2>2. CASE Task # NoTask /\ IsOpen(Task)
    <3>1. Task \in TaskId
      BY <1>1, <2>2, TaskOfTurn
    <3>2. FailedStatus(cur) \in {"CANCELLED", "QUEUED", "PAUSED"}
      BY DEF FailedStatus
    <3>3. status' = [status EXCEPT ![Task] = FailedStatus(cur)]
      BY <1>1, <2>2
    <3> QED  BY <1>1, <1>4, <2>2, <3>1, <3>2, <3>3
             DEF IInv, TypeOK, TaskTypeOK, TasksKept, IsOpen, TaskStatus, Active, Terminal
  <2> QED  BY <2>1, <2>2
<1> QED  BY <1>1, <1>2, <1>3, <1>5, ReleaseStep

-----------------------------------------------------------------------------
(* Every action preserves the invariant: time and the process.              *)

LEMMA RequestExpiresPreserves == ASSUME IInv, RequestExpires PROVE IInv'
<1>1. /\ RowTypeOK' /\ TaskTypeOK' /\ tstat' \in TurnStatuses /\ RowsExtended /\ TasksKept
  BY IdleStore DEF RequestExpires
<1>2. PollTypeOK' /\ BatchOK'
  BY <1>1, PollKept DEF RequestExpires
<1>3. PermissionTypeOK' /\ RequestOK'
  BY <1>1, RequestKept DEF RequestExpires, IInv, TypeOK, PermissionTypeOK
<1>4. FlagTypeOK' /\ receipt' \in [TurnId -> Receipts]
  BY FlagsKept DEF RequestExpires, sessVars, workVars, IInv, TypeOK
<1> QED  BY <1>1, <1>2, <1>3, <1>4, StoreStep DEF RequestExpires, workVars

\* A conversation expires only with nothing open, queued or running in it.
LEMMA IdleTimeoutPreserves == ASSUME IInv, IdleTimeout PROVE IInv'
<1>1. /\ live /\ Open(sess) = {} /\ live' = FALSE
      /\ \A t \in TurnId : tsess[t] = sess => tstat[t] # "QUEUED"
      /\ UNCHANGED <<sess, rowVars, tstat, receipt, taskVars, review, workVars, pollVars,
                     restarts>>
      /\ reqState' \in {reqState, "revoked"} /\ (reqState = "none" => reqState' = "none")
      /\ UNCHANGED <<reqTurn, approvedBy, contTurn>>
  BY DEF IdleTimeout, MayExpire, RevokeSession
<1>2. \A k \in TaskId : ~IsOpen(k)
  BY <1>1 DEF IInv, OneOpenTask, Open
<1>3. RowTypeOK' /\ TaskTypeOK' /\ RowsExtended /\ TasksKept
  BY <1>1, IdleStore
<1>4. PermissionTypeOK' /\ RequestOK'
  BY <1>1, <1>3, RequestKept DEF IInv, TypeOK, PermissionTypeOK
<1>5. PollTypeOK' /\ BatchOK'
  BY <1>1, <1>3, PollKept
<1>6. TypeOK'
  <2>1. SessionTypeOK' /\ WorkTypeOK'
    BY <1>1 DEF IInv, TypeOK, SessionTypeOK, WorkTypeOK, workVars
  <2>2. FlagTypeOK'
    BY <1>1 DEF IInv, TypeOK, FlagTypeOK, workVars
  <2> QED  BY <1>1, <1>3, <1>4, <1>5, <2>1, <2>2 DEF IInv, TypeOK
<1>7. QueueOK'
  BY <1>1 DEF IInv, QueueOK, rowVars
<1>8. WorkerOK' /\ OneOpenTask' /\ ActiveHasDriver'
  BY <1>1, <1>2 DEF IInv, WorkerOK, OneOpenTask, ActiveHasDriver, InFlight, IsOpen, rowVars,
                    taskVars, workVars
<1> QED  BY <1>4, <1>5, <1>6, <1>7, <1>8 DEF IInv

\* Recovery leaves no task open and no turn queued, whatever the crash interrupted.
LEMMA RestartPreserves == ASSUME IInv, Restart PROVE IInv'
<1>1. /\ live' = FALSE /\ restarts' = restarts + 1 /\ phase' = "idle"
      /\ status' = (IF live THEN Close(sess) ELSE status)
      /\ tstat' = [t \in TurnId |-> IF tstat[t] \in {"QUEUED", "RUNNING"} THEN "CANCELLED"
                                    ELSE tstat[t]]
      /\ Release
      /\ UNCHANGED <<sess, rowVars, receipt, tasks, conv, rev, used, limit, review, bNext,
                     bLast, msgs>>
      /\ reqState' \in {reqState, "revoked"} /\ (reqState = "none" => reqState' = "none")
      /\ UNCHANGED <<reqTurn, approvedBy, contTurn>>
  BY DEF Restart, RevokeSession, permVars
<1>2. TaskTypeOK' /\ \A k \in TaskId : ~IsOpen(k)' /\ status'[k] \notin Active
  <2>1. CASE live
    BY <1>1, <2>1, CloseEndsAll
  <2>2. CASE ~live
    BY <1>1, <2>2 DEF IInv, TypeOK, TaskTypeOK, OneOpenTask, IsOpen, Terminal, Active
  <2> QED  BY <2>1, <2>2
<1>3. tstat' \in TurnStatuses /\ RowTypeOK' /\ SessionTypeOK' /\ PermissionTypeOK'
  BY <1>1 DEF IInv, TypeOK, TurnStatuses, TurnStatus, RowTypeOK, SessionTypeOK,
              PermissionTypeOK, rowVars
<1>4. PollTypeOK' /\ WorkTypeOK'
  BY <1>1, BoundsAssumption DEF IInv, TypeOK, PollTypeOK, WorkTypeOK, Release, NoSettlement,
                                NoTurn, Settlements
<1>5. FlagTypeOK'
  BY <1>1 DEF FlagTypeOK, Release
<1>6. TypeOK'
  <2>1. restarts' \in Nat
    BY <1>1 DEF IInv, TypeOK
  <2> QED  BY <1>1, <1>2, <1>3, <1>4, <1>5, <2>1 DEF IInv, TypeOK, TurnStatuses
<1>7. QueueOK'
  BY <1>1 DEF IInv, TypeOK, QueueOK, rowVars
<1>8. WorkerOK' /\ BatchOK' /\ RequestOK'
  BY <1>1 DEF IInv, WorkerOK, BatchOK, RequestOK, Release, NoSettlement, Active, rowVars
<1>9. OneOpenTask' /\ ActiveHasDriver'
  BY <1>2 DEF OneOpenTask, ActiveHasDriver
<1> QED  BY <1>6, <1>7, <1>8, <1>9 DEF IInv

LEMMA StutterPreserves == ASSUME IInv, UNCHANGED vars PROVE IInv'
<1>1. RowTypeOK' /\ TaskTypeOK' /\ tstat' \in TurnStatuses /\ RowsExtended /\ TasksKept
  BY IdleStore DEF vars
<1>2. PollTypeOK' /\ BatchOK'
  BY <1>1, PollKept DEF vars
<1>3. PermissionTypeOK' /\ RequestOK'
  BY PermissionsStay DEF vars, rowVars
<1>4. FlagTypeOK' /\ receipt' \in [TurnId -> Receipts]
  BY FlagsKept DEF vars, sessVars, workVars, IInv, TypeOK
<1> QED  BY <1>1, <1>2, <1>3, <1>4, StoreStep DEF vars, workVars

LEMMA WorkPreserves == ASSUME IInv, Work PROVE IInv'
BY ClaimInputPreserves, ClaimLapsedPreserves, ClaimControlPreserves, ClaimConfirmPreserves,
   ClaimNewPreserves, ClaimManagePreserves, FinishManagePreserves, BeginRefusedPreserves,
   BeginExhaustedPreserves, BeginUploadPreserves, BeginRunPreserves, ModelCallPreserves,
   RequestPermissionPreserves, RunEndsPreserves, OutcomePreserves,
   ApplyForCompletionPreserves, ReviewReturnsPreserves, ReviewFailsPreserves,
   CompletePreserves, TurnFailsPreserves
   DEF Work

-----------------------------------------------------------------------------
(* The theorems.                                                            *)

\* The invariant holds of every behaviour: the induction the other theorems rest on.
THEOREM Invariance == Spec => []IInv
<1>1. ASSUME IInv, [Next]_vars PROVE IInv'
  <2>1. ASSUME NEW m \in Kinds, Receive(m) PROVE IInv'
    BY <1>1, <2>1, ReceivePreserves
  <2>2. CASE Ingest
    BY <1>1, <2>2, CommitPreserves, AdmitPreserves DEF Ingest
  <2>3. CASE Work
    BY <1>1, <2>3, WorkPreserves
  <2>4. CASE IdleTimeout \/ RequestExpires \/ Restart
    BY <1>1, <2>4, IdleTimeoutPreserves, RequestExpiresPreserves, RestartPreserves
  <2>5. CASE UNCHANGED vars
    BY <1>1, <2>5, StutterPreserves
  <2> QED  BY <1>1, <2>1, <2>2, <2>3, <2>4, <2>5 DEF Next
<1> QED  BY Initially, <1>1, PTL DEF Spec

\* Columns, registers and bounds keep their types, however many messages and tasks.
THEOREM TypeCorrect == Spec => []TypeOK
<1>1. IInv => TypeOK
  BY DEF IInv
<1> QED  BY Invariance, <1>1, PTL

\* Whatever order messages, runs, failures and restarts come in, a conversation has at
\* most one open task, and only the live one has any.
THEOREM OneTask == Spec => []OneOpenTask
<1>1. IInv => OneOpenTask
  BY DEF IInv
<1> QED  BY Invariance, <1>1, PTL

\* No failure, control or restart leaves a task running or stopping with nobody at work
\* on it, which no later message could get it out of.
THEOREM Driven == Spec => []ActiveHasDriver
<1>1. IInv => ActiveHasDriver
  BY DEF IInv
<1> QED  BY Invariance, <1>1, PTL
=============================================================================
