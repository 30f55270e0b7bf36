------------------------- MODULE TaskPromisesProofs -------------------------
(***************************************************************************)
(* What TaskExecution promises the user, for every value of its constants: *)
(* budgets, answers to the newest input, stops that stay stops, the task   *)
(* life cycle of the domain model, conversations that a "/new" keeps       *)
(* apart, and tasks that are moved along.  Rests on the invariant of       *)
(* TaskExecutionProofs.                                                    *)
(***************************************************************************)
EXTENDS TaskExecutionProofs, FiniteSetTheorems

-----------------------------------------------------------------------------
(* The inductive invariant, on top of IInv.                                 *)

\* While the agent is at work its turn is RUNNING, and the task is at the stage of the
\* worker or has been asked to stop.
RunOK ==
    /\ pc # "idle" => tstat[cur] = "RUNNING"
    /\ pc \in {"run", "outcome"} => status[Task] \in {"RUNNING", "PAUSING", "CANCELLING"}
    /\ pc = "review" => status[Task] \in {"REVIEWING", "PAUSING", "CANCELLING"}
    /\ pc = "settle" => status[Task] \in Active

\* What a decision says, once taken, of the task it is about.
DecisionOK ==
    pc = "settle" =>
        /\ settlement.status \in {"WAITING", "QUEUED", "PAUSED", "COMPLETED", "CANCELLED"}
        /\ settlement.status \in {"COMPLETED", "WAITING"} =>
               settlement.publish /\ settlement.rev = trev[cur]
        /\ settlement.status = "COMPLETED" =>
               ~aborted /\ review[cur] = "approved" /\ status[Task] # "RUNNING"
        /\ settlement.status = "CANCELLED" => status[Task] = "CANCELLING"

\* Unused rows are blank, and receipts belong to rows.
BlankOK ==
    /\ \A k \in TaskId : k > tasks => status[k] = "none" /\ used[k] = 0
    /\ \A t \in TurnId : receipt[t] # NoReceipt => t <= turns

Budgets(k) == {t \in TurnId : kind[t] = "budget" /\ receipt[t] = k}

\* Calls within the limit, and the limit within what the user granted.
LimitOK ==
    \A k \in TaskId :
        /\ used[k] <= limit[k]
        /\ limit[k] <= InitialLimit + BudgetAmount * Cardinality(Budgets(k))

PInv == IInv /\ RunOK /\ DecisionOK /\ AnsweredNewestInput /\ BlankOK /\ LimitOK

-----------------------------------------------------------------------------
(* What steps do, in the terms of the properties.                           *)

\* Rows that are no longer queued keep their task and revision, and no row its kind.
RowsStand ==
    /\ turns' \in Nat /\ turns <= turns'
    /\ \A t \in TurnId :
          /\ tstat[t] \notin {"none", "QUEUED"} => ttask'[t] = ttask[t] /\ trev'[t] = trev[t]
          /\ t <= turns => kind'[t] = kind[t]

\* Rows that are no longer queued keep their status.
StatusStands ==
    \A t \in TurnId : tstat[t] \notin {"none", "QUEUED"} => tstat'[t] = tstat[t]

\* Tasks neither finish nor begin to wait, and one at work is at most asked to stop.
TasksCalm ==
    \A k \in TaskId :
        /\ status'[k] \in {"WAITING", "COMPLETED"} => status'[k] = status[k] /\ rev'[k] = rev[k]
        /\ status[k] \in Active =>
               /\ status'[k] \in {status[k], "PAUSING", "CANCELLING"}
               /\ status[k] = "CANCELLING" => status'[k] = "CANCELLING"

\* A step of somebody else than the worker, or of the worker between two turns.
Outside ==
    /\ RowsStand /\ StatusStands /\ TasksCalm
    /\ UNCHANGED <<pc, cur, settlement, review>>
    /\ ~Driving => aborted' = aborted

\* Calls and receipts are left alone, and so are limits, but for the first one of a new task.
LedgerStands ==
    /\ turns' \in Nat /\ turns <= turns' /\ receipt' = receipt
    /\ \A t \in TurnId : t <= turns => kind'[t] = kind[t]
    /\ \A k \in TaskId :
          /\ used'[k] = used[k]
          /\ limit'[k] = limit[k] \/ (used[k] = 0 /\ limit'[k] = InitialLimit)
          /\ k > tasks' => k > tasks /\ (status[k] = "none" => status'[k] = "none")

\* The step wakes no paused task the user did not wake.
WakesRightly ==
    \A k \in TaskId : status[k] = "PAUSED" /\ status'[k] \notin {"PAUSED", "CANCELLED"}
                          => Woken(k)

LifeStep == [Lifecycle!Next]_(Lifecycle!vars)

-----------------------------------------------------------------------------
(* The invariant under such steps.                                          *)

LEMMA BudgetsFinite == \A k : IsFiniteSet(Budgets(k)) /\ IsFiniteSet(TurnId)
<1>1. IsFiniteSet(TurnId)
  BY FS_Interval, BoundsAssumption DEF TurnId
<1>2. \A k : Budgets(k) \subseteq TurnId
  BY DEF Budgets
<1> QED  BY <1>1, <1>2, FS_Subset

\* The task's answer: a reply of a turn that saw the newest input, and passed its review.
AnswerOf(k) ==
    \E t \in TurnId : /\ ttask[t] = k /\ trev[t] = rev[k]
                      /\ tstat[t] = "REPLY_PENDING"
                      /\ status[k] = "COMPLETED" => review[t] = "approved"

\* Replies once sent still answer their task.
LEMMA AnswersStand ==
    ASSUME AnsweredNewestInput, RowsStand,
           \A t \in TurnId : tstat[t] = "REPLY_PENDING" => tstat'[t] = tstat[t]
                                                           /\ review'[t] = review[t],
           \A k \in TaskId : status'[k] \in {"WAITING", "COMPLETED"} =>
               (status'[k] = status[k] /\ rev'[k] = rev[k]) \/ AnswerOf(k)'
    PROVE  AnsweredNewestInput'
<1> SUFFICES ASSUME NEW k \in TaskId, status'[k] \in {"WAITING", "COMPLETED"}
             PROVE  AnswerOf(k)'
  BY DEF AnsweredNewestInput, AnswerOf
<1>1. CASE status'[k] = status[k] /\ rev'[k] = rev[k]
  <2>1. PICK t \in TurnId : /\ ttask[t] = k /\ trev[t] = rev[k] /\ tstat[t] = "REPLY_PENDING"
                            /\ status[k] = "COMPLETED" => review[t] = "approved"
    BY <1>1 DEF AnsweredNewestInput
  <2>2. ttask'[t] = k /\ trev'[t] = rev'[k] /\ tstat'[t] = "REPLY_PENDING"
        /\ review'[t] = review[t]
    BY <1>1, <2>1 DEF RowsStand
  <2> QED  BY <1>1, <2>1, <2>2 DEF AnswerOf
<1> QED  BY <1>1

LEMMA OutsideKeeps ==
    ASSUME IInv, RunOK, DecisionOK, AnsweredNewestInput, Outside
    PROVE  RunOK' /\ DecisionOK' /\ AnsweredNewestInput'
<1>1. AnsweredNewestInput'
  BY AnswersStand DEF Outside, StatusStands, TasksCalm
<1>2. CASE pc = "idle"
  BY <1>1, <1>2 DEF Outside, RunOK, DecisionOK
<1>3. CASE pc # "idle"
  <2>1. cur \in TurnId /\ tstat[cur] = "RUNNING"
    BY <1>3, CurrentRow DEF RunOK
  <2>2. /\ tstat'[cur'] = "RUNNING" /\ Task' = Task /\ trev'[cur'] = trev[cur] /\ cur' = cur
        /\ pc' = pc /\ settlement' = settlement /\ review' = review
    BY <2>1 DEF Outside, RowsStand, StatusStands, Task
  <2>3. pc \in RunStates =>
            /\ Task \in TaskId
            /\ status[Task] \in Active =>
                  /\ status'[Task] \in {status[Task], "PAUSING", "CANCELLING"}
                  /\ status[Task] = "CANCELLING" => status'[Task] = "CANCELLING"
    BY RunTask DEF Outside, TasksCalm
  <2>4. RunOK'
    BY <1>3, <2>2, <2>3 DEF RunOK, RunStates, Active
  <2>5. pc = "settle" => aborted' = aborted
    BY DEF Outside, Driving
  <2>6. DecisionOK'
    BY <2>2, <2>3, <2>5 DEF DecisionOK, RunOK, RunStates, Active
  <2> QED  BY <1>1, <2>4, <2>6
<1> QED  BY <1>2, <1>3

LEMMA LedgerKeeps ==
    ASSUME IInv, BlankOK, LimitOK, LedgerStands PROVE BlankOK' /\ LimitOK'
<1>1. turns \in Nat /\ \A t \in TurnId : t \in Nat
  BY BoundsAssumption DEF TurnId, IInv, TypeOK, RowTypeOK
<1>2. BlankOK'
  BY <1>1 DEF BlankOK, LedgerStands
<1>3. ASSUME NEW k \in TaskId PROVE Budgets(k)' = Budgets(k)
  <2>1. k # NoReceipt
    BY DEF TaskId, NoReceipt
  <2>2. \A t \in TurnId : (kind'[t] = "budget" /\ receipt'[t] = k)
                              <=> (kind[t] = "budget" /\ receipt[t] = k)
    BY <2>1 DEF LedgerStands, BlankOK
  <2> QED  BY <2>2 DEF Budgets
<1>4. ASSUME NEW k \in TaskId
      PROVE  used'[k] <= limit'[k]
             /\ limit'[k] <= InitialLimit + BudgetAmount * Cardinality(Budgets(k)')
  <2>1. /\ Cardinality(Budgets(k)) \in Nat /\ InitialLimit \in Nat /\ BudgetAmount \in Nat
    BY BudgetsFinite, FS_CardinalityType, ParametersAssumption
  <2>2. InitialLimit <= InitialLimit + BudgetAmount * Cardinality(Budgets(k))
    <3>1. BudgetAmount * Cardinality(Budgets(k)) >= 0
      BY <2>1
    <3> QED  BY <2>1, <3>1
  <2> QED  BY <1>3, <2>1, <2>2 DEF LimitOK, LedgerStands
<1> QED  BY <1>2, <1>4 DEF LimitOK

-----------------------------------------------------------------------------
(* The store's operators in these terms.                                    *)

\* A row may be added and queued ones cancelled, the others are as in base.
RowsAfter(base) ==
    /\ turns' \in Nat /\ turns <= turns'
    /\ \A t \in TurnId : t <= turns =>
          /\ kind'[t] = kind[t] /\ ttask'[t] = ttask[t] /\ trev'[t] = trev[t]
          /\ base[t] # "QUEUED" => tstat'[t] = base[t]

LEMMA InsertAfter ==
    ASSUME IInv, NEW src, NEW s, NEW k, NEW r, NEW when, NEW base \in TurnStatuses,
           InsertTurn(src, s, k, r, when, base)
    PROVE  RowsAfter(base)
<1>1. turns \in Nat /\ \A t \in TurnId : t \in Nat
  BY BoundsAssumption DEF TurnId, IInv, TypeOK, RowTypeOK
<1>2. turns' = turns + 1
  BY DEF InsertTurn
<1>3. ASSUME NEW t \in TurnId, t <= turns
      PROVE  kind'[t] = kind[t] /\ ttask'[t] = ttask[t] /\ trev'[t] = trev[t]
             /\ tstat'[t] = base[t]
  <2>1. t # turns + 1
    BY <1>1, <1>3
  <2> QED  BY <2>1 DEF InsertTurn, IInv, TypeOK, RowTypeOK, TurnStatuses
<1> QED  BY <1>1, <1>2, <1>3 DEF RowsAfter

LEMMA RowsUnchanged ==
    ASSUME IInv, NEW base, tstat' = base, UNCHANGED rowVars PROVE RowsAfter(base)
BY DEF RowsAfter, rowVars, IInv, TypeOK, RowTypeOK

LEMMA RowsFollow ==
    ASSUME IInv, NEW base, RowsAfter(base),
           \A t \in TurnId : tstat[t] \notin {"none", "QUEUED"} => base[t] = tstat[t]
    PROVE  RowsStand /\ StatusStands
<1>1. \A t \in TurnId : tstat[t] \notin {"none", "QUEUED"} => t <= turns
  BY BoundsAssumption DEF IInv, QueueOK, TypeOK, RowTypeOK, TurnId
<1> QED  BY <1>1 DEF RowsAfter, RowsStand, StatusStands

LEMMA TypesOfTasks ==
    ASSUME IInv
    PROVE  /\ tasks \in Nat /\ \A k \in TaskId : k \in Nat /\ k # NoTask
           /\ InitialLimit \in Nat \ {0} /\ BudgetAmount \in Nat \ {0}
           /\ status \in [TaskId -> TaskStatus \cup {"none"}]
           /\ rev \in [TaskId -> Nat] /\ used \in [TaskId -> Nat] /\ limit \in [TaskId -> Nat]
BY BoundsAssumption, ParametersAssumption DEF IInv, TypeOK, TaskTypeOK, TaskId, NoTask

\* attach opens a task when none is open, or at most wakes a waiting one.
LEMMA AttachEffect ==
    ASSUME IInv, BlankOK, NEW s, live => s = sess, Attach(s)
    PROVE  /\ TasksCalm /\ LifeStep
           /\ \A k \in TaskId : status[k] = "PAUSED" => status'[k] = "PAUSED"
           /\ \A k \in TaskId :
                 /\ used'[k] = used[k]
                 /\ limit'[k] = limit[k] \/ (used[k] = 0 /\ limit'[k] = InitialLimit)
                 /\ k > tasks' => k > tasks /\ (status[k] = "none" => status'[k] = "none")
<1>0. CASE UNCHANGED taskVars
  BY <1>0 DEF taskVars, TasksCalm, LifeStep, Lifecycle!vars
<1>1. CASE Open(s) = {} /\ ~UNCHANGED taskVars
  <2>1. /\ tasks + 1 \in TaskId /\ tasks' = tasks + 1
        /\ rev' = [rev EXCEPT ![tasks + 1] = @ + 1]
        /\ status' = [status EXCEPT ![tasks + 1] = "QUEUED"]
        /\ limit' = [limit EXCEPT ![tasks + 1] = InitialLimit]
        /\ used' = used
    BY <1>1 DEF Attach, Binding
  <2>2. \A k \in TaskId : ~IsOpen(k)
    BY <1>1 DEF IInv, OneOpenTask, Open
  <2>3. status[tasks + 1] = "none" /\ used[tasks + 1] = 0
    BY <2>1, TypesOfTasks DEF BlankOK
  <2>4. ASSUME NEW k \in TaskId
        PROVE  /\ k # tasks + 1 => status'[k] = status[k] /\ rev'[k] = rev[k]
                                    /\ limit'[k] = limit[k]
               /\ k = tasks + 1 => status'[k] = "QUEUED" /\ limit'[k] = InitialLimit
    BY <2>1, TypesOfTasks
  <2>5. TasksCalm
    BY <2>3, <2>4 DEF TasksCalm, Active
  <2>6. Lifecycle!Create(tasks + 1)
    <3>1. \A k \in Lifecycle!TaskId : Lifecycle!Closed(k)
      BY <2>2 DEF IsOpen, Lifecycle!TaskId, Lifecycle!Closed, Lifecycle!Terminal, Terminal, TaskId
    <3>2. limit'[tasks + 1] = InitialLimit /\ InitialLimit > 0
      BY <2>1, <2>4, ParametersAssumption
    <3> QED  BY <2>1, <3>1, <3>2 DEF Lifecycle!Create
  <2>7. LifeStep
    BY <2>1, <2>6 DEF LifeStep, Lifecycle!Next, Lifecycle!TaskId, TaskId
  <2> QED  BY <2>1, <2>3, <2>4, <2>5, <2>7, TypesOfTasks
<1>2. CASE Open(s) # {} /\ ~UNCHANGED taskVars
  <2>1. PICK k \in Open(s) : /\ rev' = [rev EXCEPT ![k] = @ + 1]
                             /\ status' = [status EXCEPT ![k] = InputStatus(@)]
                             /\ UNCHANGED <<tasks, conv, used, limit>>
    <3>1. PICK k \in Open(s) : Binding(s) = IF status[k] = "CANCELLING"
                                             THEN [task |-> NoTask, rev |-> 0]
                                             ELSE [task |-> k, rev |-> rev[k] + 1]
      BY <1>2 DEF Binding
    <3> QED  BY <1>2, <3>1, TypesOfTasks DEF Attach, Open
  <2>2. k \in TaskId /\ IsOpen(k)
    BY DEF Open
  <2>3. ASSUME NEW j \in TaskId
        PROVE  /\ j # k => status'[j] = status[j] /\ rev'[j] = rev[j]
               /\ j = k => status'[j] = InputStatus(status[j])
    BY <2>1, TypesOfTasks
  <2>4. TasksCalm
    BY <2>2, <2>3 DEF TasksCalm, InputStatus, IsOpen, Active, Terminal
  <2>5. CASE status[k] = "WAITING"
    <3>1. status' = [status EXCEPT ![k] = "QUEUED"]
      BY <2>1, <2>2, <2>5, TypesOfTasks DEF InputStatus
    <3>2. Lifecycle!Move(k)
      BY <2>1, <2>5, <3>1
      DEF Lifecycle!Move, Lifecycle!Moves, Lifecycle!Successors, Lifecycle!Extended
    <3> QED  BY <2>1, <2>2, <2>3, <2>4, <2>5, <3>2
             DEF LifeStep, Lifecycle!Next, Lifecycle!TaskId, TaskId, InputStatus
  <2>6. CASE status[k] # "WAITING"
    <3>1. status' = status
      BY <2>1, <2>2, <2>6, TypesOfTasks DEF InputStatus
    <3> QED  BY <2>1, <2>4, <3>1 DEF LifeStep, Lifecycle!vars
  <2> QED  BY <2>5, <2>6
<1> QED  BY <1>0, <1>1, <1>2

\* pause, cancel and "/new" stop the open task or ask it to stop.
LEMMA HaltLegal ==
    ASSUME NEW st \in TaskStatus \ Terminal, NEW action
    PROVE  /\ HaltStatus(st, action) = st \/ HaltStatus(st, action) \in Successors(st)
           /\ HaltStatus(st, action) \in {"PAUSING", "PAUSED", "CANCELLING", "CANCELLED"}
           /\ st \in Active => HaltStatus(st, action) \in {"PAUSING", "CANCELLING"}
           /\ st = "CANCELLING" => HaltStatus(st, action) = "CANCELLING"
           /\ st = "PAUSED" => HaltStatus(st, action) \in {"PAUSED", "CANCELLED"}
BY DEF HaltStatus, Successors, TaskStatus, Active, Terminal

\* A change of one task's status that the domain model knows.
LEMMA LegalStep ==
    ASSUME IInv, NEW k \in TaskId, NEW st, st = status[k] \/ st \in Successors(status[k]),
           status' = [status EXCEPT ![k] = st],
           UNCHANGED <<tasks, used>>,
           \A j \in TaskId : limit'[j] = limit[j] \/ (IsOpen(j) /\ limit'[j] > limit[j])
    PROVE  LifeStep
<1>1. Lifecycle!Extended
  BY DEF Lifecycle!Extended, Lifecycle!Closed, Lifecycle!TaskId, Lifecycle!Terminal, IsOpen,
         TaskId, Terminal
<1>2. CASE st = status[k]
  <2>1. status' = status
    BY <1>2, TypesOfTasks
  <2> QED  BY <1>1, <2>1 DEF LifeStep, Lifecycle!Next, Lifecycle!Extend
<1>3. CASE st \in Successors(status[k])
  <2>1. st \in Lifecycle!Moves(status[k])
    BY <1>3 DEF Lifecycle!Moves, Lifecycle!Successors, Successors
  <2>2. Lifecycle!Move(k)
    BY <1>1, <2>1 DEF Lifecycle!Move
  <2> QED  BY <2>2 DEF LifeStep, Lifecycle!Next, Lifecycle!TaskId, TaskId
<1> QED  BY <1>2, <1>3

\* A control that takes effect is noted, halts or resumes the open task, and counts once.
LEMMA ControlEffect ==
    ASSUME IInv, BlankOK, LimitOK, NEW t \in TurnId, t <= turns, NEW base \in TurnStatuses,
           Control(t, base)
    PROVE  /\ RowsAfter(base) /\ TasksCalm /\ WakesRightly /\ LifeStep
           /\ BlankOK' /\ LimitOK'
<1>0. /\ turns \in Nat /\ receipt \in [TurnId -> Receipts] /\ \A u \in TurnId : u \in Nat
  BY BoundsAssumption DEF IInv, TypeOK, RowTypeOK, TurnId
<1>1. CASE receipt[t] # NoReceipt
  <2>1. tstat' = base /\ UNCHANGED <<rowVars, taskVars, receipt>>
    BY <1>1 DEF Control
  <2>2. RowsAfter(base)
    BY <2>1, RowsUnchanged
  <2>3. TasksCalm /\ WakesRightly /\ LifeStep
    BY <2>1 DEF TasksCalm, WakesRightly, LifeStep, Lifecycle!vars, taskVars
  <2>4. LedgerStands
    BY <1>0, <2>1 DEF LedgerStands, rowVars, taskVars
  <2> QED  BY <2>2, <2>3, <2>4, LedgerKeeps
<1>2. CASE receipt[t] = NoReceipt /\ Open(tsess[t]) = {}
  <2>1. /\ tstat' = base /\ UNCHANGED <<rowVars, taskVars>>
        /\ receipt' = [receipt EXCEPT ![t] = Void]
    BY <1>2 DEF Control
  <2>2. RowsAfter(base)
    BY <2>1, RowsUnchanged
  <2>3. TasksCalm /\ WakesRightly /\ LifeStep
    BY <2>1 DEF TasksCalm, WakesRightly, LifeStep, Lifecycle!vars, taskVars
  <2>4. BlankOK'
    BY <1>0, <2>1 DEF BlankOK, rowVars, taskVars
  <2>5. ASSUME NEW k \in TaskId PROVE Budgets(k)' = Budgets(k)
    <3>1. k # Void /\ k # NoReceipt
      BY BoundsAssumption DEF TaskId, Void, NoReceipt
    <3>2. \A u \in TurnId : receipt'[u] = k <=> receipt[u] = k
      BY <1>0, <1>2, <2>1, <3>1
    <3> QED  BY <2>1, <3>2 DEF Budgets, rowVars
  <2>6. LimitOK'
    BY <2>1, <2>5 DEF LimitOK, taskVars
  <2> QED  BY <2>2, <2>3, <2>4, <2>6
<1>3. CASE receipt[t] = NoReceipt /\ Open(tsess[t]) # {}
  <2>1. PICK k \in Open(tsess[t]) :
            /\ receipt' = [receipt EXCEPT ![t] = k]
            /\ IF kind[t] \in {"resume", "budget"} THEN Resume(t, k, base) ELSE Halt(t, k, base)
    BY <1>3 DEF Control
  <2>2. k \in TaskId /\ IsOpen(k) /\ status[k] \in TaskStatus \ Terminal /\ k <= tasks
    BY TypesOfTasks DEF Open, IsOpen, BlankOK
  <2>3. /\ receipt'[t] = k /\ \A u \in TurnId \ {t} : receipt'[u] = receipt[u]
    BY <1>0, <2>1
  <2>4. UNCHANGED <<tasks, conv, rev, used>>
    BY <2>1 DEF Halt, Resume
  <2>5. CASE kind[t] \notin {"resume", "budget"}
    <3>1. /\ status' = [status EXCEPT ![k] = HaltStatus(@, kind[t])]
          /\ tstat' = DropQueued(k, base)
          /\ UNCHANGED <<rowVars, tasks, conv, rev, used, limit>>
      BY <2>1, <2>5 DEF Halt
    <3>2. RowsAfter(base)
      BY <1>0, <3>1 DEF RowsAfter, DropQueued, rowVars
    <3>3. /\ status'[k] = HaltStatus(status[k], kind[t])
          /\ \A j \in TaskId \ {k} : status'[j] = status[j]
      BY <2>2, <3>1, TypesOfTasks
    <3>4. TasksCalm
      BY <2>2, <3>1, <3>3, HaltLegal DEF TasksCalm, Active
    <3>5. WakesRightly
      BY <2>2, <3>3, HaltLegal DEF WakesRightly
    <3>6. LifeStep
      BY <2>2, <3>1, HaltLegal, LegalStep
    <3>7. BlankOK'
      BY <1>0, <2>2, <2>3, <3>1, <3>3, TypesOfTasks DEF BlankOK, rowVars
    <3>8. ASSUME NEW j \in TaskId PROVE Budgets(j)' = Budgets(j)
      <4>1. j # NoReceipt
        BY DEF TaskId, NoReceipt
      <4>2. \A u \in TurnId : kind[u] = "budget" => receipt'[u] = receipt[u]
        BY <2>3, <2>5
      <4> QED  BY <3>1, <4>2 DEF Budgets, rowVars
    <3>9. LimitOK'
      BY <3>1, <3>8 DEF LimitOK
    <3> QED  BY <3>2, <3>4, <3>5, <3>6, <3>7, <3>9
  <2>6. CASE kind[t] \in {"resume", "budget"}
    <3> DEFINE extra == IF kind[t] = "budget" THEN BudgetAmount ELSE 0
    <3>1. /\ limit' = [limit EXCEPT ![k] = @ + extra]
          /\ IF status[k] = "PAUSED"
             THEN /\ status' = [status EXCEPT ![k] = "QUEUED"]
                  /\ Enqueue(k, "task_continue", base)
             ELSE /\ tstat' = base
                  /\ UNCHANGED <<rowVars, status>>
      BY <2>1, <2>6 DEF Resume
    <3>2. RowsAfter(base)
      BY <3>1, InsertAfter, RowsUnchanged DEF Enqueue
    <3>3. /\ status'[k] = IF status[k] = "PAUSED" THEN "QUEUED" ELSE status[k]
          /\ \A j \in TaskId \ {k} : status'[j] = status[j]
      BY <2>2, <3>1, TypesOfTasks
    <3>4. /\ limit'[k] = limit[k] + extra /\ extra \in Nat
          /\ \A j \in TaskId \ {k} : limit'[j] = limit[j]
      <4>1. extra \in Nat
        BY TypesOfTasks
      <4> QED  BY <2>2, <3>1, <4>1, TypesOfTasks
    <3>5. TasksCalm
      BY <2>4, <3>3 DEF TasksCalm, Active
    <3>6. WakesRightly
      BY <1>3, <2>3, <2>6, <3>3 DEF WakesRightly, Woken
    <3>7. LifeStep
      <4>1. status' = [status EXCEPT ![k] = IF status[k] = "PAUSED" THEN "QUEUED" ELSE status[k]]
        BY <3>1, TypesOfTasks
      <4>2. \A j \in TaskId : limit'[j] = limit[j] \/ (IsOpen(j) /\ limit'[j] > limit[j])
        BY <2>2, <3>4, TypesOfTasks
      <4>3. status[k] = "PAUSED" => "QUEUED" \in Successors(status[k])
        BY DEF Successors
      <4> QED  BY <2>2, <2>4, <4>1, <4>2, <4>3, LegalStep
    <3>8. BlankOK'
      <4>1. turns' \in Nat /\ turns <= turns'
        BY <3>2 DEF RowsAfter
      <4> QED  BY <1>0, <2>2, <2>3, <2>4, <3>3, <4>1, TypesOfTasks DEF BlankOK
    <3>9. ASSUME NEW j \in TaskId
          PROVE  Budgets(j)' = IF j = k /\ kind[t] = "budget" THEN Budgets(j) \cup {t}
                               ELSE Budgets(j)
      <4>1. \A u \in TurnId : u <= turns => kind'[u] = kind[u]
        BY <3>2 DEF RowsAfter
      <4>2. j # NoReceipt
        BY DEF TaskId, NoReceipt
      <4>3. \A u \in TurnId \ {t} : (kind'[u] = "budget" /\ receipt'[u] = j)
                                       <=> (kind[u] = "budget" /\ receipt[u] = j)
        BY <2>3, <4>1, <4>2 DEF BlankOK
      <4>4. (kind'[t] = "budget" /\ receipt'[t] = j) <=> (j = k /\ kind[t] = "budget")
        BY <2>3, <4>1
      <4>5. ~(kind[t] = "budget" /\ receipt[t] = j)
        BY <1>3, <4>2
      <4> QED  BY <4>3, <4>4, <4>5 DEF Budgets
    <3>10. LimitOK'
      <4>1. t \notin Budgets(k)
        BY <1>3, <2>2 DEF Budgets, TaskId, NoReceipt
      <4>2. ASSUME NEW j \in TaskId
            PROVE  /\ used'[j] <= limit'[j]
                   /\ limit'[j] <= InitialLimit + BudgetAmount * Cardinality(Budgets(j)')
        <5>1. Cardinality(Budgets(j)) \in Nat
          BY BudgetsFinite, FS_CardinalityType
        <5>2. CASE j = k /\ kind[t] = "budget"
          <6>1. Cardinality(Budgets(j)') = Cardinality(Budgets(j)) + 1
            BY <3>9, <4>1, <5>2, BudgetsFinite, FS_AddElement
          <6>2. BudgetAmount * (Cardinality(Budgets(j)) + 1)
                    = BudgetAmount * Cardinality(Budgets(j)) + BudgetAmount
            BY <5>1, TypesOfTasks
          <6>3. BudgetAmount * Cardinality(Budgets(j)) \in Nat
            BY <5>1, TypesOfTasks
          <6>4. /\ used[j] \in Nat /\ limit[j] \in Nat /\ used[j] <= limit[j]
                /\ limit[j] <= InitialLimit + BudgetAmount * Cardinality(Budgets(j))
                /\ limit'[j] = limit[j] + BudgetAmount /\ used'[j] = used[j]
            BY <2>4, <3>4, <5>2, TypesOfTasks DEF LimitOK
          <6> HIDE DEF Budgets
          <6> QED  BY <6>1, <6>2, <6>3, <6>4, TypesOfTasks
        <5>3. CASE ~(j = k /\ kind[t] = "budget")
          <6>1. Budgets(j)' = Budgets(j) /\ limit'[j] = limit[j]
            BY <3>4, <3>9, <5>3, TypesOfTasks
          <6> QED  BY <2>4, <6>1 DEF LimitOK
        <5> QED  BY <5>2, <5>3
      <4> QED  BY <4>2 DEF LimitOK
    <3> QED  BY <3>2, <3>5, <3>6, <3>7, <3>8, <3>10
  <2> QED  BY <2>5, <2>6
<1> QED  BY <1>1, <1>2, <1>3

-----------------------------------------------------------------------------
(* Steps outside the run.                                                   *)

Keeps == RunOK' /\ DecisionOK' /\ AnsweredNewestInput' /\ BlankOK' /\ LimitOK'

\* The bodies of StoppedNeverCompletes and PublishedIsCurrent.
StopCounts ==
    \A k \in TaskId : status[k] # "COMPLETED" /\ status'[k] = "COMPLETED" => ~aborted
PublishesCurrent ==
    \A t \in TurnId :
       /\ pc = "settle" /\ t = cur /\ tstat[t] = "RUNNING" /\ tstat'[t] = "REPLY_PENDING"
       => /\ status'[ttask[t]] = settlement.status
          /\ settlement.status \in {"COMPLETED", "WAITING"} => rev[ttask[t]] = trev[t]

Honest == Keeps /\ StopCounts /\ PublishesCurrent /\ LifeStep
Faithful == Honest /\ WakesRightly

LEMMA OutsideFaithful ==
    ASSUME PInv, Outside, LifeStep, WakesRightly, BlankOK', LimitOK'
    PROVE  Faithful
<1>1. RunOK' /\ DecisionOK' /\ AnsweredNewestInput'
  BY OutsideKeeps DEF PInv
<1>2. StopCounts
  BY DEF Outside, TasksCalm, StopCounts
<1>3. PublishesCurrent
  BY DEF Outside, StatusStands, PublishesCurrent
<1> QED  BY <1>1, <1>2, <1>3 DEF Faithful, Honest, Keeps

LEMMA IdleTasks ==
    ASSUME UNCHANGED <<tasks, status, rev, used, limit>>
    PROVE  TasksCalm /\ WakesRightly /\ LifeStep
BY DEF TasksCalm, WakesRightly, LifeStep, Lifecycle!vars

LEMMA IdleLedger ==
    ASSUME PInv, UNCHANGED <<turns, kind, receipt, tasks, status, used, limit>>
    PROVE  BlankOK' /\ LimitOK'
<1>1. LedgerStands
  BY DEF LedgerStands, PInv, IInv, TypeOK, RowTypeOK
<1> QED  BY <1>1, LedgerKeeps DEF PInv

LEMMA IdleRows ==
    ASSUME PInv, UNCHANGED <<rowVars, tstat>> PROVE RowsStand /\ StatusStands
BY DEF RowsStand, StatusStands, rowVars, PInv, IInv, TypeOK, RowTypeOK

LEMMA NothingFaithful ==
    ASSUME PInv, UNCHANGED <<rowVars, tstat, receipt, taskVars, review, pc, cur, settlement>>,
           ~Driving => aborted' = aborted
    PROVE  Faithful
<1>1. RowsStand /\ StatusStands
  BY IdleRows
<1>2. TasksCalm /\ WakesRightly /\ LifeStep
  BY IdleTasks DEF taskVars
<1>3. BlankOK' /\ LimitOK'
  BY IdleLedger DEF rowVars, taskVars
<1>4. Outside
  BY <1>1, <1>2 DEF Outside
<1> QED  BY <1>2, <1>3, <1>4, OutsideFaithful

LEMMA ReceiveFaithful == ASSUME PInv, NEW m \in Kinds, Receive(m) PROVE Faithful
<1> DEFINE s == IF live THEN sess ELSE sess + 1
           first == IF phase = "idle" THEN turns + 1 ELSE bNext
           binds == m \in InputKinds /\ ~PendingNew(s)
           bound == IF binds THEN Binding(s) ELSE [task |-> NoTask, rev |-> 0]
<1>1. /\ InsertTurn(m, s, bound.task, bound.rev, first, tstat)
      /\ IF binds THEN Attach(s) ELSE UNCHANGED taskVars
      /\ UNCHANGED <<receipt, review, permVars, workVars, restarts>>
  BY DEF Receive
<1>2. tstat \in TurnStatuses /\ IInv /\ (live => s = sess)
  BY DEF PInv, IInv, TypeOK, TurnStatuses
<1>3. RowsAfter(tstat)
  BY <1>1, <1>2, InsertAfter
<1>4. RowsStand /\ StatusStands
  BY <1>2, <1>3, RowsFollow
<1>5. /\ TasksCalm /\ LifeStep /\ WakesRightly
      /\ \A k \in TaskId :
            /\ used'[k] = used[k]
            /\ limit'[k] = limit[k] \/ (used[k] = 0 /\ limit'[k] = InitialLimit)
            /\ k > tasks' => k > tasks /\ (status[k] = "none" => status'[k] = "none")
  <2>1. CASE binds
    <3> HIDE DEF s
    <3> QED  BY <1>1, <1>2, <2>1, AttachEffect DEF PInv, WakesRightly
  <2>2. CASE ~binds
    BY <1>1, <2>2, IdleTasks DEF taskVars
  <2> QED  BY <2>1, <2>2
<1>6. LedgerStands
  BY <1>1, <1>3, <1>5 DEF LedgerStands, RowsAfter
<1>7. BlankOK' /\ LimitOK'
  BY <1>6, LedgerKeeps DEF PInv
<1>8. Outside
  BY <1>1, <1>4, <1>5 DEF Outside, workVars
<1> QED  BY <1>5, <1>7, <1>8, OutsideFaithful

LEMMA CommitFaithful == ASSUME PInv, Commit PROVE Faithful
<1>1. UNCHANGED <<rowVars, tstat, receipt, taskVars, review, pc, cur, settlement, aborted>>
  BY DEF Commit, workVars
<1> QED  BY <1>1, NothingFaithful

LEMMA AdmitFaithful == ASSUME PInv, Admit PROVE Faithful
<1>1. /\ UNCHANGED <<review, pc, cur, settlement>> /\ bNext \in TurnId /\ bNext <= turns
      /\ tstat \in TurnStatuses
  <2>1. phase = "control" /\ AdmitNext
    BY DEF Admit, AdmitInput, AdmitControl, AdmitNew, AdmitConfirm, AdmitRevoke, Admitting
  <2>2. bNext \in TurnId /\ bNext <= turns
    <3>1. bNext \in 1..bLast /\ bLast \in 1..turns
      BY <2>1 DEF PInv, IInv, BatchOK
    <3>2. turns \in 0..MaxTurns /\ MaxTurns \in Nat
      BY BoundsAssumption DEF PInv, IInv, TypeOK, RowTypeOK
    <3> QED  BY <3>1, <3>2 DEF TurnId
  <2> QED  BY <2>1, <2>2 DEF AdmitNext, PInv, IInv, TypeOK, TurnStatuses
<1>2. CASE AdmitInput \/ AdmitConfirm \/ AdmitRevoke
  <2>1. UNCHANGED <<rowVars, tstat, receipt, taskVars>> /\ (~Driving => aborted' = aborted)
    <3>1. UNCHANGED <<rowVars, tstat, receipt, taskVars>>
      BY <1>2 DEF AdmitInput, AdmitConfirm, AdmitRevoke
    <3>2. ~Driving => aborted' = aborted
      BY <1>2, ZenonT(60)
      DEF AdmitInput, AdmitConfirm, AdmitRevoke, Superseded, PInv, IInv, TypeOK, FlagTypeOK
    <3> QED  BY <3>1, <3>2
  <2> QED  BY <1>1, <2>1, NothingFaithful
<1>3. CASE AdmitControl \/ AdmitNew
  <2>1. Control(bNext, tstat)
    BY <1>3 DEF AdmitControl, AdmitNew
  <2>2. ~Driving => aborted' = aborted
    BY <1>3 DEF AdmitControl, AdmitNew, Superseded, PInv, IInv, TypeOK, FlagTypeOK
  <2>3. /\ RowsAfter(tstat) /\ TasksCalm /\ WakesRightly /\ LifeStep
        /\ BlankOK' /\ LimitOK'
    BY <1>1, <2>1, ControlEffect DEF PInv
  <2>4. RowsStand /\ StatusStands
    BY <2>3, RowsFollow DEF PInv
  <2>5. Outside
    BY <1>1, <2>2, <2>3, <2>4 DEF Outside
  <2> QED  BY <2>3, <2>5, OutsideFaithful
<1> QED  BY <1>2, <1>3 DEF Admit

LEMMA TimeFaithful == ASSUME PInv, IdleTimeout \/ RequestExpires PROVE Faithful
<1>1. UNCHANGED <<rowVars, tstat, receipt, taskVars, review, pc, cur, settlement, aborted>>
  BY DEF IdleTimeout, RequestExpires, workVars
<1> QED  BY <1>1, NothingFaithful

-----------------------------------------------------------------------------
(* Claims.                                                                  *)

\* The row of a message answered at once.
LEMMA AnsweredRow ==
    ASSUME PInv, NEW t \in TurnId, tstat[t] = "QUEUED", NEW st \in TurnStatus
    PROVE  /\ [tstat EXCEPT ![t] = st] \in TurnStatuses
           /\ \A u \in TurnId : tstat[u] \notin {"none", "QUEUED"} =>
                 [tstat EXCEPT ![t] = st][u] = tstat[u]
BY DEF PInv, IInv, TypeOK, TurnStatuses

LEMMA ClaimLapsedFaithful == ASSUME PInv, NEW t \in TurnId, ClaimLapsed(t) PROVE Faithful
<1>1. /\ tstat' = [tstat EXCEPT ![t] = "REPLY_PENDING"] /\ tstat[t] = "QUEUED"
      /\ UNCHANGED <<rowVars, receipt, taskVars, review, pc, cur, settlement, aborted>>
  BY ClaimedRow DEF ClaimLapsed, PInv, workVars
<1>2. RowsAfter(tstat')
  BY <1>1, RowsUnchanged DEF PInv
<1>3. RowsStand /\ StatusStands
  BY <1>1, <1>2, AnsweredRow, RowsFollow DEF PInv, TurnStatus
<1>4. TasksCalm /\ WakesRightly /\ LifeStep
  BY <1>1, IdleTasks DEF taskVars
<1>5. BlankOK' /\ LimitOK'
  BY <1>1, IdleLedger DEF rowVars, taskVars
<1>6. Outside
  BY <1>1, <1>3, <1>4 DEF Outside
<1> QED  BY <1>4, <1>5, <1>6, OutsideFaithful

LEMMA ClaimControlFaithful == ASSUME PInv, NEW t \in TurnId, ClaimControl(t) PROVE Faithful
<1> DEFINE base == [tstat EXCEPT ![t] = "REPLY_PENDING"]
<1>1. /\ tstat[t] = "QUEUED" /\ t <= turns
      /\ UNCHANGED <<review, pc, cur, settlement, aborted>>
  BY ClaimedRow DEF ClaimControl, PInv, workVars
<1>2. /\ base \in TurnStatuses
      /\ \A u \in TurnId : tstat[u] \notin {"none", "QUEUED"} => base[u] = tstat[u]
  BY <1>1, AnsweredRow DEF TurnStatus
<1>3. /\ RowsAfter(base) /\ TasksCalm /\ WakesRightly /\ LifeStep
      /\ BlankOK' /\ LimitOK'
  <2>1. CASE kind[t] = "revoke"
    <3>1. tstat' = base /\ UNCHANGED <<rowVars, taskVars, receipt>>
      BY <2>1 DEF ClaimControl
    <3>2. BlankOK' /\ LimitOK'
      BY <3>1, IdleLedger DEF rowVars, taskVars
    <3>3. TasksCalm /\ WakesRightly /\ LifeStep
      BY <3>1, IdleTasks DEF taskVars
    <3> QED  BY <3>1, <3>2, <3>3, RowsUnchanged DEF PInv
  <2>2. CASE kind[t] # "revoke"
    <3>1. Control(t, base)
      BY <2>2 DEF ClaimControl
    <3> HIDE DEF base
    <3> QED  BY <1>1, <1>2, <3>1, ControlEffect DEF PInv
  <2> QED  BY <2>1, <2>2
<1>4. RowsStand /\ StatusStands
  <2> HIDE DEF base
  <2> QED  BY <1>2, <1>3, RowsFollow DEF PInv
<1>5. Outside
  BY <1>1, <1>3, <1>4 DEF Outside
<1> QED  BY <1>3, <1>5, OutsideFaithful

LEMMA ClaimConfirmFaithful == ASSUME PInv, NEW t \in TurnId, ClaimConfirm(t) PROVE Faithful
<1> DEFINE base == [tstat EXCEPT ![t] = "REPLY_PENDING"]
           k == ttask[reqTurn]
<1>1. /\ tstat[t] = "QUEUED" /\ t <= turns
      /\ UNCHANGED <<receipt, tasks, conv, rev, used, limit, review, pc, cur, settlement,
                     aborted>>
  BY ClaimedRow DEF ClaimConfirm, PInv, workVars
<1>2. /\ base \in TurnStatuses
      /\ \A u \in TurnId : tstat[u] \notin {"none", "QUEUED"} => base[u] = tstat[u]
  BY <1>1, AnsweredRow DEF TurnStatus
<1>3. /\ RowsAfter(base) /\ TasksCalm /\ WakesRightly /\ LifeStep
      /\ \A j \in TaskId : status[j] = "none" => status'[j] = "none"
  <2>1. CASE Wakes(t)
    <3>1. /\ status' = [status EXCEPT ![k] = "QUEUED"]
          /\ Enqueue(k, "permission_continue", base)
          /\ contTurn' = turns + 1 /\ contTurn = NoTurn
          /\ k # NoTask /\ status[k] \in {"WAITING", "PAUSED"}
      BY <2>1 DEF ClaimConfirm, Wakes
    <3>2. k \in TaskId
      <4>1. reqTurn \in TurnId
        <5>1. reqTurn \in 1..turns
          BY <2>1 DEF Wakes, CanContinue, PInv, IInv, RequestOK
        <5>2. turns \in 0..MaxTurns /\ MaxTurns \in Nat
          BY BoundsAssumption DEF PInv, IInv, TypeOK, RowTypeOK
        <5> QED  BY <5>1, <5>2 DEF TurnId
      <4>2. k \in 0..MaxTasks /\ MaxTasks \in Nat
        BY <4>1, BoundsAssumption DEF PInv, IInv, TypeOK, RowTypeOK
      <4> QED  BY <3>1, <4>2 DEF NoTask, TaskId
    <3>3. \A j \in TaskId : status'[j] = IF j = k THEN "QUEUED" ELSE status[j]
      BY <3>1, <3>2, TypesOfTasks DEF PInv
    <3>4. RowsAfter(base)
      <4> HIDE DEF base
      <4> QED  BY <1>2, <3>1, InsertAfter DEF Enqueue, PInv
    <3>5. TasksCalm
      BY <1>1, <3>1, <3>3 DEF TasksCalm, Active
    <3>6. contTurn' # contTurn
      BY <3>1, TypesOfTasks DEF PInv, IInv, TypeOK, RowTypeOK, NoTurn
    <3>7. WakesRightly
      BY <3>3, <3>6 DEF WakesRightly, Woken
    <3>8. "QUEUED" \in Successors(status[k])
      BY <3>1 DEF Successors
    <3>9. LifeStep
      BY <1>1, <3>1, <3>2, <3>8, LegalStep DEF PInv
    <3> QED  BY <3>1, <3>3, <3>4, <3>5, <3>7, <3>9
  <2>2. CASE ~Wakes(t)
    <3>1. tstat' = base /\ UNCHANGED <<rowVars, status>>
      BY <2>2 DEF ClaimConfirm
    <3>2. TasksCalm /\ WakesRightly /\ LifeStep
      BY <1>1, <3>1, IdleTasks
    <3> QED  BY <3>1, <3>2, RowsUnchanged DEF PInv
  <2> QED  BY <2>1, <2>2
<1>4. LedgerStands
  BY <1>1, <1>3 DEF LedgerStands, RowsAfter
<1>5. RowsStand /\ StatusStands
  <2> HIDE DEF base
  <2> QED  BY <1>2, <1>3, RowsFollow DEF PInv
<1>6. Outside
  BY <1>1, <1>3, <1>5 DEF Outside
<1> QED  BY <1>3, <1>4, <1>6, LedgerKeeps, OutsideFaithful DEF PInv

\* The end of the live conversation closes whatever is open.
LEMMA CloseEffect ==
    ASSUME PInv, live, status' = Close(sess), UNCHANGED <<tasks, rev, used, limit>>
    PROVE  /\ LifeStep /\ WakesRightly
           /\ \A k \in TaskId : /\ status[k] = "none" => status'[k] = "none"
                               /\ status'[k] \in {status[k], "CANCELLED"}
<1>1. \A k \in TaskId : status'[k] = IF k \in Open(sess) THEN "CANCELLED" ELSE status[k]
  BY DEF Close
<1>2. \A k \in TaskId : IsOpen(k) <=> k \in Open(sess)
  BY DEF Open, PInv, IInv, OneOpenTask
<1>3. status' = [k \in TaskId |-> IF IsOpen(k) THEN "CANCELLED" ELSE status[k]]
  BY <1>2 DEF Close
<1>4. Lifecycle!Close
  BY <1>3 DEF Lifecycle!Close, Lifecycle!Closed, Lifecycle!TaskId, Lifecycle!Terminal, IsOpen,
              TaskId, Terminal
<1>5. LifeStep
  BY <1>4 DEF LifeStep, Lifecycle!Next
<1> QED  BY <1>1, <1>2, <1>5 DEF WakesRightly, IsOpen

LEMMA ClaimNewFaithful == ASSUME PInv, NEW t \in TurnId, ClaimNew(t) PROVE Faithful
<1>1. /\ tstat[t] = "QUEUED" /\ InLiveSession(t) /\ tsess[t] = sess
      /\ \A k \in TaskId : status[k] \notin Active
  BY ClaimedRow DEF ClaimNew, InLiveSession, PInv
<1>2. /\ status' = Close(sess)
      /\ \A u \in TurnId : tstat[u] # "QUEUED" =>
            tstat'[u] = tstat[u] /\ ttask'[u] = ttask[u] /\ trev'[u] = trev[u]
      /\ UNCHANGED <<turns, kind, receipt, tasks, rev, used, limit, review, pc, cur, settlement,
                     aborted>>
  BY <1>1 DEF ClaimNew, workVars
<1>3. RowsStand /\ StatusStands
  BY <1>2 DEF RowsStand, StatusStands, PInv, IInv, TypeOK, RowTypeOK
<1>4. /\ LifeStep /\ WakesRightly
      /\ \A k \in TaskId : /\ status[k] = "none" => status'[k] = "none"
                          /\ status'[k] \in {status[k], "CANCELLED"}
  BY <1>1, <1>2, CloseEffect DEF InLiveSession
<1>5. TasksCalm
  BY <1>1, <1>2, <1>4 DEF TasksCalm
<1>6. LedgerStands
  BY <1>2, <1>3, <1>4 DEF LedgerStands, RowsStand
<1>7. Outside
  BY <1>2, <1>3, <1>5 DEF Outside
<1> QED  BY <1>4, <1>6, <1>7, LedgerKeeps, OutsideFaithful DEF PInv

\* A claimed turn is RUNNING and nothing is decided yet.
LEMMA ClaimedFaithful ==
    ASSUME PInv, NEW t \in TurnId, tstat[t] = "QUEUED", pc = "idle",
           tstat' = [tstat EXCEPT ![t] = "RUNNING"], pc' \in {"claimed", "manage"}, cur' = t,
           RowsStand, TasksCalm, review' = review, LedgerStands, WakesRightly, LifeStep
    PROVE  Faithful
<1>1. \A u \in TurnId : tstat'[u] = IF u = t THEN "RUNNING" ELSE tstat[u]
  BY DEF PInv, IInv, TypeOK
<1>2. RunOK' /\ DecisionOK'
  BY <1>1 DEF RunOK, DecisionOK
<1>3. AnsweredNewestInput'
  BY <1>1, AnswersStand DEF PInv, TasksCalm
<1>4. BlankOK' /\ LimitOK'
  BY LedgerKeeps DEF PInv
<1>5. StopCounts /\ PublishesCurrent
  BY DEF StopCounts, PublishesCurrent, TasksCalm
<1> QED  BY <1>2, <1>3, <1>4, <1>5 DEF Faithful, Honest, Keeps

LEMMA ClaimManageFaithful == ASSUME PInv, NEW t \in TurnId, ClaimManage(t) PROVE Faithful
<1>1. /\ tstat[t] = "QUEUED" /\ pc = "idle" /\ pc' = "manage" /\ cur' = t
      /\ tstat' = [tstat EXCEPT ![t] = "RUNNING"]
      /\ UNCHANGED <<rowVars, receipt, taskVars, review>>
  BY ClaimedRow DEF ClaimManage, PInv
<1>2. TasksCalm /\ WakesRightly /\ LifeStep
  BY <1>1, IdleTasks DEF taskVars
<1>3. RowsStand /\ LedgerStands
  BY <1>1 DEF RowsStand, LedgerStands, rowVars, taskVars, PInv, IInv, TypeOK, RowTypeOK
<1> QED  BY <1>1, <1>2, <1>3, ClaimedFaithful

LEMMA ClaimInputFaithful == ASSUME PInv, NEW t \in TurnId, ClaimInput(t) PROVE Faithful
<1> DEFINE binds == ttask[t] = NoTask /\ kind[t] \in InputKinds
<1>1. /\ tstat[t] = "QUEUED" /\ pc = "idle" /\ pc' = "claimed" /\ cur' = t
      /\ tstat' = [tstat EXCEPT ![t] = "RUNNING"] /\ live /\ tsess[t] = sess
      /\ UNCHANGED <<turns, kind, receipt, review>>
  BY ClaimedRow DEF ClaimInput, PInv
<1>2. IF binds
      THEN /\ Attach(sess)
           /\ ttask' = [ttask EXCEPT ![t] = Binding(sess).task]
           /\ trev' = [trev EXCEPT ![t] = Binding(sess).rev]
      ELSE UNCHANGED <<taskVars, ttask, trev>>
  BY <1>1 DEF ClaimInput
<1>3. RowsStand
  <2>1. \A u \in TurnId : u # t => ttask'[u] = ttask[u] /\ trev'[u] = trev[u]
    BY <1>2 DEF PInv, IInv, TypeOK, RowTypeOK
  <2> QED  BY <1>1, <2>1 DEF RowsStand, PInv, IInv, TypeOK, RowTypeOK
<1>4. /\ TasksCalm /\ LifeStep /\ WakesRightly
      /\ \A k \in TaskId :
            /\ used'[k] = used[k]
            /\ limit'[k] = limit[k] \/ (used[k] = 0 /\ limit'[k] = InitialLimit)
            /\ k > tasks' => k > tasks /\ (status[k] = "none" => status'[k] = "none")
  <2>1. CASE binds
    BY <1>2, <2>1, AttachEffect DEF PInv, WakesRightly
  <2>2. CASE ~binds
    BY <1>2, <2>2, IdleTasks DEF taskVars
  <2> QED  BY <2>1, <2>2
<1>5. LedgerStands
  BY <1>1, <1>3, <1>4 DEF LedgerStands, RowsStand
<1> QED  BY <1>1, <1>3, <1>4, <1>5, ClaimedFaithful

-----------------------------------------------------------------------------
(* The run.                                                                 *)

\* The worker's turn and its task.
LEMMA TurnAtWork ==
    ASSUME PInv, pc # "idle"
    PROVE  /\ cur \in TurnId /\ tstat[cur] = "RUNNING"
           /\ Task # NoTask => Task \in TaskId
           /\ pc \in RunStates => Task \in TaskId
BY CurrentRow, TaskOfTurn, RunTask DEF PInv, RunOK

\* A step that changes no row but the worker's, and that one not in what it is about.
LEMMA OwnRow ==
    ASSUME PInv, pc # "idle", NEW st, tstat' = [tstat EXCEPT ![cur] = st] \/ tstat' = tstat,
           UNCHANGED <<rowVars, review>>
    PROVE  /\ RowsStand
           /\ \A t \in TurnId : t # cur => tstat'[t] = tstat[t]
           /\ \A t \in TurnId : tstat[t] = "REPLY_PENDING" => tstat'[t] = tstat[t]
                                                           /\ review'[t] = review[t]
BY TurnAtWork DEF RowsStand, rowVars, PInv, IInv, TypeOK, RowTypeOK

\* The worker lets go of a turn before there was anything to settle.
LEMMA ReleaseFaithful ==
    ASSUME PInv, pc \in {"claimed", "manage"}, Release, NEW st,
           tstat' = [tstat EXCEPT ![cur] = st], UNCHANGED <<rowVars, review>>,
           LifeStep, LedgerStands, WakesRightly,
           \A k \in TaskId : status'[k] \in {"WAITING", "COMPLETED"} =>
               (status'[k] = status[k] /\ rev'[k] = rev[k])
               \/ (status'[k] = "WAITING" /\ AnswerOf(k)')
    PROVE  Faithful
<1>1. AnsweredNewestInput'
  BY OwnRow, AnswersStand DEF PInv
<1>2. RunOK' /\ DecisionOK'
  BY DEF Release, RunOK, DecisionOK
<1>3. StopCounts /\ PublishesCurrent
  BY DEF StopCounts, PublishesCurrent
<1>4. BlankOK' /\ LimitOK'
  BY LedgerKeeps DEF PInv
<1> QED  BY <1>1, <1>2, <1>3, <1>4 DEF Faithful, Honest, Keeps

LEMMA IdleLedgerStands ==
    ASSUME PInv, UNCHANGED <<turns, kind, receipt, tasks, used, limit>>,
           \A k \in TaskId : status[k] = "none" => status'[k] = "none"
    PROVE  LedgerStands
BY DEF LedgerStands, PInv, IInv, TypeOK, RowTypeOK

LEMMA QuietEnds == ASSUME PInv, FinishManage \/ BeginRefused PROVE Faithful
<1> DEFINE st == IF FinishManage \/ ~Executes \/ (status[Task] = "PAUSED" /\ FromUser)
                 THEN "REPLY_PENDING" ELSE "SUCCEEDED"
<1>1. /\ pc \in {"claimed", "manage"} /\ Release
      /\ UNCHANGED <<rowVars, receipt, taskVars, review>>
  BY DEF FinishManage, BeginRefused, Works
<1>2. tstat' = [tstat EXCEPT ![cur] = "REPLY_PENDING"]
      \/ tstat' = [tstat EXCEPT ![cur] = "SUCCEEDED"]
  BY DEF FinishManage, BeginRefused, Reply
<1>3. TasksCalm /\ WakesRightly /\ LifeStep
  BY <1>1, IdleTasks DEF taskVars
<1>4. LedgerStands
  BY <1>1, IdleLedgerStands DEF rowVars, taskVars
<1> QED  BY <1>1, <1>2, <1>3, <1>4, ReleaseFaithful DEF TasksCalm

LEMMA BeginExhaustedFaithful == ASSUME PInv, BeginExhausted PROVE Faithful
<1>1. /\ pc = "claimed" /\ Release /\ Task # NoTask /\ status[Task] = "QUEUED"
      /\ status' = [status EXCEPT ![Task] = "PAUSED"]
      /\ \E st : tstat' = [tstat EXCEPT ![cur] = st]
      /\ UNCHANGED <<rowVars, receipt, tasks, rev, used, limit, review>>
  BY DEF BeginExhausted, CanBegin, Works, Reply
<1>2. Task \in TaskId
  BY <1>1, TurnAtWork
<1>3. \A k \in TaskId : status'[k] = IF k = Task THEN "PAUSED" ELSE status[k]
  BY <1>1, <1>2, TypesOfTasks DEF PInv
<1>4. LedgerStands
  BY <1>1, <1>3, IdleLedgerStands DEF rowVars
<1>5. LifeStep
  BY <1>1, <1>2, LegalStep DEF Successors, PInv
<1>6. WakesRightly
  BY <1>3 DEF WakesRightly
<1>7. PICK st : tstat' = [tstat EXCEPT ![cur] = st]
  BY <1>1
<1>8. \A k \in TaskId : status'[k] \in {"WAITING", "COMPLETED"} =>
          status'[k] = status[k] /\ rev'[k] = rev[k]
  BY <1>1, <1>3
<1> QED  BY <1>1, <1>4, <1>5, <1>6, <1>7, <1>8, ReleaseFaithful

LEMMA BeginUploadFaithful == ASSUME PInv, BeginUpload PROVE Faithful
<1>1. /\ pc = "claimed" /\ Release /\ Task # NoTask
      /\ status[Task] = "QUEUED" /\ rev[Task] = trev[cur]
      /\ status' = [status EXCEPT ![Task] = "WAITING"]
      /\ tstat' = [tstat EXCEPT ![cur] = "REPLY_PENDING"]
      /\ UNCHANGED <<rowVars, receipt, tasks, rev, used, limit, review>>
  BY DEF BeginUpload, CanBegin, Works, Reply
<1>2. Task \in TaskId /\ cur \in TurnId
  BY <1>1, TurnAtWork
<1>3. \A k \in TaskId : status'[k] = IF k = Task THEN "WAITING" ELSE status[k]
  BY <1>1, <1>2, TypesOfTasks DEF PInv
<1>4. LedgerStands
  BY <1>1, <1>3, IdleLedgerStands DEF rowVars
<1>5. LifeStep
  <2>1. Lifecycle!Move(Task)
    BY <1>1 DEF Lifecycle!Move, Lifecycle!Moves, Lifecycle!Extended
  <2> QED  BY <1>2, <2>1 DEF LifeStep, Lifecycle!Next, Lifecycle!TaskId, TaskId
<1>6. WakesRightly
  BY <1>1, <1>3 DEF WakesRightly
<1>7. ASSUME NEW k \in TaskId, k = Task PROVE AnswerOf(k)'
  <2>1. /\ ttask'[cur] = Task /\ trev'[cur] = rev'[Task] /\ tstat'[cur] = "REPLY_PENDING"
        /\ status'[Task] = "WAITING"
    BY <1>1, <1>2, <1>3 DEF Task, rowVars, PInv, IInv, TypeOK
  <2> QED  BY <1>1, <1>2, <1>7, <2>1 DEF AnswerOf
<1>8. \A k \in TaskId : status'[k] \in {"WAITING", "COMPLETED"} =>
          (status'[k] = status[k] /\ rev'[k] = rev[k])
          \/ (status'[k] = "WAITING" /\ AnswerOf(k)')
  BY <1>1, <1>3, <1>7
<1> QED  BY <1>1, <1>4, <1>5, <1>6, <1>8, ReleaseFaithful

\* A step of the run that leaves its rows as they are.
LEMMA RunFaithful ==
    ASSUME PInv, pc # "idle", UNCHANGED <<rowVars, tstat>>,
           \A t \in TurnId : t # cur => review'[t] = review[t],
           \A k \in TaskId : status'[k] \in {"WAITING", "COMPLETED"} =>
               status'[k] = status[k] /\ rev'[k] = rev[k],
           RunOK', DecisionOK', BlankOK', LimitOK', LifeStep, WakesRightly
    PROVE  Faithful
<1>1. \A t \in TurnId : tstat[t] = "REPLY_PENDING" => t # cur
  BY TurnAtWork
<1>2. AnsweredNewestInput'
  BY <1>1, IdleRows, AnswersStand DEF PInv
<1>3. StopCounts /\ PublishesCurrent
  BY DEF StopCounts, PublishesCurrent
<1> QED  BY <1>2, <1>3 DEF Faithful, Honest, Keeps

LEMMA BeginRunFaithful == ASSUME PInv, BeginRun PROVE Faithful
<1>1. /\ pc = "claimed" /\ pc' = "run" /\ Task # NoTask /\ status[Task] = "QUEUED"
      /\ status' = [status EXCEPT ![Task] = "RUNNING"]
      /\ UNCHANGED <<rowVars, tstat, receipt, tasks, rev, used, limit, review, cur>>
  BY DEF BeginRun, CanBegin, Works
<1>2. Task \in TaskId /\ tstat[cur] = "RUNNING" /\ Task' = Task
  BY <1>1, TurnAtWork DEF Task, rowVars
<1>3. \A k \in TaskId : status'[k] = IF k = Task THEN "RUNNING" ELSE status[k]
  BY <1>1, <1>2, TypesOfTasks DEF PInv
<1>4. RunOK' /\ DecisionOK'
  BY <1>1, <1>2, <1>3 DEF RunOK, DecisionOK
<1>5. BlankOK' /\ LimitOK'
  BY <1>1, <1>3, IdleLedgerStands, LedgerKeeps DEF rowVars, PInv
<1>6. LifeStep
  BY <1>1, <1>2, LegalStep DEF Successors, PInv
<1>7. WakesRightly
  BY <1>1, <1>3 DEF WakesRightly
<1>8. \A k \in TaskId : status'[k] \in {"WAITING", "COMPLETED"} =>
          status'[k] = status[k] /\ rev'[k] = rev[k]
  BY <1>1, <1>3
<1> QED  BY <1>1, <1>4, <1>5, <1>6, <1>7, <1>8, RunFaithful

LEMMA ModelCallFaithful == ASSUME PInv, ModelCall PROVE Faithful
<1>1. /\ pc = "run" /\ pc' = pc /\ status[Task] = "RUNNING" /\ used[Task] < limit[Task]
      /\ used' = [used EXCEPT ![Task] = @ + 1]
      /\ UNCHANGED <<rowVars, tstat, receipt, tasks, status, rev, limit, review, cur>>
  BY DEF ModelCall, MayReserve, Works
<1>2. Task \in TaskId /\ Task' = Task
  BY <1>1, TurnAtWork DEF Task, rowVars, RunStates
<1>3. \A k \in TaskId : used'[k] = IF k = Task THEN used[k] + 1 ELSE used[k]
  BY <1>1, <1>2, TypesOfTasks DEF PInv
<1>4. RunOK' /\ DecisionOK'
  BY <1>1, <1>2 DEF RunOK, DecisionOK, PInv
<1>5. BlankOK'
  BY <1>1, <1>3 DEF BlankOK, rowVars, PInv
<1>6. LimitOK'
  <2>1. \A k \in TaskId : Budgets(k)' = Budgets(k)
    BY <1>1 DEF Budgets, rowVars
  <2>2. \A k \in TaskId : used'[k] <= limit[k]
    BY <1>1, <1>3, TypesOfTasks DEF LimitOK, PInv
  <2> QED  BY <1>1, <2>1, <2>2 DEF LimitOK, PInv
<1>7. LifeStep
  <2>1. Lifecycle!Call(Task)
    BY <1>1 DEF Lifecycle!Call
  <2> QED  BY <1>2, <2>1 DEF LifeStep, Lifecycle!Next, Lifecycle!TaskId, TaskId
<1>8. WakesRightly
  BY <1>1 DEF WakesRightly
<1> QED  BY <1>1, <1>4, <1>5, <1>6, <1>7, <1>8, RunFaithful

LEMMA RequestPermissionFaithful == ASSUME PInv, RequestPermission PROVE Faithful
<1>1. UNCHANGED <<rowVars, tstat, receipt, taskVars, review, pc, cur, settlement, aborted>>
  BY DEF RequestPermission, workVars
<1> QED  BY <1>1, NothingFaithful

\* The catch block and the reviewer's or the agent's wish to go on, as decisions.
LEMMA DecisionsHold ==
    ASSUME PInv, pc \in {"run", "outcome", "review"}
    PROVE  /\ CatchSettlement.status \in {"PAUSED", "CANCELLED"}
           /\ CatchSettlement.status = "CANCELLED" => status[Task] = "CANCELLING"
           /\ ContinueSettlement.status \in {"QUEUED", "PAUSED"}
           /\ status[Task] \in Active
BY DEF CatchSettlement, ContinueSettlement, Settlement, PInv, RunOK, Active

\* A stage of the run ends, in a decision or in the next stage.
LEMMA StageFaithful ==
    ASSUME PInv, pc \in {"run", "outcome", "review"}, pc' \in RunStates,
           UNCHANGED <<rowVars, tstat, receipt, taskVars, cur, aborted>>,
           \A t \in TurnId : t # cur => review'[t] = review[t],
           pc' # "settle" => pc = "run" /\ pc' = "outcome",
           pc' = "settle" =>
              \/ settlement' \in {CatchSettlement, ContinueSettlement}
              \/ settlement' = Settlement("WAITING", trev[cur], TRUE)
              \/ /\ settlement' = Settlement("COMPLETED", trev[cur], TRUE)
                 /\ ~aborted /\ pc = "review" /\ review'[cur] = "approved"
    PROVE  Faithful
<1>1. /\ Task' = Task /\ status' = status /\ tstat' = tstat /\ trev' = trev /\ cur' = cur
      /\ aborted' = aborted
  BY DEF Task, rowVars, taskVars
<1>2. pc # "idle" /\ tstat[cur] = "RUNNING"
  BY TurnAtWork
<1>3. RunOK'
  BY <1>1, <1>2, DecisionsHold DEF RunOK, RunStates, PInv
<1>4. DecisionOK'
  <2>1. CASE pc' # "settle"
    BY <2>1 DEF DecisionOK
  <2>2. CASE pc' = "settle" /\ settlement' \in {CatchSettlement, ContinueSettlement}
    BY <1>1, <2>2, DecisionsHold DEF DecisionOK
  <2>3. CASE pc' = "settle" /\ settlement' = Settlement("WAITING", trev[cur], TRUE)
    BY <1>1, <2>3 DEF DecisionOK, Settlement
  <2>4. CASE /\ pc' = "settle" /\ settlement' = Settlement("COMPLETED", trev[cur], TRUE)
             /\ ~aborted /\ pc = "review" /\ review'[cur] = "approved"
    BY <1>1, <2>4 DEF DecisionOK, Settlement, PInv, RunOK
  <2> QED  BY <2>1, <2>2, <2>3, <2>4
<1>5. BlankOK' /\ LimitOK'
  BY IdleLedger DEF rowVars, taskVars
<1>6. LifeStep /\ WakesRightly
  BY IdleTasks DEF taskVars
<1> QED  BY <1>2, <1>3, <1>4, <1>5, <1>6, RunFaithful DEF taskVars

LEMMA RunEndsFaithful == ASSUME PInv, RunEnds PROVE Faithful
<1>1. /\ pc = "run"
      /\ \/ pc' = "outcome"
         \/ pc' = "settle" /\ settlement' = CatchSettlement
      /\ UNCHANGED <<rowVars, tstat, receipt, taskVars, cur, aborted, review>>
  BY DEF RunEnds, Works, Decide
<1> QED  BY <1>1, StageFaithful DEF RunStates

LEMMA OutcomeFaithful ==
    ASSUME PInv, NEW d \in {"waiting", "continue", "malformed"}, Outcome(d) PROVE Faithful
<1>1. /\ pc = "outcome" /\ pc' = "settle"
      /\ \/ settlement' \in {CatchSettlement, ContinueSettlement}
         \/ settlement' = Settlement("WAITING", trev[cur], TRUE)
      /\ UNCHANGED <<rowVars, tstat, receipt, taskVars, cur, aborted, review>>
  BY DEF Outcome, Works, Decide
<1> QED  BY <1>1, StageFaithful DEF RunStates

LEMMA ReviewFaithful ==
    ASSUME PInv, ReviewFails \/ \E d \in Decisions : ReviewReturns(d) PROVE Faithful
<1>1. CASE ReviewFails
  <2>1. /\ pc = "review" /\ pc' = "settle" /\ settlement' = CatchSettlement
        /\ UNCHANGED <<rowVars, tstat, receipt, taskVars, cur, aborted, review>>
    BY <1>1 DEF ReviewFails, Works, Decide
  <2> QED  BY <2>1, StageFaithful DEF RunStates
<1>2. ASSUME NEW d \in Decisions, ReviewReturns(d) PROVE Faithful
  <2>1. /\ pc = "review" /\ pc' = "settle" /\ settlement' = ReviewSettlement(d)
        /\ review' = [review EXCEPT ![cur] = d]
        /\ UNCHANGED <<rowVars, tstat, receipt, taskVars, cur, aborted>>
    BY <1>2 DEF ReviewReturns, Works, Decide
  <2>2. review'[cur] = d /\ \A t \in TurnId : t # cur => review'[t] = review[t]
    BY <2>1, TurnAtWork DEF PInv, IInv, TypeOK
  <2>3. \/ settlement' \in {CatchSettlement, ContinueSettlement}
        \/ settlement' = Settlement("WAITING", trev[cur], TRUE)
        \/ /\ settlement' = Settlement("COMPLETED", trev[cur], TRUE)
           /\ ~aborted /\ pc = "review" /\ review'[cur] = "approved"
    BY <2>1, <2>2 DEF ReviewSettlement
  <2> QED  BY <2>1, <2>2, <2>3, StageFaithful DEF RunStates
<1> QED  BY <1>1, <1>2

LEMMA ApplyFaithful == ASSUME PInv, ApplyForCompletion PROVE Faithful
<1>1. /\ pc = "outcome" /\ pc' = "review" /\ status[Task] = "RUNNING"
      /\ review' = [review EXCEPT ![cur] = "open"]
      /\ status' = [status EXCEPT ![Task] = "REVIEWING"]
      /\ UNCHANGED <<rowVars, tstat, receipt, tasks, rev, used, limit, cur>>
  BY DEF ApplyForCompletion, StillCurrent, Works
<1>2. Task \in TaskId /\ tstat[cur] = "RUNNING" /\ Task' = Task
  BY <1>1, TurnAtWork DEF Task, rowVars, RunStates
<1>3. \A k \in TaskId : status'[k] = IF k = Task THEN "REVIEWING" ELSE status[k]
  BY <1>1, <1>2, TypesOfTasks DEF PInv
<1>4. RunOK' /\ DecisionOK'
  BY <1>1, <1>2, <1>3 DEF RunOK, DecisionOK
<1>5. BlankOK' /\ LimitOK'
  BY <1>1, <1>3, IdleLedgerStands, LedgerKeeps DEF rowVars, PInv
<1>6. LifeStep
  BY <1>1, <1>2, LegalStep DEF Successors, PInv
<1>7. WakesRightly
  BY <1>1, <1>3 DEF WakesRightly
<1>8. \A t \in TurnId : t # cur => review'[t] = review[t]
  BY <1>1 DEF PInv, IInv, TypeOK
<1>9. \A k \in TaskId : status'[k] \in {"WAITING", "COMPLETED"} =>
          status'[k] = status[k] /\ rev'[k] = rev[k]
  BY <1>1, <1>3
<1> QED  BY <1>1, <1>4, <1>5, <1>6, <1>7, <1>8, <1>9, RunFaithful

-----------------------------------------------------------------------------
(* The ends of a turn, and of the process.                                  *)

\* Whatever the run decided, completeTurn finds the domain model's transition for it.
LEMMA SettlesLegally ==
    ASSUME PInv, pc = "settle"
    PROVE  /\ LegalMove
           /\ SettledStatus \in Successors(status[Task])
           /\ SettledStatus \in {"WAITING", "COMPLETED"} =>
                  /\ Accepted /\ settlement.publish /\ rev[Task] = trev[cur]
                  /\ SettledStatus = settlement.status /\ settlement.status # "QUEUED"
                  /\ settlement.status = "COMPLETED" => ~aborted /\ review[cur] = "approved"
           /\ SettledStatus # "none"
<1>1. /\ status[Task] \in Active
      /\ settlement.status \in {"WAITING", "QUEUED", "PAUSED", "COMPLETED", "CANCELLED"}
      /\ settlement.status = "COMPLETED" => status[Task] # "RUNNING"
      /\ settlement.status = "CANCELLED" => status[Task] = "CANCELLING"
  BY DEF PInv, RunOK, DecisionOK
<1>2. SettledStatus \in Successors(status[Task])
  BY <1>1 DEF SettledStatus, Outdated, Active, Terminal, Successors
<1>3. SettledStatus \in {"WAITING", "COMPLETED"} =>
          /\ ~Outdated /\ SettledStatus = settlement.status /\ rev[Task] = settlement.rev
  BY <1>1 DEF SettledStatus, Outdated, Active, Terminal
<1>4. SettledStatus # "none"
  BY <1>2 DEF Successors
<1> QED  BY <1>1, <1>2, <1>3, <1>4 DEF LegalMove, Accepted, Applies, PInv, DecisionOK

LEMMA CompleteFaithful == ASSUME PInv, Complete PROVE Faithful
<1> DEFINE replied == [tstat EXCEPT ![cur] =
                          IF Accepted /\ settlement.publish THEN "REPLY_PENDING" ELSE "SUCCEEDED"]
<1>1. /\ pc = "settle" /\ Release
      /\ status' = [status EXCEPT ![Task] = SettledStatus]
      /\ IF Accepted /\ settlement.status = "QUEUED"
         THEN Enqueue(Task, "task_continue", replied)
         ELSE tstat' = replied /\ UNCHANGED rowVars
      /\ UNCHANGED <<receipt, tasks, rev, used, limit, review>>
  BY DEF Complete, Works
<1>2. Task \in TaskId /\ cur \in TurnId /\ tstat[cur] = "RUNNING"
  BY <1>1, TurnAtWork DEF RunStates
<1>3. \A k \in TaskId : status'[k] = IF k = Task THEN SettledStatus ELSE status[k]
  BY <1>1, <1>2, TypesOfTasks DEF PInv
<1>4. /\ replied \in TurnStatuses
      /\ \A t \in TurnId : replied[t] =
            IF t = cur THEN IF Accepted /\ settlement.publish THEN "REPLY_PENDING" ELSE "SUCCEEDED"
            ELSE tstat[t]
  BY <1>2 DEF PInv, IInv, TypeOK, TurnStatuses, TurnStatus
<1>5. RowsAfter(replied)
  <2> HIDE DEF replied
  <2> QED  BY <1>1, <1>4, InsertAfter, RowsUnchanged DEF Enqueue, PInv
<1>6. /\ \A t \in TurnId : tstat[t] \notin {"none", "QUEUED"} => t <= turns
      /\ cur <= turns
  <2>1. turns \in Nat /\ \A t \in TurnId : t \in Nat /\ (tstat[t] = "none" <=> t > turns)
    BY BoundsAssumption DEF PInv, IInv, QueueOK, TypeOK, RowTypeOK, TurnId
  <2> QED  BY <1>1, <2>1, CurrentRow DEF PInv
<1>7. RowsStand
  BY <1>5, <1>6 DEF RowsAfter, RowsStand
<1>8. \A t \in TurnId : tstat[t] = "REPLY_PENDING" => tstat'[t] = tstat[t]
  BY <1>2, <1>4, <1>5, <1>6 DEF RowsAfter
<1>9. /\ ttask'[cur] = Task /\ trev'[cur] = trev[cur]
      /\ tstat'[cur] = IF Accepted /\ settlement.publish THEN "REPLY_PENDING" ELSE "SUCCEEDED"
  BY <1>2, <1>4, <1>5, <1>6 DEF RowsAfter, Task
<1>10. ASSUME NEW k \in TaskId, k = Task, status'[k] \in {"WAITING", "COMPLETED"}
       PROVE  AnswerOf(k)'
  <2>1. /\ ttask'[cur] = k /\ trev'[cur] = rev'[k] /\ tstat'[cur] = "REPLY_PENDING"
        /\ status'[k] = "COMPLETED" => review'[cur] = "approved"
    BY <1>1, <1>3, <1>9, <1>10, SettlesLegally
  <2> QED  BY <1>2, <2>1 DEF AnswerOf
<1>11. AnsweredNewestInput'
  <2>1. \A k \in TaskId : status'[k] \in {"WAITING", "COMPLETED"} =>
            (status'[k] = status[k] /\ rev'[k] = rev[k]) \/ AnswerOf(k)'
    BY <1>1, <1>3, <1>10
  <2> QED  BY <1>1, <1>7, <1>8, <2>1, AnswersStand DEF PInv
<1>12. RunOK' /\ DecisionOK'
  BY <1>1 DEF Release, RunOK, DecisionOK
<1>13. BlankOK' /\ LimitOK'
  <2>1. \A k \in TaskId : k > tasks => k # Task
    BY <1>1 DEF PInv, RunOK, BlankOK, Active
  <2>2. LedgerStands
    BY <1>1, <1>3, <1>5, <2>1 DEF LedgerStands, RowsAfter
  <2> QED  BY <2>2, LedgerKeeps DEF PInv
<1>14. StopCounts
  BY <1>1, <1>3, SettlesLegally DEF StopCounts
<1>15. PublishesCurrent
  <2>1. SUFFICES ASSUME tstat'[cur] = "REPLY_PENDING"
                 PROVE  /\ status'[Task] = settlement.status
                        /\ settlement.status \in {"COMPLETED", "WAITING"} => rev[Task] = trev[cur]
    BY DEF PublishesCurrent, Task
  <2>2. Accepted
    BY <1>9, <2>1
  <2> QED  BY <1>1, <1>2, <1>3, <2>2, SettlesLegally DEF Accepted
<1>16. LifeStep
  BY <1>1, <1>2, SettlesLegally, LegalStep DEF PInv
<1>17. WakesRightly
  BY <1>1, <1>3 DEF WakesRightly, PInv, RunOK, Active
<1> QED  BY <1>11, <1>12, <1>13, <1>14, <1>15, <1>16, <1>17 DEF Faithful, Honest, Keeps

\* What a failure makes of an open task is a transition of the domain model, too.
LEMMA FailureLegal ==
    ASSUME NEW t, status[ttask[t]] \in TaskStatus \ Terminal
    PROVE  /\ FailedStatus(t) = status[ttask[t]]
              \/ FailedStatus(t) \in Successors(status[ttask[t]])
           /\ FailedStatus(t) \in {"CANCELLED", "QUEUED", "PAUSED"}
BY DEF FailedStatus, Successors, TaskStatus, Active, Terminal

LEMMA TurnFailsHonest ==
    ASSUME PInv, TurnFails PROVE Honest /\ (~StorageFaults => WakesRightly)
<1>1. /\ pc \in {"claimed", "manage", "settle"} /\ Release
      /\ StorageFaults \/ (pc = "settle" /\ ~LegalMove)
      /\ tstat' = [tstat EXCEPT ![cur] = "FAILED"]
      /\ UNCHANGED <<rowVars, receipt, tasks, rev, used, limit, review>>
      /\ IF Task = NoTask \/ ~IsOpen(Task) THEN status' = status
         ELSE status' = [status EXCEPT ![Task] = FailedStatus(cur)]
  BY DEF TurnFails
<1>2. ~StorageFaults => WakesRightly
  BY <1>1, SettlesLegally
<1>3. cur \in TurnId /\ tstat'[cur] = "FAILED"
  BY <1>1, TurnAtWork DEF PInv, IInv, TypeOK
<1>4. /\ LifeStep
      /\ \A k \in TaskId : status'[k] = status[k]
                           \/ (status[k] # "none" /\ status'[k] \in {"CANCELLED", "QUEUED", "PAUSED"})
  <2>1. CASE status' = status
    BY <1>1, <2>1, IdleTasks
  <2>2. CASE /\ Task # NoTask /\ IsOpen(Task)
             /\ status' = [status EXCEPT ![Task] = FailedStatus(cur)]
    <3>1. Task \in TaskId /\ status[Task] \in TaskStatus \ Terminal
      BY <1>1, <2>2, TurnAtWork, TypesOfTasks DEF IsOpen, PInv
    <3>2. /\ FailedStatus(cur) = status[Task] \/ FailedStatus(cur) \in Successors(status[Task])
          /\ FailedStatus(cur) \in {"CANCELLED", "QUEUED", "PAUSED"}
      BY <3>1, FailureLegal DEF Task
    <3>3. LifeStep
      BY <1>1, <2>2, <3>1, <3>2, LegalStep DEF PInv
    <3>4. \A k \in TaskId : status'[k] = IF k = Task THEN FailedStatus(cur) ELSE status[k]
      BY <2>2, <3>1, TypesOfTasks DEF PInv
    <3> QED  BY <2>2, <3>2, <3>3, <3>4 DEF IsOpen
  <2> QED  BY <1>1, <2>1, <2>2
<1>5. AnsweredNewestInput'
  <2>1. \A k \in TaskId : status'[k] \in {"WAITING", "COMPLETED"} =>
            status'[k] = status[k] /\ rev'[k] = rev[k]
    BY <1>1, <1>4
  <2> QED  BY <1>1, <2>1, OwnRow, AnswersStand DEF PInv
<1>6. RunOK' /\ DecisionOK'
  BY <1>1 DEF Release, RunOK, DecisionOK
<1>7. BlankOK' /\ LimitOK'
  BY <1>1, <1>4, IdleLedgerStands, LedgerKeeps DEF rowVars, PInv
<1>8. StopCounts
  BY <1>4 DEF StopCounts
<1>9. PublishesCurrent
  BY <1>3 DEF PublishesCurrent
<1> QED  BY <1>2, <1>4, <1>5, <1>6, <1>7, <1>8, <1>9 DEF Honest, Keeps

LEMMA RestartFaithful == ASSUME PInv, Restart PROVE Faithful
<1>1. /\ Release
      /\ status' = (IF live THEN Close(sess) ELSE status)
      /\ \A t \in TurnId : tstat'[t] = IF tstat[t] \in {"QUEUED", "RUNNING"} THEN "CANCELLED"
                                     ELSE tstat[t]
      /\ UNCHANGED <<rowVars, receipt, tasks, rev, used, limit, review>>
  BY DEF Restart
<1>2. /\ LifeStep /\ WakesRightly
      /\ \A k \in TaskId : /\ status[k] = "none" => status'[k] = "none"
                          /\ status'[k] \in {status[k], "CANCELLED"}
  <2>1. CASE live
    BY <1>1, <2>1, CloseEffect
  <2>2. CASE ~live
    BY <1>1, <2>2, IdleTasks
  <2> QED  BY <2>1, <2>2
<1>3. RowsStand
  BY <1>1 DEF RowsStand, rowVars, PInv, IInv, TypeOK, RowTypeOK
<1>4. AnsweredNewestInput'
  <2>1. \A k \in TaskId : status'[k] \in {"WAITING", "COMPLETED"} =>
            status'[k] = status[k] /\ rev'[k] = rev[k]
    BY <1>1, <1>2
  <2> QED  BY <1>1, <1>3, <2>1, AnswersStand DEF PInv
<1>5. RunOK' /\ DecisionOK'
  BY <1>1 DEF Release, RunOK, DecisionOK
<1>6. BlankOK' /\ LimitOK'
  BY <1>1, <1>2, IdleLedgerStands, LedgerKeeps DEF rowVars, PInv
<1>7. StopCounts
  BY <1>2 DEF StopCounts
<1>8. PublishesCurrent
  BY <1>1 DEF PublishesCurrent
<1> QED  BY <1>2, <1>4, <1>5, <1>6, <1>7, <1>8 DEF Faithful, Honest, Keeps

-----------------------------------------------------------------------------
(* The theorems.                                                            *)

LEMMA PInitially == Init => PInv
<1> SUFFICES ASSUME Init PROVE PInv  OBVIOUS
<1>1. IInv
  BY Initially
<1>2. RunOK /\ DecisionOK /\ AnsweredNewestInput
  BY DEF Init, RunOK, DecisionOK, AnsweredNewestInput
<1>3. BlankOK
  BY DEF Init, BlankOK, NoReceipt
<1>4. LimitOK
  <2>1. ASSUME NEW k \in TaskId
        PROVE  used[k] <= limit[k] /\ limit[k] <= InitialLimit + BudgetAmount * Cardinality(Budgets(k))
    <3>1. used[k] = 0 /\ limit[k] = 0
      BY DEF Init
    <3>2. Cardinality(Budgets(k)) \in Nat
      BY BudgetsFinite, FS_CardinalityType
    <3>3. BudgetAmount * Cardinality(Budgets(k)) \in Nat
      BY <3>2, ParametersAssumption
    <3> QED  BY <3>1, <3>3, ParametersAssumption
  <2> QED  BY <2>1 DEF LimitOK
<1> QED  BY <1>1, <1>2, <1>3, <1>4 DEF PInv

LEMMA StepsHonest ==
    ASSUME PInv, [Next]_vars PROVE Honest /\ (~StorageFaults => WakesRightly)
<1>1. ASSUME NEW m \in Kinds, Receive(m) PROVE Faithful
  BY <1>1, ReceiveFaithful
<1>2. CASE Ingest
  BY <1>2, CommitFaithful, AdmitFaithful DEF Ingest, Faithful
<1>3. CASE Work
  <2>1. ASSUME NEW t \in TurnId,
               \/ ClaimInput(t) \/ ClaimLapsed(t) \/ ClaimControl(t)
               \/ ClaimConfirm(t) \/ ClaimNew(t) \/ ClaimManage(t)
        PROVE  Faithful
    BY <2>1, ClaimInputFaithful, ClaimLapsedFaithful, ClaimControlFaithful,
       ClaimConfirmFaithful, ClaimNewFaithful, ClaimManageFaithful
  <2>2. CASE FinishManage \/ BeginRefused \/ BeginExhausted \/ BeginUpload \/ BeginRun
    BY <2>2, QuietEnds, BeginExhaustedFaithful, BeginUploadFaithful, BeginRunFaithful
       DEF Faithful
  <2>3. CASE ModelCall \/ RequestPermission \/ RunEnds
    BY <2>3, ModelCallFaithful, RequestPermissionFaithful, RunEndsFaithful DEF Faithful
  <2>4. ASSUME NEW d \in {"waiting", "continue", "malformed"}, Outcome(d) PROVE Faithful
    BY <2>4, OutcomeFaithful
  <2>5. CASE \/ ApplyForCompletion \/ ReviewFails \/ Complete
             \/ \E d \in Decisions : ReviewReturns(d)
    BY <2>5, ApplyFaithful, ReviewFaithful, CompleteFaithful DEF Faithful
  <2>6. CASE TurnFails
    BY <2>6, TurnFailsHonest
  <2> QED  BY <1>3, <2>1, <2>2, <2>3, <2>4, <2>5, <2>6 DEF Work, Faithful
<1>4. CASE IdleTimeout \/ RequestExpires \/ Restart
  BY <1>4, TimeFaithful, RestartFaithful DEF Faithful
<1>5. CASE UNCHANGED vars
  BY <1>5, NothingFaithful DEF vars, workVars, Faithful
<1> QED  BY <1>1, <1>2, <1>3, <1>4, <1>5 DEF Next, Faithful

\* The stronger invariant holds of every behaviour.
THEOREM PromisesInvariance == Spec => []PInv
<1>1. ASSUME PInv, [Next]_vars, IInv' PROVE PInv'
  BY <1>1, StepsHonest DEF Honest, Keeps, PInv
<1> QED  BY Invariance, PInitially, <1>1, PTL DEF Spec

\* A task that waits for the user or is finished has told the user so in a reply that saw
\* the newest input, and what is finished has passed its review.
THEOREM AnswersNewest == Spec => []AnsweredNewestInput
<1>1. PInv => AnsweredNewestInput
  BY DEF PInv
<1> QED  BY PromisesInvariance, <1>1, PTL

\* However often a budget message is applied, at ingress and again when its turn runs, model
\* calls stay within the initial limit and what each message granted once.
THEOREM WithinBudget == Spec => []BudgetHonoured
<1>1. PInv => BudgetHonoured
  <2> SUFFICES ASSUME PInv, NEW k \in TaskId
               PROVE  used[k] <= InitialLimit + BudgetAmount * Cardinality(Budgets(k))
    BY DEF BudgetHonoured, Budgets
  <2>1. Cardinality(Budgets(k)) \in Nat
    BY BudgetsFinite, FS_CardinalityType
  <2>2. /\ used[k] <= limit[k]
        /\ limit[k] <= InitialLimit + BudgetAmount * Cardinality(Budgets(k))
        /\ used[k] \in Nat /\ limit[k] \in Nat /\ InitialLimit \in Nat
        /\ BudgetAmount * Cardinality(Budgets(k)) \in Nat
    BY <2>1, TypesOfTasks DEF PInv, LimitOK
  <2> QED  BY <2>2
<1> QED  BY PromisesInvariance, <1>1, PTL

\* A run that was told to stop completes nothing.
THEOREM StopsCount == Spec => StoppedNeverCompletes
<1>1. PInv /\ [Next]_vars => [StopCounts]_vars
  BY StepsHonest DEF Honest
<1>2. StopCounts <=> \A k \in TaskId :
                        status[k] # "COMPLETED" /\ status'[k] = "COMPLETED" => ~aborted
  BY DEF StopCounts
<1> QED  BY PromisesInvariance, <1>1, <1>2, PTL DEF Spec, StoppedNeverCompletes

\* A reply goes out only with the status it announces, and not past newer input.
THEOREM PublishesOnlyCurrent == Spec => PublishedIsCurrent
<1>1. PInv /\ [Next]_vars => [PublishesCurrent]_vars
  BY StepsHonest DEF Honest
<1> QED  BY PromisesInvariance, <1>1, PTL DEF Spec, PublishedIsCurrent, PublishesCurrent

\* Without failing storage, only what the user sends wakes a paused task.
THEOREM StaysPaused == ASSUME ~StorageFaults PROVE Spec => PausedStays
<1>1. PInv /\ [Next]_vars => [WakesRightly]_vars
  BY StepsHonest
<1> QED  BY PromisesInvariance, <1>1, PTL DEF Spec, PausedStays, WakesRightly

\* Tasks of the service live as the domain model's table says, and only one at a time.
THEOREM LivesByTheTable == Spec => RefinesLifecycle
<1>1. Init => Lifecycle!Init
  BY DEF Init, Lifecycle!Init, Lifecycle!TaskId, TaskId
<1>2. PInv /\ [Next]_vars => [Lifecycle!Next]_(Lifecycle!vars)
  BY StepsHonest DEF Honest, LifeStep
<1> QED  BY PromisesInvariance, <1>1, <1>2, PTL DEF Spec, RefinesLifecycle, Lifecycle!Spec

-----------------------------------------------------------------------------
(* What a "/new" separates.                                                 *)

\* Rows are numbered as they come, in conversations there have been; those of a batch that
\* is being stored are the latest.
OrderOK ==
    /\ \A t \in TurnId : IF t <= turns THEN at[t] <= t /\ tsess[t] <= sess ELSE kind[t] = "none"
    /\ phase = "insert" => \A t \in TurnId : t <= turns => at[t] <= bNext

\* A "/new" has no task, and as long as it is in the live conversation it waits.
NewOK ==
    /\ \A n \in TurnId : kind[n] = "new" =>
           ttask[n] = NoTask /\ (live /\ tsess[n] = sess => tstat[n] = "QUEUED")
    /\ pc # "idle" => kind[cur] # "new"
    /\ contTurn # NoTurn => kind[contTurn] \in InternalKinds

SInv == PInv /\ OrderOK /\ NewOK /\ NewSeparates

\* The input of t came in a batch after that of a "/new" of its conversation.
Behind(t) ==
    /\ kind[t] \in InputKinds
    /\ \E n \in TurnId : kind[n] = "new" /\ at[n] < at[t] /\ tsess[n] = tsess[t]

LEMMA RowFacts ==
    ASSUME SInv
    PROVE  /\ turns \in Nat /\ turns <= MaxTurns /\ MaxTurns \in Nat /\ sess \in Nat
           /\ TurnId = 1..MaxTurns
           /\ \A t \in TurnId : t \in Nat /\ at[t] \in Nat /\ tsess[t] \in Nat
           /\ tstat \in TurnStatuses
BY BoundsAssumption DEF SInv, PInv, IInv, TypeOK, RowTypeOK, SessionTypeOK, TurnId, TurnStatuses

\* Rows stay where they are, but that queued ones with a task may be dropped, and a new one
\* is an internal request of the live conversation.
InOrder(base) ==
    /\ turns' \in Nat /\ turns <= turns'
    /\ \A t \in TurnId :
          /\ t <= turns =>
                /\ kind'[t] = kind[t] /\ at'[t] = at[t] /\ tsess'[t] = tsess[t]
                /\ tstat'[t] \in {base[t], "CANCELLED"}
                /\ kind[t] = "new" => ttask'[t] = ttask[t] /\ tstat'[t] = base[t]
          /\ t > turns /\ t <= turns' =>
                kind'[t] \in InternalKinds /\ at'[t] <= t /\ tsess'[t] <= sess
          /\ t > turns' => kind'[t] = "none"

LEMMA StepSeparates ==
    ASSUME SInv, PInv', NEW base, InOrder(base), sess' = sess, live' => live,
           phase' # "insert",
           \A t \in TurnId : t <= turns /\ base[t] # tstat[t] => kind[t] # "new" /\ ~Behind(t),
           pc' # "idle" => kind'[cur'] # "new",
           contTurn' # NoTurn => kind'[contTurn'] \in InternalKinds
    PROVE  SInv'
<1>1. \A t \in TurnId : kind'[t] \in InputKinds \cup {"new"} =>
          /\ t <= turns /\ kind[t] = kind'[t] /\ at'[t] = at[t] /\ tsess'[t] = tsess[t]
  BY RowFacts DEF InOrder, InternalKinds, InputKinds
<1>2. OrderOK'
  BY RowFacts DEF SInv, OrderOK, InOrder
<1>3. NewOK'
  <2>1. ASSUME NEW n \in TurnId, kind'[n] = "new"
        PROVE  ttask'[n] = NoTask /\ (live' /\ tsess'[n] = sess' => tstat'[n] = "QUEUED")
    <3>1. /\ n <= turns /\ kind[n] = "new" /\ tsess'[n] = tsess[n]
          /\ ttask'[n] = ttask[n] /\ tstat'[n] = base[n]
      BY <1>1, <2>1 DEF InOrder
    <3>2. base[n] = tstat[n]
      BY <3>1
    <3> QED  BY <3>1, <3>2 DEF SInv, NewOK
  <2> QED  BY <2>1 DEF NewOK
<1>4. NewSeparates'
  <2> SUFFICES ASSUME NEW n \in TurnId, NEW t \in TurnId, at'[n] < at'[t], kind'[n] = "new",
                      kind'[t] \in InputKinds, tsess'[n] = tsess'[t]
               PROVE  tstat'[t] \in {"QUEUED", "CANCELLED"}
    BY DEF NewSeparates
  <2>1. /\ at[n] < at[t] /\ kind[n] = "new" /\ kind[t] \in InputKinds /\ tsess[n] = tsess[t]
        /\ t <= turns
    BY <1>1
  <2>2. Behind(t) /\ tstat[t] \in {"QUEUED", "CANCELLED"}
    BY <2>1 DEF Behind, SInv, NewSeparates
  <2>3. base[t] = tstat[t] /\ tstat'[t] \in {base[t], "CANCELLED"}
    BY <2>1, <2>2 DEF InOrder
  <2> QED  BY <2>2, <2>3
<1> QED  BY <1>2, <1>3, <1>4 DEF SInv

LEMMA RowsStayInOrder ==
    ASSUME SInv, NEW base, tstat' = base, UNCHANGED rowVars PROVE InOrder(base)
BY RowFacts DEF InOrder, rowVars, SInv, OrderOK

LEMMA EnqueueInOrder ==
    ASSUME SInv, NEW k \in TaskId, IsOpen(k), NEW src \in InternalKinds,
           NEW base \in TurnStatuses, Enqueue(k, src, base)
    PROVE  InOrder(base)
<1>1. conv[k] = sess
  BY DEF SInv, PInv, IInv, OneOpenTask
<1>2. /\ turns' = turns + 1 /\ turns + 1 \in TurnId
      /\ kind' = [kind EXCEPT ![turns + 1] = src]
      /\ tstat' = [base EXCEPT ![turns + 1] = "QUEUED"]
      /\ at' = [at EXCEPT ![turns + 1] = turns + 1]
      /\ tsess' = [tsess EXCEPT ![turns + 1] = sess]
      /\ ttask' = [ttask EXCEPT ![turns + 1] = k]
  BY <1>1, RowFacts DEF Enqueue, InsertTurn
<1>3. /\ kind \in [TurnId -> TurnKinds \cup {"none"}] /\ at \in [TurnId -> 0..MaxTurns]
      /\ tsess \in [TurnId -> 0..MaxSessions] /\ ttask \in [TurnId -> 0..MaxTasks]
  BY DEF SInv, PInv, IInv, TypeOK, RowTypeOK
<1>4. \A t \in TurnId : t # turns + 1 =>
          /\ kind'[t] = kind[t] /\ at'[t] = at[t] /\ tsess'[t] = tsess[t]
          /\ tstat'[t] = base[t] /\ ttask'[t] = ttask[t]
  BY <1>2, <1>3 DEF TurnStatuses
<1>5. kind'[turns + 1] = src /\ at'[turns + 1] = turns + 1 /\ tsess'[turns + 1] = sess
  BY <1>2, <1>3
<1> QED  BY <1>2, <1>4, <1>5, RowFacts DEF InOrder, SInv, OrderOK

LEMMA ControlInOrder ==
    ASSUME SInv, NEW t \in TurnId, NEW base \in TurnStatuses, Control(t, base)
    PROVE  InOrder(base)
<1>1. CASE receipt[t] # NoReceipt \/ Open(tsess[t]) = {}
  BY <1>1, RowsStayInOrder DEF Control
<1>2. CASE receipt[t] = NoReceipt /\ Open(tsess[t]) # {}
  <2>1. PICK k \in Open(tsess[t]) :
            IF kind[t] \in {"resume", "budget"} THEN Resume(t, k, base) ELSE Halt(t, k, base)
    BY <1>2 DEF Control
  <2>2. k \in TaskId /\ IsOpen(k) /\ k # NoTask
    BY BoundsAssumption DEF Open, TaskId, NoTask
  <2>3. CASE Halt(t, k, base)
    <3>1. /\ \A u \in TurnId : /\ tstat'[u] \in {base[u], "CANCELLED"}
                               /\ ttask[u] = NoTask => tstat'[u] = base[u]
          /\ UNCHANGED rowVars
      BY <2>2, <2>3 DEF Halt, DropQueued
    <3> QED  BY <3>1, RowFacts DEF InOrder, rowVars, SInv, OrderOK, NewOK
  <2>4. CASE Resume(t, k, base)
    <3>1. CASE status[k] = "PAUSED"
      BY <2>2, <2>4, <3>1, EnqueueInOrder DEF Resume, InternalKinds
    <3>2. CASE status[k] # "PAUSED"
      BY <2>4, <3>2, RowsStayInOrder DEF Resume
    <3> QED  BY <3>1, <3>2
  <2> QED  BY <2>1, <2>3, <2>4
<1> QED  BY <1>1, <1>2

\* Kinds of rows there are do not change.
LEMMA KindsInOrder ==
    ASSUME SInv, NEW base, InOrder(base)
    PROVE  /\ pc # "idle" => kind'[cur] # "new"
           /\ contTurn # NoTurn => kind'[contTurn] \in InternalKinds
<1>1. pc # "idle" => cur \in TurnId /\ cur <= turns
  BY DEF SInv, PInv, IInv, WorkerOK
<1>2. contTurn # NoTurn => contTurn \in TurnId /\ contTurn <= turns
  BY RowFacts DEF SInv, OrderOK, NewOK, PInv, IInv, TypeOK, PermissionTypeOK, NoTurn, InternalKinds
<1> QED  BY <1>1, <1>2 DEF InOrder, SInv, NewOK

LEMMA ReceiveSeparates == ASSUME SInv, PInv', NEW m \in Kinds, Receive(m) PROVE SInv'
<1> DEFINE s == IF live THEN sess ELSE sess + 1
           first == IF phase = "idle" THEN turns + 1 ELSE bNext
           binds == m \in InputKinds /\ ~PendingNew(s)
           bound == IF binds THEN Binding(s) ELSE [task |-> NoTask, rev |-> 0]
<1>1. /\ phase \in {"idle", "insert"} /\ sess' = s /\ live' = TRUE
      /\ InsertTurn(m, s, bound.task, bound.rev, first, tstat)
      /\ phase' = "insert" /\ bNext' = first
      /\ UNCHANGED <<permVars, workVars>>
  BY DEF Receive
<1>2. m = "new" => bound.task = NoTask
  BY DEF InputKinds
<1> HIDE DEF s, binds, bound, first
<1>3. s \in Nat /\ sess <= s /\ (live => s = sess) /\ (~live => s = sess + 1)
  BY RowFacts DEF s
<1>4. first \in Nat /\ first <= turns + 1 /\ \A t \in TurnId : t <= turns => at[t] <= first
  <2>1. phase # "idle" => bNext \in 1..bLast /\ bLast \in 1..turns
    BY DEF SInv, PInv, IInv, BatchOK
  <2>2. CASE phase = "idle"
    BY <2>2, RowFacts DEF first, SInv, OrderOK
  <2>3. CASE phase = "insert"
    BY <2>1, <2>3, RowFacts DEF first, SInv, OrderOK
  <2> QED  BY <1>1, <2>2, <2>3
<1>5. /\ kind \in [TurnId -> TurnKinds \cup {"none"}] /\ at \in [TurnId -> 0..MaxTurns]
      /\ tsess \in [TurnId -> 0..MaxSessions] /\ ttask \in [TurnId -> 0..MaxTasks]
  BY DEF SInv, PInv, IInv, TypeOK, RowTypeOK
<1>6. /\ turns' = turns + 1 /\ turns + 1 \in TurnId
      /\ kind'[turns + 1] = m /\ tstat'[turns + 1] = "QUEUED" /\ at'[turns + 1] = first
      /\ tsess'[turns + 1] = s /\ (m = "new" => ttask'[turns + 1] = NoTask)
  BY <1>1, <1>2, <1>5, RowFacts DEF InsertTurn, TurnStatuses
<1>7. \A t \in TurnId : t # turns + 1 =>
          /\ kind'[t] = kind[t] /\ at'[t] = at[t] /\ tsess'[t] = tsess[t]
          /\ tstat'[t] = tstat[t] /\ ttask'[t] = ttask[t]
  BY <1>1, <1>5, RowFacts DEF InsertTurn, TurnStatuses
<1>8. OrderOK'
  <2>1. ASSUME NEW t \in TurnId
        PROVE  IF t <= turns' THEN at'[t] <= t /\ at'[t] <= first /\ tsess'[t] <= s
                              ELSE kind'[t] = "none"
    <3>1. CASE t = turns + 1
      BY <1>3, <1>4, <1>6, <3>1, RowFacts
    <3>2. CASE t # turns + 1
      BY <1>3, <1>4, <1>6, <1>7, <3>2, RowFacts DEF SInv, OrderOK
    <3> QED  BY <3>1, <3>2
  <2> QED  BY <1>1, <2>1 DEF OrderOK
<1>9. NewOK'
  <2>1. ASSUME NEW n \in TurnId, kind'[n] = "new"
        PROVE  ttask'[n] = NoTask /\ (tsess'[n] = s => tstat'[n] = "QUEUED")
    <3>1. CASE n = turns + 1
      BY <1>6, <2>1, <3>1
    <3>2. CASE n # turns + 1
      <4>1. n <= turns /\ kind[n] = "new" /\ tsess[n] <= sess
        BY <1>7, <2>1, <3>2, RowFacts DEF SInv, OrderOK
      <4> QED  BY <1>3, <1>7, <3>2, <4>1, RowFacts DEF SInv, NewOK
    <3> QED  BY <3>1, <3>2
  <2>2. pc' # "idle" => kind'[cur'] # "new"
    <3>1. pc # "idle" => cur \in TurnId /\ cur # turns + 1
      BY RowFacts DEF SInv, PInv, IInv, WorkerOK
    <3> QED  BY <1>1, <1>7, <3>1 DEF SInv, NewOK, workVars
  <2>3. contTurn' # NoTurn => kind'[contTurn'] \in InternalKinds
    <3>1. contTurn # NoTurn => contTurn \in TurnId /\ contTurn # turns + 1
      BY <1>6, RowFacts DEF SInv, OrderOK, NewOK, PInv, IInv, TypeOK, PermissionTypeOK, NoTurn,
                            InternalKinds
    <3> QED  BY <1>1, <1>7, <3>1 DEF SInv, NewOK, permVars
  <2> QED  BY <1>1, <2>1, <2>2, <2>3 DEF NewOK
<1>10. NewSeparates'
  <2> SUFFICES ASSUME NEW n \in TurnId, NEW t \in TurnId, at'[n] < at'[t], kind'[n] = "new",
                      kind'[t] \in InputKinds, tsess'[n] = tsess'[t]
               PROVE  tstat'[t] \in {"QUEUED", "CANCELLED"}
    BY DEF NewSeparates
  <2>1. CASE t = turns + 1
    BY <1>6, <2>1
  <2>2. CASE t # turns + 1 /\ n = turns + 1
    <3>1. t <= turns
      BY <1>7, <2>2, RowFacts DEF SInv, OrderOK, InputKinds
    <3>2. at'[t] <= first /\ at'[n] = first /\ at'[t] \in Nat
      BY <1>4, <1>6, <1>7, <2>2, <3>1, RowFacts
    <3> QED  BY <1>4, <3>2
  <2>3. CASE t # turns + 1 /\ n # turns + 1
    BY <1>7, <2>3 DEF SInv, NewSeparates
  <2> QED  BY <2>1, <2>2, <2>3
<1> QED  BY <1>8, <1>9, <1>10 DEF SInv

\* A step that leaves the rows alone, but for the status of those that are no "/new" and
\* not behind one.
LEMMA StatusSeparates ==
    ASSUME SInv, PInv', UNCHANGED <<rowVars, sessVars, phase>>, phase # "insert",
           \A t \in TurnId : tstat'[t] # tstat[t] => kind[t] # "new" /\ ~Behind(t),
           pc' # "idle" => (pc # "idle" /\ cur' = cur) \/ kind[cur'] # "new",
           contTurn' = contTurn
    PROVE  SInv'
<1>1. InOrder(tstat')
  BY RowsStayInOrder
<1>2. pc' # "idle" => kind'[cur'] # "new"
  BY DEF rowVars, SInv, NewOK
<1>3. contTurn' # NoTurn => kind'[contTurn'] \in InternalKinds
  BY DEF rowVars, SInv, NewOK
<1> QED  BY <1>1, <1>2, <1>3, StepSeparates DEF sessVars

\* A step of the poll loop, or of time.
LEMMA PollSeparates ==
    ASSUME SInv, PInv', InOrder(tstat), sess' = sess, live' => live, phase' # "insert",
           UNCHANGED <<pc, cur, contTurn>>
    PROVE  SInv'
BY StepSeparates, KindsInOrder

LEMMA CommitSeparates == ASSUME SInv, PInv', Commit PROVE SInv'
<1>1. InOrder(tstat)
  BY RowsStayInOrder DEF Commit
<1> QED  BY <1>1, PollSeparates DEF Commit, sessVars, workVars, permVars

LEMMA AdmitSeparates == ASSUME SInv, PInv', Admit PROVE SInv'
<1>1. phase = "control" /\ AdmitNext
  BY DEF Admit, AdmitInput, AdmitControl, AdmitNew, AdmitConfirm, AdmitRevoke, Admitting
<1>2. bNext \in TurnId
  BY <1>1, RowFacts DEF SInv, PInv, IInv, BatchOK
<1>3. Control(bNext, tstat) \/ (tstat' = tstat /\ UNCHANGED rowVars)
  BY DEF Admit, AdmitInput, AdmitControl, AdmitNew, AdmitConfirm, AdmitRevoke
<1>4. InOrder(tstat)
  BY <1>2, <1>3, RowFacts, ControlInOrder, RowsStayInOrder
<1> QED  BY <1>1, <1>4, PollSeparates DEF AdmitNext, sessVars

LEMMA TimeSeparates == ASSUME SInv, PInv', IdleTimeout \/ RequestExpires PROVE SInv'
<1>1. tstat' = tstat /\ UNCHANGED rowVars /\ phase = "idle" /\ phase' = phase
      /\ sess' = sess /\ (live' => live) /\ UNCHANGED <<pc, cur, contTurn>>
  BY DEF IdleTimeout, RequestExpires, RevokeSession, sessVars, workVars, pollVars
<1> QED  BY <1>1, RowsStayInOrder, PollSeparates

\* A turn is claimed before those that came after it.
LEMMA ClaimedFirst ==
    ASSUME SInv, NEW t \in TurnId, Idle, Claimable(t) PROVE ~Behind(t)
<1> SUFFICES ASSUME NEW n \in TurnId, kind[n] = "new", at[n] < at[t], tsess[n] = tsess[t]
             PROVE  FALSE
  BY DEF Behind
<1>1. live /\ tsess[t] = sess
  BY ClaimedRow DEF SInv, PInv
<1>2. tstat[n] = "QUEUED"
  BY <1>1 DEF SInv, NewOK
<1>3. n \in Candidates
  BY <1>2 DEF Claimable, Candidates
<1>4. at[t] <= at[n]
  BY <1>3 DEF Claimable
<1> QED  BY <1>4, RowFacts

LEMMA ClaimedOther ==
    ASSUME SInv, NEW t \in TurnId, NEW st
    PROVE  \A u \in TurnId : [tstat EXCEPT ![t] = st][u] # tstat[u] => u = t
BY RowFacts DEF TurnStatuses

LEMMA ClaimLapsedSeparates == ASSUME SInv, PInv', NEW t \in TurnId, ClaimLapsed(t) PROVE SInv'
<1>1. /\ ~Behind(t) /\ kind[t] # "new" /\ phase = "idle"
  BY ClaimedFirst DEF ClaimLapsed, SInv, NewOK, InternalKinds, Idle, TurnId, NoTurn
<1>2. \A u \in TurnId : tstat'[u] # tstat[u] => kind[u] # "new" /\ ~Behind(u)
  BY <1>1, ClaimedOther DEF ClaimLapsed
<1> QED  BY <1>1, <1>2, StatusSeparates DEF ClaimLapsed, permVars, workVars, pollVars

LEMMA ClaimManageSeparates == ASSUME SInv, PInv', NEW t \in TurnId, ClaimManage(t) PROVE SInv'
<1>1. /\ ~Behind(t) /\ kind[t] # "new" /\ phase = "idle"
  BY ClaimedFirst DEF ClaimManage, Idle
<1>2. \A u \in TurnId : tstat'[u] # tstat[u] => kind[u] # "new" /\ ~Behind(u)
  BY <1>1, ClaimedOther DEF ClaimManage
<1> QED  BY <1>1, <1>2, StatusSeparates DEF ClaimManage, permVars, workVars, pollVars

LEMMA ClaimControlSeparates == ASSUME SInv, PInv', NEW t \in TurnId, ClaimControl(t) PROVE SInv'
<1> DEFINE base == [tstat EXCEPT ![t] = "REPLY_PENDING"]
<1>1. /\ ~Behind(t) /\ kind[t] # "new" /\ phase = "idle"
  BY ClaimedFirst DEF ClaimControl, Idle, ControlKinds
<1>2. \A u \in TurnId : base[u] # tstat[u] => kind[u] # "new" /\ ~Behind(u)
  BY <1>1, ClaimedOther
<1>3. base \in TurnStatuses
  BY RowFacts DEF TurnStatuses, TurnStatus
<1>4. Control(t, base) \/ (tstat' = base /\ UNCHANGED rowVars)
  BY DEF ClaimControl
<1> HIDE DEF base
<1>5. InOrder(base)
  BY <1>3, <1>4, ControlInOrder, RowsStayInOrder
<1>6. UNCHANGED <<sess, live, phase, pc, cur, contTurn>>
  BY DEF ClaimControl, sessVars, workVars, pollVars, permVars
<1>7. /\ pc' # "idle" => kind'[cur'] # "new"
      /\ contTurn' # NoTurn => kind'[contTurn'] \in InternalKinds
  BY <1>5, <1>6, KindsInOrder
<1> QED  BY <1>1, <1>2, <1>5, <1>6, <1>7, StepSeparates

LEMMA ClaimConfirmSeparates == ASSUME SInv, PInv', NEW t \in TurnId, ClaimConfirm(t) PROVE SInv'
<1> DEFINE base == [tstat EXCEPT ![t] = "REPLY_PENDING"]
           k == ttask[reqTurn]
<1>1. /\ ~Behind(t) /\ kind[t] # "new" /\ phase = "idle" /\ pc = "idle"
      /\ UNCHANGED <<sess, live, phase, pc, cur>>
  BY ClaimedFirst DEF ClaimConfirm, Idle, sessVars, workVars, pollVars
<1>2. \A u \in TurnId : base[u] # tstat[u] => kind[u] # "new" /\ ~Behind(u)
  BY <1>1, ClaimedOther
<1>3. base \in TurnStatuses
  BY RowFacts DEF TurnStatuses, TurnStatus
<1>4. /\ Wakes(t) => Enqueue(k, "permission_continue", base) /\ contTurn' = turns + 1
      /\ ~Wakes(t) => tstat' = base /\ UNCHANGED <<rowVars, contTurn>>
  BY DEF ClaimConfirm
<1>5. Wakes(t) => k \in TaskId /\ IsOpen(k)
  <2>1. ASSUME Wakes(t) PROVE reqTurn \in TurnId
    BY <2>1, RowFacts DEF Wakes, CanContinue, SInv, PInv, IInv, RequestOK
  <2>2. ASSUME Wakes(t) PROVE k \in 0..MaxTasks /\ MaxTasks \in Nat /\ k # 0
    BY <2>1, <2>2, BoundsAssumption DEF Wakes, NoTask, SInv, PInv, IInv, TypeOK, RowTypeOK
  <2> QED  BY <2>2 DEF Wakes, TaskId, IsOpen, Terminal
<1> HIDE DEF base, k
<1>6. InOrder(base)
  BY <1>3, <1>4, <1>5, EnqueueInOrder, RowsStayInOrder DEF InternalKinds
<1>7. contTurn' # NoTurn => kind'[contTurn'] \in InternalKinds
  <2>1. CASE Wakes(t)
    <3>1. turns' = turns + 1 /\ turns + 1 \in TurnId
      BY <1>4, <2>1, RowFacts DEF Enqueue, InsertTurn
    <3> QED  BY <1>4, <1>6, <2>1, <3>1, RowFacts DEF InOrder
  <2>2. CASE ~Wakes(t)
    BY <1>4, <1>6, <2>2, KindsInOrder
  <2> QED  BY <2>1, <2>2
<1> QED  BY <1>1, <1>2, <1>6, <1>7, StepSeparates

LEMMA ClaimInputSeparates == ASSUME SInv, PInv', NEW t \in TurnId, ClaimInput(t) PROVE SInv'
<1> DEFINE base == [tstat EXCEPT ![t] = "RUNNING"]
<1>1. /\ ~Behind(t) /\ kind[t] # "new" /\ phase = "idle"
      /\ pc' = "claimed" /\ cur' = t /\ tstat' = base
      /\ UNCHANGED <<sess, live, phase, turns, kind, at, tsess, contTurn>>
  BY ClaimedFirst
  DEF ClaimInput, Idle, InputKinds, InternalKinds, sessVars, permVars, pollVars
<1>2. \A u \in TurnId : base[u] # tstat[u] => kind[u] # "new" /\ ~Behind(u)
  BY <1>1, ClaimedOther
<1>3. \A u \in TurnId : u # t => ttask'[u] = ttask[u]
  BY DEF ClaimInput, SInv, PInv, IInv, TypeOK, RowTypeOK
<1> HIDE DEF base
<1>4. InOrder(base)
  BY <1>1, <1>3, RowFacts DEF InOrder, SInv, OrderOK
<1>5. contTurn' # NoTurn => kind'[contTurn'] \in InternalKinds
  BY <1>1 DEF SInv, NewOK
<1> QED  BY <1>1, <1>2, <1>4, <1>5, StepSeparates

\* What is queued behind the "/new" that ends the conversation moves on to the next one.
LEMMA ClaimNewSeparates == ASSUME SInv, PInv', NEW t \in TurnId, ClaimNew(t) PROVE SInv'
<1> DEFINE moved == {u \in TurnId \ {t} : /\ tsess[u] = sess /\ tstat[u] = "QUEUED"
                                          /\ kind[u] \in MessageKinds}
<1>1. live /\ tsess[t] = sess /\ phase = "idle" /\ pc = "idle" /\ kind[t] = "new"
  BY ClaimedRow DEF ClaimNew, SInv, PInv
<1>2. /\ sess' = IF moved = {} THEN sess ELSE sess + 1
      /\ live' = (moved # {})
      /\ tstat' = [u \in TurnId |->
             IF u = t THEN "REPLY_PENDING"
             ELSE IF u \in {v \in TurnId \ {t} : tsess[v] = tsess[t] /\ tstat[v] = "QUEUED"} \ moved
                  THEN "CANCELLED" ELSE tstat[u]]
      /\ tsess' = [u \in TurnId |-> IF u \in moved
                                    THEN (IF moved = {} THEN sess ELSE sess + 1) ELSE tsess[u]]
      /\ ttask' = [u \in TurnId |-> IF u \in moved THEN NoTask ELSE ttask[u]]
      /\ UNCHANGED <<turns, kind, at, phase, pc, cur, contTurn>>
  <2>1. {u \in {v \in TurnId \ {t} : tsess[v] = tsess[t] /\ tstat[v] = "QUEUED"} :
           kind[u] \in MessageKinds} = moved
    BY <1>1
  <2> QED  BY <1>1, <2>1 DEF ClaimNew, InLiveSession, RevokeSession, workVars, pollVars
<1>3. \A u \in moved : /\ u \in TurnId /\ tstat'[u] = "QUEUED" /\ tsess'[u] = sess + 1
                       /\ ttask'[u] = NoTask
  BY <1>2
<1>4. \A u \in TurnId \ moved :
          /\ tsess'[u] = tsess[u] /\ ttask'[u] = ttask[u]
          /\ u # t => tstat'[u] \in {tstat[u], "CANCELLED"}
  BY <1>2
<1>5. sess' \in {sess, sess + 1} /\ (live' => sess' = sess + 1)
      /\ (\A u \in moved : sess' = sess + 1)
  BY <1>2
<1>6. UNCHANGED <<turns, kind, at, phase, pc, cur, contTurn>>
  BY <1>2
<1> HIDE DEF moved
<1>7. \A u \in TurnId : kind[u] # "none" => u <= turns /\ tsess[u] <= sess
  BY RowFacts DEF SInv, OrderOK
<1>8. OrderOK'
  <2>1. ASSUME NEW u \in TurnId, u <= turns PROVE tsess'[u] <= sess'
    <3>1. tsess[u] <= sess /\ tsess[u] \in Nat /\ sess \in Nat
      BY <2>1, RowFacts DEF SInv, OrderOK
    <3>2. CASE u \in moved
      BY <1>3, <1>5, <3>1, <3>2
    <3>3. CASE u \notin moved
      BY <1>4, <1>5, <3>1, <3>3
    <3> QED  BY <3>2, <3>3
  <2> QED  BY <1>1, <1>6, <2>1 DEF SInv, OrderOK
<1>9. NewOK'
  <2>1. ASSUME NEW n \in TurnId, kind[n] = "new"
        PROVE  ttask'[n] = NoTask /\ (live' /\ tsess'[n] = sess' => tstat'[n] = "QUEUED")
    <3>1. CASE n \in moved
      BY <1>3, <3>1
    <3>2. CASE n \notin moved
      BY <1>4, <1>5, <1>7, <2>1, <3>2, RowFacts DEF SInv, NewOK
    <3> QED  BY <3>1, <3>2
  <2> QED  BY <1>1, <1>6, <2>1 DEF SInv, NewOK
<1>10. NewSeparates'
  <2> SUFFICES ASSUME NEW n \in TurnId, NEW u \in TurnId, at[n] < at[u], kind[n] = "new",
                      kind[u] \in InputKinds, tsess'[n] = tsess'[u]
               PROVE  tstat'[u] \in {"QUEUED", "CANCELLED"}
    BY <1>6 DEF NewSeparates
  <2>1. tsess[n] <= sess /\ tsess[u] <= sess /\ u # t
    BY <1>1, <1>7 DEF InputKinds
  <2>2. CASE u \in moved
    BY <1>3, <2>2
  <2>3. CASE u \notin moved
    <3>1. n \notin moved
      BY <1>3, <1>4, <2>1, <2>3, RowFacts
    <3>2. tsess[n] = tsess[u]
      BY <1>4, <2>3, <3>1
    <3>3. tstat[u] \in {"QUEUED", "CANCELLED"}
      BY <3>2 DEF SInv, NewSeparates
    <3> QED  BY <1>4, <2>1, <2>3, <3>3
  <2> QED  BY <2>2, <2>3
<1> QED  BY <1>8, <1>9, <1>10 DEF SInv

LEMMA RestartSeparates == ASSUME SInv, PInv', Restart PROVE SInv'
<1>1. /\ live' = FALSE /\ phase' = "idle" /\ pc' = "idle" /\ sess' = sess
      /\ UNCHANGED <<turns, kind, at, tsess, ttask, contTurn>>
      /\ \A t \in TurnId : tstat'[t] \in {tstat[t], "CANCELLED"}
  BY DEF Restart, Release, RevokeSession, rowVars, permVars
<1>2. OrderOK' /\ NewOK'
  BY <1>1 DEF SInv, OrderOK, NewOK
<1>3. NewSeparates'
  <2> SUFFICES ASSUME NEW n \in TurnId, NEW t \in TurnId, at[n] < at[t], kind[n] = "new",
                      kind[t] \in InputKinds, tsess[n] = tsess[t]
               PROVE  tstat'[t] \in {"QUEUED", "CANCELLED"}
    BY <1>1 DEF NewSeparates
  <2>1. tstat[t] \in {"QUEUED", "CANCELLED"}
    BY DEF SInv, NewSeparates
  <2> QED  BY <1>1, <2>1
<1> QED  BY <1>2, <1>3 DEF SInv

\* The turn at work is no "/new" and not behind one.
LEMMA AtWorkFree ==
    ASSUME SInv, pc # "idle"
    PROVE  cur \in TurnId /\ kind[cur] # "new" /\ ~Behind(cur)
<1>1. cur \in TurnId /\ tstat[cur] = "RUNNING" /\ kind[cur] # "new"
  BY TurnAtWork DEF SInv, NewOK
<1> QED  BY <1>1 DEF SInv, NewSeparates, Behind

\* Steps of the worker at its turn that queue nothing.
LEMMA WorkSeparates ==
    ASSUME SInv, PInv', pc # "idle", phase = "idle", NEW st,
           tstat' = tstat \/ tstat' = [tstat EXCEPT ![cur] = st],
           pc' = "idle" \/ cur' = cur,
           UNCHANGED <<rowVars, sessVars, phase, contTurn>>
    PROVE  SInv'
<1>1. cur \in TurnId /\ kind[cur] # "new" /\ ~Behind(cur)
  BY AtWorkFree
<1>2. \A u \in TurnId : tstat'[u] # tstat[u] => u = cur
  <2>1. \A u \in TurnId : [tstat EXCEPT ![cur] = st][u] # tstat[u] => u = cur
    BY <1>1, ClaimedOther
  <2> QED  BY <2>1
<1> QED  BY <1>1, <1>2, StatusSeparates

LEMMA ReleasingSeparates ==
    ASSUME SInv, PInv',
           FinishManage \/ BeginRefused \/ BeginExhausted \/ BeginUpload \/ TurnFails
    PROVE  SInv'
<1>1. PICK st : tstat' = [tstat EXCEPT ![cur] = st]
  BY DEF FinishManage, BeginRefused, BeginExhausted, BeginUpload, TurnFails, Reply
<1>2. /\ pc # "idle" /\ phase = "idle" /\ pc' = "idle"
      /\ UNCHANGED <<rowVars, sessVars, phase, contTurn>>
  BY DEF FinishManage, BeginRefused, BeginExhausted, BeginUpload, TurnFails, Works, Release,
         pollVars, permVars
<1> QED  BY <1>1, <1>2, WorkSeparates

LEMMA RunningSeparates ==
    ASSUME SInv, PInv',
           \/ BeginRun \/ ModelCall \/ RequestPermission \/ RunEnds
           \/ \E d \in {"waiting", "continue", "malformed"} : Outcome(d)
           \/ ApplyForCompletion \/ ReviewFails \/ \E d \in Decisions : ReviewReturns(d)
    PROVE  SInv'
<1>1. /\ pc # "idle" /\ phase = "idle" /\ tstat' = tstat /\ cur' = cur
      /\ UNCHANGED <<rowVars, sessVars, phase, contTurn>>
  BY DEF BeginRun, ModelCall, RequestPermission, RunEnds, Outcome, ApplyForCompletion,
         ReviewFails, ReviewReturns, Works, pollVars, permVars, workVars
<1> QED  BY <1>1, WorkSeparates

LEMMA CompleteSeparates == ASSUME SInv, PInv', Complete PROVE SInv'
<1> DEFINE st == IF Accepted /\ settlement.publish THEN "REPLY_PENDING" ELSE "SUCCEEDED"
           base == [tstat EXCEPT ![cur] = st]
           continues == Accepted /\ settlement.status = "QUEUED"
<1>1. /\ pc = "settle" /\ phase = "idle" /\ pc' = "idle"
      /\ IF continues THEN Enqueue(Task, "task_continue", base)
                      ELSE tstat' = base /\ UNCHANGED rowVars
      /\ UNCHANGED <<sess, live, phase, contTurn>>
  BY DEF Complete, Works, Release, sessVars, pollVars, permVars
<1>2. cur \in TurnId /\ kind[cur] # "new" /\ ~Behind(cur)
  BY <1>1, AtWorkFree
<1>3. continues => Task \in TaskId /\ IsOpen(Task)
  BY <1>1, RunTask DEF Accepted, Applies, IsOpen, Active, Terminal, RunStates, SInv, PInv
<1>4. base \in TurnStatuses
  BY RowFacts DEF TurnStatuses, TurnStatus
<1>5. \A u \in TurnId : base[u] # tstat[u] => kind[u] # "new" /\ ~Behind(u)
  BY <1>2, ClaimedOther
<1> HIDE DEF base, continues, st
<1>6. InOrder(base)
  BY <1>1, <1>3, <1>4, EnqueueInOrder, RowsStayInOrder DEF InternalKinds
<1> QED  BY <1>1, <1>5, <1>6, KindsInOrder, StepSeparates

LEMMA NothingSeparates == ASSUME SInv, PInv', UNCHANGED vars PROVE SInv'
BY DEF vars, sessVars, rowVars, permVars, workVars, pollVars, SInv, OrderOK, NewOK, NewSeparates

LEMMA InitSeparates == Init => SInv
<1> SUFFICES ASSUME Init PROVE SInv
  OBVIOUS
<1>1. OrderOK /\ NewOK /\ NewSeparates
  BY BoundsAssumption DEF Init, OrderOK, NewOK, NewSeparates, NoTurn, TurnId, InputKinds
<1> QED  BY <1>1, PInitially DEF SInv

\* What is sent in a batch after that of a "/new" is never worked on in the old conversation,
\* however tasks, permissions and restarts reorder the queue.
THEOREM Separates == Spec => []NewSeparates
<1>1. ASSUME SInv, [Next]_vars, PInv' PROVE SInv'
  <2>1. ASSUME NEW m \in Kinds, Receive(m) PROVE SInv'
    BY <1>1, <2>1, ReceiveSeparates
  <2>2. CASE Ingest
    BY <1>1, <2>2, CommitSeparates, AdmitSeparates DEF Ingest
  <2>3. CASE Work
    BY <1>1, <2>3, ClaimInputSeparates, ClaimLapsedSeparates, ClaimControlSeparates,
       ClaimConfirmSeparates, ClaimNewSeparates, ClaimManageSeparates, ReleasingSeparates,
       RunningSeparates, CompleteSeparates
    DEF Work
  <2>4. CASE IdleTimeout \/ RequestExpires
    BY <1>1, <2>4, TimeSeparates
  <2>5. CASE Restart
    BY <1>1, <2>5, RestartSeparates
  <2>6. CASE UNCHANGED vars
    BY <1>1, <2>6, NothingSeparates
  <2> QED  BY <1>1, <2>1, <2>2, <2>3, <2>4, <2>5, <2>6 DEF Next
<1>2. SInv => NewSeparates
  BY DEF SInv
<1> QED  BY InitSeparates, PromisesInvariance, <1>1, <1>2, PTL DEF Spec

-----------------------------------------------------------------------------
(* Who moves the tasks along.                                               *)

\* A turn that takes the task up at its newest revision, and one that is still in the queue.
Serves(t, k) == ttask[t] = k /\ trev[t] = rev[k] /\ Runnable(t)
Pends(t, k) == ttask[t] = k /\ trev[t] = rev[k] /\ tstat[t] = "QUEUED"

\* The worker has the newest input, and its decision is about that.
AtNewest(k) == rev[k] = trev[cur] /\ (pc = "settle" => settlement.rev = rev[k])

QueuedOK ==
    \A k \in TaskId : status[k] = "QUEUED" => (\E t \in TurnId : Serves(t, k)) \/ Stranded(k)
\* When the worker comes back late, the turn of the newer input still waits.
NewerOK ==
    \A k \in TaskId : status[k] \in {"RUNNING", "REVIEWING"} =>
        AtNewest(k) \/ \E t \in TurnId : Pends(t, k)

\* Only inputs and requests of the program have a task, and unused tasks are at revision 0.
PlainOK ==
    /\ \A t \in TurnId : kind[t] \notin InputKinds \cup InternalKinds => ttask[t] = NoTask
    /\ \A k \in TaskId : k > tasks => rev[k] = 0

\* The continuation belongs to the conversation of the turn that was blocked, which is not
\* in the queue any more; its request was approved, and can only be taken back.
ContinuationOK ==
    /\ reqState # "none" => tstat[reqTurn] \notin {"none", "QUEUED"}
    /\ contTurn # NoTurn =>
           /\ contTurn \in 1..turns /\ kind[contTurn] \in InternalKinds
           /\ reqState \in {"approved", "revoked"} /\ tsess[contTurn] = tsess[reqTurn]

Service == QueuedOK /\ NewerOK /\ PlainOK /\ ContinuationOK
VInv == PInv /\ Service

LEMMA TableFacts ==
    ASSUME PInv
    PROVE  /\ turns \in Nat /\ turns <= MaxTurns /\ MaxTurns \in Nat /\ TurnId = 1..MaxTurns
           /\ \A t \in TurnId : t \in Nat /\ t # NoTurn /\ (tstat[t] = "none" <=> t > turns)
           /\ tasks \in Nat /\ \A k \in TaskId : k \in Nat /\ k # NoTask
           /\ kind \in [TurnId -> TurnKinds \cup {"none"}] /\ tstat \in TurnStatuses
           /\ tsess \in [TurnId -> 0..MaxSessions] /\ ttask \in [TurnId -> 0..MaxTasks]
           /\ trev \in [TurnId -> Nat]
           /\ status \in [TaskId -> TaskStatus \cup {"none"}] /\ rev \in [TaskId -> Nat]
           /\ pc # "idle" => cur \in TurnId /\ tstat[cur] = "RUNNING"
           /\ reqState # "none" => reqTurn \in TurnId /\ reqTurn <= turns
<1>1. /\ turns \in Nat /\ turns <= MaxTurns /\ MaxTurns \in Nat /\ TurnId = 1..MaxTurns
      /\ tasks \in Nat /\ \A k \in TaskId : k \in Nat /\ k # NoTask
      /\ \A t \in TurnId : t \in Nat /\ t # NoTurn
  BY BoundsAssumption
  DEF PInv, IInv, TypeOK, RowTypeOK, TaskTypeOK, TurnId, TaskId, NoTurn, NoTask
<1>2. /\ kind \in [TurnId -> TurnKinds \cup {"none"}] /\ tstat \in TurnStatuses
      /\ tsess \in [TurnId -> 0..MaxSessions] /\ ttask \in [TurnId -> 0..MaxTasks]
      /\ trev \in [TurnId -> Nat]
      /\ status \in [TaskId -> TaskStatus \cup {"none"}] /\ rev \in [TaskId -> Nat]
  BY DEF PInv, IInv, TypeOK, RowTypeOK, TaskTypeOK, TurnStatuses
<1>3. /\ \A t \in TurnId : tstat[t] = "none" <=> t > turns
      /\ pc # "idle" => cur \in TurnId /\ tstat[cur] = "RUNNING"
      /\ reqState # "none" => reqTurn \in TurnId /\ reqTurn <= turns
  BY <1>1 DEF PInv, RunOK, IInv, QueueOK, WorkerOK, RequestOK
<1> QED  BY <1>1, <1>2, <1>3

\* Where one task is open, no other one is to be worked on.
LEMMA OthersDone ==
    ASSUME PInv, NEW k \in TaskId, IsOpen(k)
    PROVE  /\ live /\ conv[k] = sess
           /\ \A j \in TaskId : j # k => status[j] \notin {"QUEUED", "RUNNING", "REVIEWING"}
BY DEF PInv, IInv, OneOpenTask, IsOpen, Terminal

\* Nobody runs, and nothing is to be reviewed, outside the stages of a run.
LEMMA RestsOutside ==
    ASSUME PInv, pc \notin RunStates
    PROVE  NewerOK /\ \A k \in TaskId : status[k] \notin {"RUNNING", "REVIEWING"}
BY DEF PInv, IInv, ActiveHasDriver, InFlight, RunStates, Active, NewerOK

\* What was answered or has failed stays so, and so does a permission that was taken back.
Lasting ==
    /\ contTurn' = contTurn
    /\ reqState = "revoked" => reqState' = "revoked"
    /\ \A t \in TurnId : tstat[t] \in {"FAILED", "REPLY_PENDING"} =>
           tstat'[t] = tstat[t] /\ ttask'[t] = ttask[t] /\ trev'[t] = trev[t]

LEMMA StrandedStays ==
    ASSUME VInv, Lasting, NEW k \in TaskId, Stranded(k), rev'[k] = rev[k]
    PROVE  Stranded(k)'
<1>1. contTurn # NoTurn => contTurn \in TurnId
  BY TableFacts DEF VInv, Service, ContinuationOK
<1>2. CASE \E t \in TurnId : ttask[t] = k /\ trev[t] # rev[k] /\ tstat[t] = "FAILED"
  <2>1. PICK t \in TurnId : ttask[t] = k /\ trev[t] # rev[k] /\ tstat[t] = "FAILED"
    BY <1>2
  <2>2. ttask'[t] = k /\ trev'[t] # rev'[k] /\ tstat'[t] = "FAILED"
    BY <2>1 DEF Lasting
  <2> QED  BY <2>2 DEF Stranded
<1>3. CASE ~ \E t \in TurnId : ttask[t] = k /\ trev[t] # rev[k] /\ tstat[t] = "FAILED"
  BY <1>1, <1>3 DEF Stranded, Lasting
<1> QED  BY <1>2, <1>3

\* Queued tasks stay served if the turns that serve them stay.
LEMMA QueueServed ==
    ASSUME VInv, Lasting,
           \A k \in TaskId : status'[k] = "QUEUED" =>
               \/ /\ status[k] = "QUEUED" /\ rev'[k] = rev[k]
                  /\ \A t \in TurnId : Serves(t, k) => Serves(t, k)' \/ Stranded(k)'
               \/ \E t \in TurnId : Serves(t, k)'
    PROVE  QueuedOK'
BY StrandedStays DEF QueuedOK, VInv, Service

\* The same of tasks at work.
LEMMA NewerWaits ==
    ASSUME VInv,
           \A k \in TaskId : status'[k] \in {"RUNNING", "REVIEWING"} =>
               /\ status[k] \in {"RUNNING", "REVIEWING"}
               /\ \/ rev'[k] = rev[k] /\ \A t \in TurnId : Pends(t, k) => Pends(t, k)'
                  \/ \E t \in TurnId : Pends(t, k)',
           pc' \in RunStates => trev'[cur'] = trev[cur] /\ UNCHANGED <<pc, settlement>>,
           PInv'
    PROVE  NewerOK'
<1>1. CASE pc' \notin RunStates
  BY <1>1 DEF PInv, IInv, ActiveHasDriver, InFlight, RunStates, Active, NewerOK
<1>2. CASE pc' \in RunStates
  BY <1>2 DEF NewerOK, AtNewest, VInv, Service
<1> QED  BY <1>1, <1>2

\* Rows keep what they are, leave the queue for good, and new ones are the program's.
RowsGrow ==
    /\ turns' \in Nat /\ turns <= turns'
    /\ \A t \in TurnId :
          /\ t <= turns => /\ kind'[t] = kind[t] /\ tsess'[t] = tsess[t]
                           /\ ttask'[t] = ttask[t] /\ trev'[t] = trev[t]
                           /\ tstat[t] # "QUEUED" => tstat'[t] # "QUEUED"
                           /\ tstat'[t] # "none"
          /\ t > turns => ttask'[t] = ttask[t] \/ kind'[t] \in InternalKinds
          /\ t > turns => kind'[t] = kind[t] \/ kind'[t] \in InternalKinds

LEMMA SameRowsGrow ==
    ASSUME PInv, UNCHANGED rowVars,
           \A t \in TurnId : tstat'[t] # tstat[t] =>
               tstat[t] # "none" /\ tstat'[t] \notin {"none", "QUEUED"}
    PROVE  RowsGrow
BY TableFacts DEF RowsGrow, rowVars

LEMMA RowsServe ==
    ASSUME VInv, RowsGrow, tasks' = tasks, rev' = rev, UNCHANGED <<contTurn, reqTurn>>,
           reqState' = reqState \/ (reqState # "none" /\ reqState' = "revoked")
               \/ (reqState = "pending" /\ reqState' = "approved")
    PROVE  PlainOK' /\ ContinuationOK'
<1>1. PlainOK'
  <2>1. ASSUME NEW t \in TurnId, kind'[t] \notin InputKinds \cup InternalKinds
        PROVE  ttask'[t] = NoTask
    BY <2>1, TableFacts DEF VInv, Service, PlainOK, RowsGrow
  <2> QED  BY <2>1 DEF VInv, Service, PlainOK
<1>2. reqState' # "none" => tstat'[reqTurn'] \notin {"none", "QUEUED"}
  BY TableFacts DEF VInv, Service, ContinuationOK, RowsGrow
<1>3. contTurn # NoTurn =>
          /\ contTurn \in TurnId /\ contTurn <= turns /\ contTurn \in 1..turns'
          /\ reqTurn \in TurnId /\ reqTurn <= turns
          /\ kind[contTurn] \in InternalKinds
          /\ reqState \in {"approved", "revoked"} /\ tsess[contTurn] = tsess[reqTurn]
  BY TableFacts DEF VInv, Service, ContinuationOK, RowsGrow
<1>4. ContinuationOK'
  BY <1>2, <1>3 DEF RowsGrow, ContinuationOK
<1> QED  BY <1>1, <1>4

\* A request that is queued serves its task.
LEMMA EnqueueServes ==
    ASSUME PInv, NEW k \in TaskId, NEW src \in InternalKinds, NEW base \in TurnStatuses,
           Enqueue(k, src, base)
    PROVE  /\ turns' = turns + 1 /\ turns + 1 \in TurnId
           /\ ttask'[turns + 1] = k /\ trev'[turns + 1] = rev[k] /\ tstat'[turns + 1] = "QUEUED"
           /\ kind'[turns + 1] = src /\ tsess'[turns + 1] = conv[k]
           /\ \A t \in TurnId \ {turns + 1} :
                 /\ kind'[t] = kind[t] /\ tsess'[t] = tsess[t] /\ ttask'[t] = ttask[t]
                 /\ trev'[t] = trev[t] /\ tstat'[t] = base[t]
BY TableFacts DEF Enqueue, InsertTurn, TurnStatuses

\* A control leaves the open task as it is, stops it, or queues a request for it.
LEMMA ControlServes ==
    ASSUME VInv, PInv', NEW t \in TurnId, NEW base \in TurnStatuses, Control(t, base),
           \A u \in TurnId : base[u] # tstat[u] =>
               ttask[u] = NoTask /\ tstat[u] = "QUEUED" /\ base[u] \notin {"none", "QUEUED"},
           UNCHANGED <<contTurn, reqTurn, pc, cur, settlement>>,
           reqState' = reqState \/ (reqState # "none" /\ reqState' = "revoked")
    PROVE  Service'
<1>1. CASE tstat' = base /\ UNCHANGED <<rowVars, tasks, status, rev>>
  <2>1. Lasting
    BY <1>1 DEF Lasting, rowVars
  <2>2. RowsGrow
    BY <1>1, SameRowsGrow DEF VInv
  <2>3. ASSUME NEW u \in TurnId, NEW k \in TaskId, ttask[u] = k, tstat[u] = "QUEUED"
        PROVE  tstat'[u] = "QUEUED"
    BY <1>1, <2>3, TableFacts DEF VInv
  <2>4. QueuedOK'
    BY <1>1, <2>1, <2>3, QueueServed DEF Serves, Runnable, rowVars
  <2>5. NewerOK'
    BY <1>1, <2>3, NewerWaits DEF Pends, rowVars
  <2> QED  BY <1>1, <2>2, <2>4, <2>5, RowsServe DEF Service
<1>2. ASSUME NEW k \in TaskId, IsOpen(k), Halt(t, k, base) PROVE Service'
  <2>1. /\ status' = [status EXCEPT ![k] = HaltStatus(@, kind[t])]
        /\ tstat' = DropQueued(k, base)
        /\ UNCHANGED <<rowVars, tasks, rev>>
    BY <1>2 DEF Halt
  <2>2. \A j \in TaskId : status'[j] \notin {"QUEUED", "RUNNING", "REVIEWING"}
    <3>1. HaltStatus(status[k], kind[t]) \notin {"QUEUED", "RUNNING", "REVIEWING"}
      BY DEF HaltStatus
    <3> QED  BY <1>2, <2>1, <3>1, OthersDone, TableFacts DEF VInv
  <2>3. QueuedOK' /\ NewerOK'
    BY <2>2 DEF QueuedOK, NewerOK
  <2>4. RowsGrow
    <3>1. \A u \in TurnId : tstat'[u] # tstat[u] =>
              tstat[u] # "none" /\ tstat'[u] \notin {"none", "QUEUED"}
      BY <2>1 DEF DropQueued
    <3> QED  BY <2>1, <3>1, SameRowsGrow DEF VInv
  <2> QED  BY <2>1, <2>3, <2>4, RowsServe DEF Service
<1>3. ASSUME NEW k \in TaskId, IsOpen(k), status[k] = "PAUSED",
             status' = [status EXCEPT ![k] = "QUEUED"], Enqueue(k, "task_continue", base),
             UNCHANGED <<tasks, rev>>
      PROVE  Service'
  <2>1. /\ turns' = turns + 1 /\ turns + 1 \in TurnId
        /\ ttask'[turns + 1] = k /\ trev'[turns + 1] = rev[k] /\ tstat'[turns + 1] = "QUEUED"
        /\ kind'[turns + 1] = "task_continue"
        /\ \A u \in TurnId \ {turns + 1} :
              /\ kind'[u] = kind[u] /\ tsess'[u] = tsess[u] /\ ttask'[u] = ttask[u]
              /\ trev'[u] = trev[u] /\ tstat'[u] = base[u]
    BY <1>3, EnqueueServes DEF InternalKinds, VInv
  <2>2. \A j \in TaskId : j # k => status'[j] \notin {"QUEUED", "RUNNING", "REVIEWING"}
    BY <1>3, OthersDone, TableFacts DEF VInv
  <2>3. status'[k] = "QUEUED"
    BY <1>3, TableFacts DEF VInv
  <2>4. \E u \in TurnId : Serves(u, k)'
    BY <1>3, <2>1 DEF Serves, Runnable
  <2>5. QueuedOK'
    BY <2>1, <2>2, <2>4 DEF QueuedOK
  <2>6. NewerOK'
    BY <2>2, <2>3 DEF NewerOK
  <2>7. RowsGrow
    <3>1. turns \in Nat /\ \A u \in TurnId : u \in Nat /\ (tstat[u] = "none" <=> u > turns)
      BY TableFacts DEF VInv
    <3>2. ASSUME NEW u \in TurnId, u <= turns
          PROVE  /\ kind'[u] = kind[u] /\ tsess'[u] = tsess[u]
                 /\ ttask'[u] = ttask[u] /\ trev'[u] = trev[u]
                 /\ tstat[u] # "QUEUED" => tstat'[u] # "QUEUED"
                 /\ tstat'[u] # "none"
      <4>1. u # turns + 1
        BY <3>1, <3>2
      <4>2. /\ kind'[u] = kind[u] /\ tsess'[u] = tsess[u]
            /\ ttask'[u] = ttask[u] /\ trev'[u] = trev[u] /\ tstat'[u] = base[u]
        BY <2>1, <4>1
      <4>3. tstat[u] # "none"
        BY <3>1, <3>2
      <4> QED  BY <4>2, <4>3
    <3>3. ASSUME NEW u \in TurnId
          PROVE  /\ ttask'[u] = ttask[u] \/ kind'[u] \in InternalKinds
                 /\ kind'[u] = kind[u] \/ kind'[u] \in InternalKinds
      BY <2>1 DEF InternalKinds
    <3>4. turns' \in Nat /\ turns <= turns'
      BY <2>1, <3>1
    <3> QED  BY <3>2, <3>3, <3>4 DEF RowsGrow
  <2> QED  BY <1>3, <2>5, <2>6, <2>7, RowsServe DEF Service
<1>4. CASE receipt[t] # NoReceipt \/ Open(tsess[t]) = {}
  BY <1>1, <1>4 DEF Control, taskVars
<1>5. CASE receipt[t] = NoReceipt /\ Open(tsess[t]) # {}
  <2>1. PICK k \in Open(tsess[t]) :
            IF kind[t] \in {"resume", "budget"} THEN Resume(t, k, base) ELSE Halt(t, k, base)
    BY <1>5 DEF Control
  <2>2. k \in TaskId /\ IsOpen(k)
    BY DEF Open
  <2>3. CASE Halt(t, k, base)
    BY <1>2, <2>2, <2>3
  <2>4. CASE Resume(t, k, base) /\ status[k] = "PAUSED"
    BY <1>3, <2>2, <2>4 DEF Resume
  <2>5. CASE Resume(t, k, base) /\ status[k] # "PAUSED"
    BY <1>1, <2>5 DEF Resume
  <2> QED  BY <2>1, <2>3, <2>4, <2>5
<1> QED  BY <1>4, <1>5

\* Steps that leave rows and tasks alone.
LEMMA StillServes ==
    ASSUME VInv, PInv',
           UNCHANGED <<rowVars, tstat, tasks, status, rev, contTurn, reqTurn, pc, cur, settlement>>,
           reqState' = reqState \/ (reqState # "none" /\ reqState' = "revoked")
               \/ (reqState = "pending" /\ reqState' = "approved")
    PROVE  Service'
<1>1. Lasting
  BY DEF Lasting, rowVars
<1>2. RowsGrow
  BY SameRowsGrow DEF VInv
<1>3. QueuedOK'
  BY <1>1, QueueServed DEF Serves, Runnable, rowVars
<1>4. NewerOK'
  BY NewerWaits DEF Pends, rowVars
<1> QED  BY <1>2, <1>3, <1>4, RowsServe DEF Service

LEMMA AdmitServes == ASSUME VInv, PInv', Admit PROVE Service'
<1>1. phase = "control" /\ AdmitNext
  BY DEF Admit, AdmitInput, AdmitControl, AdmitNew, AdmitConfirm, AdmitRevoke, Admitting
<1>2. bNext \in TurnId /\ tstat \in TurnStatuses
  BY <1>1, TableFacts DEF VInv, PInv, IInv, BatchOK
<1>3. UNCHANGED <<contTurn, reqTurn, pc, cur, settlement>>
  BY <1>1 DEF AdmitNext
<1>4. CASE AdmitInput \/ AdmitConfirm \/ AdmitRevoke
  <2>1. UNCHANGED <<rowVars, tstat, tasks, status, rev>>
    BY <1>4 DEF AdmitInput, AdmitConfirm, AdmitRevoke, taskVars
  <2>2. reqState' = reqState \/ (reqState # "none" /\ reqState' = "revoked")
            \/ (reqState = "pending" /\ reqState' = "approved")
    BY <1>4 DEF AdmitInput, AdmitConfirm, AdmitRevoke
  <2> QED  BY <1>3, <2>1, <2>2, StillServes
<1>5. CASE AdmitControl \/ AdmitNew
  <2>1. Control(bNext, tstat)
    BY <1>5 DEF AdmitControl, AdmitNew
  <2>2. reqState' = reqState \/ (reqState # "none" /\ reqState' = "revoked")
    BY <1>5 DEF AdmitControl, AdmitNew, RevokeSession
  <2> QED  BY <1>2, <1>3, <2>1, <2>2, ControlServes
<1> QED  BY <1>4, <1>5 DEF Admit

LEMMA PollServes == ASSUME VInv, PInv', Commit \/ IdleTimeout \/ RequestExpires PROVE Service'
<1>1. /\ UNCHANGED <<rowVars, tstat, tasks, status, rev, contTurn, reqTurn, pc, cur, settlement>>
      /\ reqState' = reqState \/ (reqState # "none" /\ reqState' = "revoked")
  BY DEF Commit, IdleTimeout, RequestExpires, RevokeSession, taskVars, permVars, workVars
<1> QED  BY <1>1, StillServes

-----------------------------------------------------------------------------
(* Claims.                                                                  *)

\* A message that is no input has no task to serve, and its row leaves the queue.
LEMMA AnswerServes ==
    ASSUME VInv, PInv', NEW t \in TurnId, tstat[t] = "QUEUED", pc \notin RunStates, pc # "claimed",
           kind[t] \notin InputKinds \cup InternalKinds,
           NEW st \in TurnStatus \ {"QUEUED"}, tstat' = [tstat EXCEPT ![t] = st],
           UNCHANGED <<rowVars, tasks, status, rev, permVars>>, pc' \notin RunStates
    PROVE  Service'
<1>1. ttask[t] = NoTask
  BY DEF VInv, Service, PlainOK
<1>2. \A u \in TurnId : tstat'[u] = IF u = t THEN st ELSE tstat[u]
  BY TableFacts DEF VInv, TurnStatuses
<1>3. Lasting
  BY <1>2 DEF Lasting, rowVars, permVars
<1>4. RowsGrow
  BY <1>2, SameRowsGrow DEF VInv, TurnStatus
<1>5. QueuedOK'
  BY <1>1, <1>2, <1>3, QueueServed, TableFacts DEF Serves, Runnable, rowVars, VInv
<1>6. NewerOK'
  BY NewerWaits, RestsOutside DEF VInv
<1> QED  BY <1>4, <1>5, <1>6, RowsServe DEF Service, permVars

LEMMA ClaimManageServes == ASSUME VInv, PInv', NEW t \in TurnId, ClaimManage(t) PROVE Service'
<1>1. /\ tstat[t] = "QUEUED" /\ pc = "idle" /\ pc' = "manage" /\ kind[t] = "manage"
      /\ tstat' = [tstat EXCEPT ![t] = "RUNNING"]
      /\ UNCHANGED <<rowVars, tasks, status, rev, permVars>>
  BY ClaimedRow DEF ClaimManage, VInv, PInv, taskVars
<1> QED  BY <1>1, AnswerServes DEF RunStates, InputKinds, InternalKinds, TurnStatus

LEMMA ClaimControlServes == ASSUME VInv, PInv', NEW t \in TurnId, ClaimControl(t) PROVE Service'
<1> DEFINE base == [tstat EXCEPT ![t] = "REPLY_PENDING"]
<1>1. /\ tstat[t] = "QUEUED" /\ pc = "idle" /\ pc' = pc
      /\ kind[t] \notin InputKinds \cup InternalKinds
      /\ UNCHANGED <<permVars, cur, settlement>>
  BY ClaimedRow
  DEF ClaimControl, VInv, PInv, workVars, ControlKinds, InputKinds, InternalKinds
<1>2. CASE kind[t] = "revoke"
  <2>1. tstat' = base /\ UNCHANGED <<rowVars, tasks, status, rev>>
    BY <1>2 DEF ClaimControl, taskVars
  <2> QED  BY <1>1, <2>1, AnswerServes DEF RunStates, TurnStatus
<1>3. CASE kind[t] # "revoke"
  <2>1. Control(t, base)
    BY <1>3 DEF ClaimControl
  <2>2. base \in TurnStatuses
    BY TableFacts DEF VInv, TurnStatuses, TurnStatus
  <2>3. \A u \in TurnId : base[u] # tstat[u] =>
            ttask[u] = NoTask /\ tstat[u] = "QUEUED" /\ base[u] \notin {"none", "QUEUED"}
    BY <1>1, TableFacts DEF VInv, Service, PlainOK, TurnStatuses
  <2> HIDE DEF base
  <2> QED  BY <1>1, <2>1, <2>2, <2>3, ControlServes DEF permVars
<1> QED  BY <1>2, <1>3

\* The continuation whose permission is gone may leave its task behind: that is the exception.
LEMMA ClaimLapsedServes == ASSUME VInv, PInv', NEW t \in TurnId, ClaimLapsed(t) PROVE Service'
<1>1. /\ tstat[t] = "QUEUED" /\ pc = "idle" /\ live /\ tsess[t] = sess
      /\ t = contTurn /\ ~CanContinue(t) /\ pc' = pc
      /\ tstat' = [tstat EXCEPT ![t] = "REPLY_PENDING"]
      /\ UNCHANGED <<rowVars, tasks, status, rev, permVars>>
  BY ClaimedRow DEF ClaimLapsed, InLiveSession, VInv, PInv, taskVars, workVars
<1>2. reqState = "revoked"
  BY <1>1, TableFacts DEF VInv, Service, ContinuationOK, CanContinue
<1>3. \A u \in TurnId : tstat'[u] = IF u = t THEN "REPLY_PENDING" ELSE tstat[u]
  BY <1>1, TableFacts DEF VInv, TurnStatuses
<1>4. Lasting
  BY <1>1, <1>3 DEF Lasting, rowVars, permVars
<1>5. RowsGrow
  BY <1>1, <1>3, SameRowsGrow DEF VInv
<1>6. ASSUME NEW u \in TurnId, NEW k \in TaskId, Serves(u, k)
      PROVE  Serves(u, k)' \/ Stranded(k)'
  <2>1. CASE u = t
    BY <1>1, <1>2, <1>3, <1>6, <2>1, TableFacts DEF Serves, Stranded, rowVars, permVars, VInv
  <2>2. CASE u # t
    BY <1>1, <1>3, <1>6, <2>2 DEF Serves, Runnable, rowVars
  <2> QED  BY <2>1, <2>2
<1>7. QueuedOK'
  BY <1>1, <1>4, <1>6, QueueServed
<1>8. NewerOK'
  BY <1>1, NewerWaits, RestsOutside DEF VInv, RunStates
<1> QED  BY <1>1, <1>5, <1>7, <1>8, RowsServe DEF Service, permVars

\* The confirmation queues a request for the task it wakes.
LEMMA ClaimConfirmServes == ASSUME VInv, PInv', NEW t \in TurnId, ClaimConfirm(t) PROVE Service'
<1> DEFINE base == [tstat EXCEPT ![t] = "REPLY_PENDING"]
<1>1. /\ tstat[t] = "QUEUED" /\ pc = "idle" /\ pc' = pc /\ kind[t] = "confirm"
      /\ live /\ tsess[t] = sess
      /\ UNCHANGED <<tasks, rev, reqState, reqTurn>>
  BY ClaimedRow DEF ClaimConfirm, VInv, PInv, workVars
<1>2. CASE ~Wakes(t)
  <2>1. tstat' = base /\ UNCHANGED <<rowVars, status, contTurn, approvedBy>>
    BY <1>2 DEF ClaimConfirm
  <2> QED  BY <1>1, <2>1, AnswerServes
           DEF RunStates, InputKinds, InternalKinds, TurnStatus, permVars
<1>3. CASE Wakes(t)
  <2>0. reqTurn \in TurnId /\ ttask[reqTurn] \in TaskId
    BY <1>3, TableFacts, BoundsAssumption DEF Wakes, CanContinue, VInv, TaskId, NoTask
  <2> PICK k \in TaskId : k = ttask[reqTurn]
    BY <2>0
  <2>1. /\ status' = [status EXCEPT ![k] = "QUEUED"] /\ contTurn' = turns + 1
        /\ Enqueue(k, "permission_continue", base)
        /\ k # NoTask /\ status[k] \in {"WAITING", "PAUSED"}
        /\ reqState = "approved" /\ tsess[reqTurn] = sess
    BY <1>1, <1>3 DEF ClaimConfirm, Wakes, CanContinue
  <2>2. reqTurn \in TurnId /\ reqTurn <= turns
    BY <2>1, TableFacts DEF VInv
  <2>3. IsOpen(k)
    BY <2>1 DEF IsOpen, Terminal
  <2>4. base \in TurnStatuses
    BY TableFacts DEF VInv, TurnStatuses, TurnStatus
  <2>5. \A u \in TurnId : base[u] = IF u = t THEN "REPLY_PENDING" ELSE tstat[u]
    BY TableFacts DEF VInv, TurnStatuses
  <2> HIDE DEF base
  <2>6. /\ turns' = turns + 1 /\ turns + 1 \in TurnId
        /\ ttask'[turns + 1] = k /\ trev'[turns + 1] = rev[k] /\ tstat'[turns + 1] = "QUEUED"
        /\ kind'[turns + 1] = "permission_continue" /\ tsess'[turns + 1] = conv[k]
        /\ \A u \in TurnId \ {turns + 1} :
              /\ kind'[u] = kind[u] /\ tsess'[u] = tsess[u] /\ ttask'[u] = ttask[u]
              /\ trev'[u] = trev[u] /\ tstat'[u] = base[u]
    BY <2>1, <2>2, <2>4, EnqueueServes DEF InternalKinds, VInv
  <2>7. conv[k] = sess
        /\ \A j \in TaskId : j # k => status'[j] \notin {"QUEUED", "RUNNING", "REVIEWING"}
    BY <2>1, <2>2, <2>3, OthersDone, TableFacts DEF VInv
  <2>8. QueuedOK'
    <3>1. PICK u \in TurnId : u = turns + 1
      BY <2>6
    <3>2. Serves(u, k)'
      BY <1>1, <2>6, <3>1 DEF Serves, Runnable
    <3> QED  BY <2>7, <3>2 DEF QueuedOK
  <2>9. NewerOK'
    BY <1>1, NewerWaits, RestsOutside, <2>7, <2>1, <2>2, TableFacts DEF VInv, RunStates
  <2>10. PlainOK'
    <3>1. \A u \in TurnId : kind'[u] \notin InputKinds \cup InternalKinds =>
              kind'[u] = kind[u] /\ ttask'[u] = ttask[u]
      BY <2>6 DEF InternalKinds
    <3> QED  BY <1>1, <3>1 DEF VInv, Service, PlainOK
  <2>11. ContinuationOK'
    <3>1. reqTurn \in TurnId \ {turns + 1} /\ contTurn' \in 1..turns'
      BY <2>1, <2>2, <2>6, TableFacts DEF VInv
    <3>2. /\ tstat'[reqTurn] = base[reqTurn] /\ tsess'[reqTurn] = tsess[reqTurn]
          /\ kind'[contTurn'] = "permission_continue" /\ tsess'[contTurn'] = conv[k]
      BY <2>1, <2>6, <3>1
    <3>3. tstat'[reqTurn] \notin {"none", "QUEUED"}
      BY <2>1, <2>2, <2>5, <3>2 DEF VInv, Service, ContinuationOK
    <3> QED  BY <1>1, <2>1, <2>7, <3>1, <3>2, <3>3 DEF ContinuationOK, InternalKinds
  <2> QED  BY <2>8, <2>9, <2>10, <2>11 DEF Service
<1> QED  BY <1>2, <1>3

\* attach gives a task at most the revision it binds the input at.
LEMMA AttachServes ==
    ASSUME VInv, NEW s, Attach(s)
    PROVE  /\ \A k \in TaskId : k > tasks' => k > tasks /\ rev'[k] = rev[k]
           /\ \A k \in TaskId :
                 \/ status'[k] = status[k] /\ rev'[k] = rev[k]
                 \/ /\ k = Binding(s).task /\ rev'[k] = Binding(s).rev
                    /\ status'[k] = status[k] \/ status'[k] = "QUEUED"
<1>1. CASE Binding(s).task = NoTask
  BY <1>1 DEF Attach, taskVars
<1>2. CASE Open(s) = {} /\ Binding(s).task # NoTask
  <2>1. /\ tasks + 1 \in TaskId /\ tasks' = tasks + 1
        /\ Binding(s) = [task |-> tasks + 1, rev |-> 1]
        /\ rev' = [rev EXCEPT ![tasks + 1] = @ + 1]
        /\ status' = [status EXCEPT ![tasks + 1] = "QUEUED"]
    BY <1>2 DEF Attach, Binding
  <2>2. rev[tasks + 1] = 0
    BY <2>1, TableFacts DEF VInv, Service, PlainOK
  <2>3. rev'[tasks + 1] = 1 /\ status'[tasks + 1] = "QUEUED"
    BY <2>1, <2>2, TableFacts DEF VInv
  <2>4. \A k \in TaskId : k # tasks + 1 => rev'[k] = rev[k] /\ status'[k] = status[k]
    BY <2>1
  <2> QED  BY <2>1, <2>3, <2>4, TableFacts DEF VInv
<1>3. CASE Open(s) # {} /\ Binding(s).task # NoTask
  <2>1. PICK k \in Open(s) : Binding(s) = IF status[k] = "CANCELLING"
                                           THEN [task |-> NoTask, rev |-> 0]
                                           ELSE [task |-> k, rev |-> rev[k] + 1]
    BY <1>3 DEF Binding
  <2>2. k \in TaskId /\ Binding(s) = [task |-> k, rev |-> rev[k] + 1]
    BY <1>3, <2>1 DEF Open
  <2>3. /\ rev' = [rev EXCEPT ![k] = @ + 1] /\ tasks' = tasks
        /\ status' = [status EXCEPT ![k] = InputStatus(@)]
    BY <1>3, <2>2 DEF Attach
  <2>4. \A j \in TaskId : j # k => rev'[j] = rev[j] /\ status'[j] = status[j]
    BY <2>2, <2>3, TableFacts DEF VInv
  <2>5. rev'[k] = rev[k] + 1 /\ status'[k] \in {status[k], "QUEUED"}
    BY <2>2, <2>3, TableFacts DEF VInv, InputStatus
  <2>6. ~(k > tasks)
    BY <2>1, TableFacts DEF VInv, PInv, BlankOK, Open, IsOpen
  <2> QED  BY <2>2, <2>3, <2>4, <2>5, <2>6, TableFacts DEF VInv
<1> QED  BY <1>1, <1>2, <1>3

\* The row of an input is bound at the revision the input makes.
LEMMA ReceiveServes == ASSUME VInv, PInv', NEW m \in Kinds, Receive(m) PROVE Service'
<1> DEFINE s == IF live THEN sess ELSE sess + 1
           first == IF phase = "idle" THEN turns + 1 ELSE bNext
           binds == m \in InputKinds /\ ~PendingNew(s)
           bound == IF binds THEN Binding(s) ELSE [task |-> NoTask, rev |-> 0]
<1>1. /\ InsertTurn(m, s, bound.task, bound.rev, first, tstat)
      /\ IF binds THEN Attach(s) ELSE UNCHANGED taskVars
      /\ UNCHANGED <<permVars, pc, cur, settlement>>
  BY DEF Receive, workVars
<1>2. /\ turns' = turns + 1 /\ turns + 1 \in TurnId /\ tstat[turns + 1] = "none"
      /\ kind'[turns + 1] = m /\ tstat'[turns + 1] = "QUEUED"
      /\ ttask'[turns + 1] = bound.task /\ trev'[turns + 1] = bound.rev
      /\ \A t \in TurnId \ {turns + 1} :
            /\ kind'[t] = kind[t] /\ tsess'[t] = tsess[t] /\ ttask'[t] = ttask[t]
            /\ trev'[t] = trev[t] /\ tstat'[t] = tstat[t]
  <2> HIDE DEF s, first, bound
  <2> QED  BY <1>1, TableFacts DEF InsertTurn, VInv, TurnStatuses
<1>3. /\ \A k \in TaskId : k > tasks' => k > tasks /\ rev'[k] = rev[k]
      /\ \A k \in TaskId :
            \/ status'[k] = status[k] /\ rev'[k] = rev[k]
            \/ /\ k = bound.task /\ rev'[k] = bound.rev
               /\ status'[k] = status[k] \/ status'[k] = "QUEUED"
  <2> HIDE DEF s
  <2> QED  BY <1>1, AttachServes DEF taskVars
<1>4. m \notin InputKinds => bound.task = NoTask
  OBVIOUS
<1> HIDE DEF s, first, binds, bound
<1>5. Lasting
  BY <1>1, <1>2 DEF Lasting, permVars
<1>6. ASSUME NEW k \in TaskId, ~(status'[k] = status[k] /\ rev'[k] = rev[k])
      PROVE  \E t \in TurnId : Pends(t, k)'
  BY <1>2, <1>3, <1>6 DEF Pends
<1>7. \A t \in TurnId, k \in TaskId : Pends(t, k)' => Serves(t, k)'
  BY DEF Pends, Serves, Runnable
<1>8. QueuedOK'
  <2>1. ASSUME NEW t \in TurnId, NEW k \in TaskId, Serves(t, k), rev'[k] = rev[k]
        PROVE  Serves(t, k)'
    BY <1>1, <1>2, <2>1, TableFacts DEF Serves, Runnable, VInv
  <2> QED  BY <1>5, <1>6, <1>7, <2>1, QueueServed
<1>9. NewerOK'
  <2>1. ASSUME NEW t \in TurnId, NEW k \in TaskId, Pends(t, k), rev'[k] = rev[k]
        PROVE  Pends(t, k)'
    BY <1>2, <2>1 DEF Pends
  <2>2. pc \in RunStates => cur \in TurnId \ {turns + 1}
    BY <1>2, TableFacts DEF VInv, RunStates
  <2> QED  BY <1>1, <1>2, <1>3, <1>6, <2>1, <2>2, NewerWaits
<1>10. PlainOK'
  BY <1>2, <1>3, <1>4 DEF VInv, Service, PlainOK
<1>11. ContinuationOK'
  <2>1. reqState # "none" => reqTurn \in TurnId \ {turns + 1}
    BY <1>2, TableFacts DEF VInv
  <2>2. contTurn # NoTurn => contTurn \in TurnId \ {turns + 1} /\ contTurn \in 1..turns'
    BY <1>2, TableFacts DEF VInv, Service, ContinuationOK
  <2> QED  BY <1>1, <1>2, <2>1, <2>2 DEF VInv, Service, ContinuationOK, permVars
<1> QED  BY <1>8, <1>9, <1>10, <1>11 DEF Service

LEMMA ClaimInputServes == ASSUME VInv, PInv', NEW t \in TurnId, ClaimInput(t) PROVE Service'
<1> DEFINE binds == ttask[t] = NoTask /\ kind[t] \in InputKinds
<1>1. /\ tstat[t] = "QUEUED" /\ pc = "idle" /\ pc' = "claimed" /\ cur' = t
      /\ kind[t] \in InputKinds \cup InternalKinds
      /\ tstat' = [tstat EXCEPT ![t] = "RUNNING"]
      /\ IF binds
         THEN /\ Attach(tsess[t])
              /\ ttask' = [ttask EXCEPT ![t] = Binding(tsess[t]).task]
              /\ trev' = [trev EXCEPT ![t] = Binding(tsess[t]).rev]
         ELSE UNCHANGED <<taskVars, ttask, trev>>
      /\ UNCHANGED <<turns, kind, tsess, permVars>>
  BY ClaimedRow DEF ClaimInput, VInv, PInv
<1>2. /\ \A u \in TurnId : tstat'[u] = IF u = t THEN "RUNNING" ELSE tstat[u]
      /\ \A u \in TurnId : u # t => ttask'[u] = ttask[u] /\ trev'[u] = trev[u]
      /\ ttask[t] # NoTask => ttask'[t] = ttask[t] /\ trev'[t] = trev[t]
      /\ binds => ttask'[t] = Binding(tsess[t]).task /\ trev'[t] = Binding(tsess[t]).rev
  BY <1>1, TableFacts DEF VInv, TurnStatuses
<1>3. /\ \A k \in TaskId : k > tasks' => k > tasks /\ rev'[k] = rev[k]
      /\ \A k \in TaskId :
            \/ status'[k] = status[k] /\ rev'[k] = rev[k]
            \/ ttask'[t] = k /\ trev'[t] = rev'[k]
  <2>1. CASE binds
    BY <1>1, <1>2, <2>1, AttachServes
  <2>2. CASE ~binds
    BY <1>1, <2>2 DEF taskVars
  <2> QED  BY <2>1, <2>2
<1> HIDE DEF binds
<1>4. Lasting
  BY <1>1, <1>2 DEF Lasting, permVars
<1>5. QueuedOK'
  <2>1. ASSUME NEW u \in TurnId, NEW k \in TaskId, Serves(u, k), rev'[k] = rev[k]
        PROVE  Serves(u, k)'
    BY <1>1, <1>2, <2>1, TableFacts DEF Serves, Runnable, VInv
  <2>2. \A k \in TaskId : ttask'[t] = k /\ trev'[t] = rev'[k] => Serves(t, k)'
    BY <1>1 DEF Serves, Runnable
  <2> QED  BY <1>3, <1>4, <2>1, <2>2, QueueServed
<1>6. NewerOK'
  <2>1. \A k \in TaskId : status'[k] \notin {"RUNNING", "REVIEWING"}
    BY <1>1 DEF PInv, IInv, ActiveHasDriver, InFlight, Active
  <2> QED  BY <2>1 DEF NewerOK
<1>7. PlainOK'
  <2>1. \A u \in TurnId : kind[u] \notin InputKinds \cup InternalKinds => u # t
    BY <1>1
  <2> QED  BY <1>1, <1>2, <1>3, <2>1 DEF VInv, Service, PlainOK
<1>8. ContinuationOK'
  BY <1>1, <1>2, TableFacts DEF VInv, Service, ContinuationOK, permVars
<1> QED  BY <1>5, <1>6, <1>7, <1>8 DEF Service

\* What ends the conversation closes its tasks; what moves on has no task any more.
LEMMA ClaimNewServes == ASSUME VInv, PInv', NEW t \in TurnId, ClaimNew(t) PROVE Service'
<1> DEFINE moved == {u \in {v \in TurnId \ {t} : tsess[v] = tsess[t] /\ tstat[v] = "QUEUED"} :
                        kind[u] \in MessageKinds}
           next == IF moved = {} THEN sess ELSE sess + 1
<1>1. /\ tstat[t] = "QUEUED" /\ live /\ tsess[t] = sess
  BY ClaimedRow DEF ClaimNew, VInv, PInv
<1>2. /\ status' = Close(sess)
      /\ tstat' = [u \in TurnId |->
             IF u = t THEN "REPLY_PENDING"
             ELSE IF u \in {v \in TurnId \ {t} : tsess[v] = tsess[t] /\ tstat[v] = "QUEUED"} \ moved
                  THEN "CANCELLED" ELSE tstat[u]]
      /\ tsess' = [u \in TurnId |-> IF u \in moved THEN next ELSE tsess[u]]
      /\ ttask' = [u \in TurnId |-> IF u \in moved THEN NoTask ELSE ttask[u]]
      /\ reqState' = reqState \/ (reqState # "none" /\ reqState' = "revoked")
      /\ UNCHANGED <<turns, kind, tasks, conv, rev, used, limit, reqTurn, contTurn>>
  BY <1>1 DEF ClaimNew, InLiveSession, RevokeSession
<1>3. \A u \in moved : tstat[u] = "QUEUED" /\ kind[u] \notin InternalKinds
  BY DEF InternalKinds, MessageKinds, InputKinds, CommandKinds, ControlKinds
<1> HIDE DEF moved, next
<1>4. \A k \in TaskId : status'[k] \notin {"QUEUED", "RUNNING", "REVIEWING"}
  BY <1>1, <1>2 DEF Close, Open, VInv, PInv, IInv, OneOpenTask, IsOpen, Terminal
<1>5. QueuedOK' /\ NewerOK'
  BY <1>4 DEF QueuedOK, NewerOK
<1>6. PlainOK'
  BY <1>2 DEF VInv, Service, PlainOK
<1>7. ContinuationOK'
  <2>1. reqState # "none" => reqTurn \in TurnId /\ reqTurn \notin moved /\ reqTurn # t
    BY <1>1, <1>3, TableFacts DEF VInv, Service, ContinuationOK
  <2>2. contTurn # NoTurn => contTurn \in TurnId /\ contTurn \notin moved
    BY <1>3, TableFacts DEF VInv, Service, ContinuationOK
  <2>3. reqState' # "none" => tstat'[reqTurn] \notin {"none", "QUEUED"}
    BY <1>2, <2>1 DEF VInv, Service, ContinuationOK
  <2> QED  BY <1>2, <2>1, <2>2, <2>3 DEF VInv, Service, ContinuationOK
<1> QED  BY <1>5, <1>6, <1>7 DEF Service

LEMMA RestartServes == ASSUME VInv, PInv', Restart PROVE Service'
<1>1. /\ status' = IF live THEN Close(sess) ELSE status
      /\ \A t \in TurnId : tstat'[t] # tstat[t] => tstat[t] # "none" /\ tstat'[t] = "CANCELLED"
      /\ reqState' = reqState \/ (reqState # "none" /\ reqState' = "revoked")
      /\ UNCHANGED <<rowVars, tasks, rev, contTurn, reqTurn>>
  BY DEF Restart, RevokeSession, permVars
<1>2. \A k \in TaskId : status'[k] \notin {"QUEUED", "RUNNING", "REVIEWING"}
  BY <1>1 DEF Close, Open, VInv, PInv, IInv, OneOpenTask, IsOpen, Terminal
<1>3. RowsGrow
  BY <1>1, SameRowsGrow DEF VInv
<1> QED  BY <1>1, <1>2, <1>3, RowsServe DEF Service, QueuedOK, NewerOK

-----------------------------------------------------------------------------
(* The worker at its turn.                                                  *)

\* The worker's row leaves the queue's sight.
LEMMA OwnRowServes ==
    ASSUME VInv, pc # "idle", NEW st \in TurnStatus \ {"QUEUED"},
           tstat' = [tstat EXCEPT ![cur] = st], UNCHANGED <<rowVars, permVars>>
    PROVE  /\ Lasting /\ RowsGrow
           /\ \A u \in TurnId : tstat'[u] = IF u = cur THEN st ELSE tstat[u]
<1>1. \A u \in TurnId : tstat'[u] = IF u = cur THEN st ELSE tstat[u]
  BY TableFacts DEF VInv, TurnStatuses
<1>2. Lasting
  BY <1>1, TableFacts DEF Lasting, rowVars, permVars, VInv
<1>3. RowsGrow
  BY <1>1, TableFacts, SameRowsGrow DEF VInv, TurnStatus
<1> QED  BY <1>1, <1>2, <1>3

\* Turns given up before anything ran.
LEMMA QuietServes ==
    ASSUME VInv, PInv', FinishManage \/ BeginRefused \/ BeginExhausted \/ BeginUpload
    PROVE  Service'
<1>1. /\ pc \in {"claimed", "manage"} /\ pc' = "idle"
      /\ \E st \in {"REPLY_PENDING", "SUCCEEDED"} : tstat' = [tstat EXCEPT ![cur] = st]
      /\ UNCHANGED <<rowVars, tasks, rev, permVars>>
  BY DEF FinishManage, BeginRefused, BeginExhausted, BeginUpload, Works, Release, Reply, taskVars
<1>2. PICK st \in TurnStatus \ {"QUEUED"} : tstat' = [tstat EXCEPT ![cur] = st]
  BY <1>1 DEF TurnStatus
<1>3. /\ Lasting /\ RowsGrow
      /\ \A u \in TurnId : tstat'[u] = IF u = cur THEN st ELSE tstat[u]
  BY <1>1, <1>2, OwnRowServes
<1>4. NewerOK'
  BY <1>1 DEF PInv, IInv, ActiveHasDriver, InFlight, Active, NewerOK
<1>5. QueuedOK'
  <2>1. CASE FinishManage \/ BeginRefused
    <3>1. status' = status /\ (pc = "claimed" => ~CanBegin)
      BY <2>1 DEF FinishManage, BeginRefused, Works, taskVars
    <3>2. ASSUME NEW u \in TurnId, NEW k \in TaskId, Serves(u, k), status[k] = "QUEUED"
          PROVE  Serves(u, k)'
      <4>1. u # cur
        BY <1>1, <3>1, <3>2, TableFacts DEF Serves, Runnable, CanBegin, Task, VInv
      <4> QED  BY <1>1, <1>3, <3>2, <4>1 DEF Serves, Runnable, rowVars
    <3> QED  BY <1>1, <1>3, <3>1, <3>2, QueueServed
  <2>2. CASE BeginExhausted \/ BeginUpload
    <3>1. /\ Task # NoTask /\ status[Task] = "QUEUED" /\ pc = "claimed"
          /\ \/ status' = [status EXCEPT ![Task] = "PAUSED"]
             \/ status' = [status EXCEPT ![Task] = "WAITING"]
      BY <2>2 DEF BeginExhausted, BeginUpload, CanBegin, Works
    <3>2. Task \in TaskId
      BY <3>1, TurnAtWork DEF VInv
    <3>3. IsOpen(Task)
      BY <3>1 DEF IsOpen, Terminal
    <3>4. \A k \in TaskId : status'[k] # "QUEUED"
      BY <3>1, <3>2, <3>3, OthersDone, TableFacts DEF VInv
    <3> QED  BY <3>4 DEF QueuedOK
  <2> QED  BY <2>1, <2>2
<1> QED  BY <1>1, <1>3, <1>4, <1>5, RowsServe DEF Service, permVars

\* What a run decides is about the revision it began at, or about the newest one.
LEMMA DecidesCurrent ==
    /\ CatchSettlement.rev = trev[cur] /\ ContinueSettlement.rev = rev[Task]
    /\ \A st, publish : Settlement(st, trev[cur], publish).rev = trev[cur]
BY DEF CatchSettlement, ContinueSettlement, Settlement

\* Steps of a run that leave the rows alone.
LEMMA RunServes ==
    ASSUME VInv, PInv', pc # "idle", pc # "settle", UNCHANGED <<rowVars, tstat, tasks, rev, cur>>,
           Task \in TaskId, IsOpen(Task), NEW st, st # "QUEUED",
           status' = [status EXCEPT ![Task] = st],
           st \in {"RUNNING", "REVIEWING"} =>
               rev[Task] = trev[cur] \/ status[Task] \in {"RUNNING", "REVIEWING"},
           pc' = "settle" => settlement'.rev \in {trev[cur], rev[Task]},
           contTurn' = contTurn, reqTurn' = reqTurn, reqState' = reqState
    PROVE  Service'
<1>1. \A k \in TaskId : status'[k] \in {"QUEUED", "RUNNING", "REVIEWING"} =>
          k = Task /\ status'[k] = st
  BY OthersDone, TableFacts DEF VInv
<1>2. QueuedOK'
  BY <1>1 DEF QueuedOK
<1>3. NewerOK'
  <2> SUFFICES ASSUME NEW k \in TaskId, status'[k] \in {"RUNNING", "REVIEWING"}
               PROVE  AtNewest(k)' \/ \E t \in TurnId : Pends(t, k)'
    BY DEF NewerOK
  <2>1. k = Task /\ st \in {"RUNNING", "REVIEWING"}
    BY <1>1
  <2>2. rev[k] = trev[cur] \/ \E t \in TurnId : Pends(t, k)
    BY <2>1 DEF VInv, Service, NewerOK, AtNewest
  <2>3. CASE rev[k] = trev[cur]
    BY <2>1, <2>3 DEF AtNewest, rowVars
  <2>4. CASE \E t \in TurnId : Pends(t, k)
    BY <2>4 DEF Pends, rowVars
  <2> QED  BY <2>2, <2>3, <2>4
<1>4. RowsGrow
  BY SameRowsGrow DEF VInv
<1> QED  BY <1>2, <1>3, <1>4, RowsServe DEF Service

LEMMA RunStepServes ==
    ASSUME VInv, PInv',
           \/ BeginRun \/ RunEnds \/ ApplyForCompletion \/ ReviewFails
           \/ \E d \in {"waiting", "continue", "malformed"} : Outcome(d)
           \/ \E d \in Decisions : ReviewReturns(d)
    PROVE  Service'
<1>1. /\ pc # "idle" /\ pc # "settle"
      /\ UNCHANGED <<rowVars, tstat, tasks, rev, cur, contTurn, reqTurn, reqState>>
  BY DEF BeginRun, RunEnds, Outcome, ApplyForCompletion, ReviewFails, ReviewReturns, Works,
         permVars, taskVars
<1>2. CASE BeginRun
  <2>1. /\ Task # NoTask /\ status[Task] = "QUEUED" /\ rev[Task] = trev[cur] /\ pc' = "run"
        /\ status' = [status EXCEPT ![Task] = "RUNNING"]
    BY <1>2 DEF BeginRun, CanBegin
  <2>2. Task \in TaskId /\ IsOpen(Task)
    BY <1>1, <2>1, TurnAtWork DEF VInv, IsOpen, Terminal
  <2> QED  BY <1>1, <2>1, <2>2, RunServes
<1>3. CASE ApplyForCompletion
  <2>1. /\ pc = "outcome" /\ status[Task] = "RUNNING" /\ pc' = "review"
        /\ status' = [status EXCEPT ![Task] = "REVIEWING"]
    BY <1>3 DEF ApplyForCompletion, StillCurrent, Works
  <2>2. Task \in TaskId /\ IsOpen(Task)
    BY <1>1, <2>1, TurnAtWork DEF VInv, IsOpen, Terminal, RunStates
  <2> QED  BY <1>1, <2>1, <2>2, RunServes
<1>4. CASE \/ RunEnds \/ ReviewFails
           \/ \E d \in {"waiting", "continue", "malformed"} : Outcome(d)
           \/ \E d \in Decisions : ReviewReturns(d)
  <2>1. pc \in {"run", "outcome", "review"} /\ status' = status
    BY <1>4 DEF RunEnds, ReviewFails, Outcome, ReviewReturns, Works, taskVars
  <2>2. Task \in TaskId /\ status[Task] \in Active
    BY <1>1, <2>1, TurnAtWork DEF VInv, PInv, RunOK, RunStates, Active
  <2>3. IsOpen(Task) /\ status[Task] # "QUEUED" /\ status' = [status EXCEPT ![Task] = status[Task]]
    BY <2>1, <2>2, TableFacts DEF VInv, IsOpen, Terminal, Active
  <2>4. pc' = "settle" => settlement'.rev \in {trev[cur], rev[Task]}
    <3>1. CASE RunEnds \/ ReviewFails
      BY <3>1, <1>1, DecidesCurrent DEF RunEnds, ReviewFails, Decide
    <3>2. ASSUME NEW d \in {"waiting", "continue", "malformed"}, Outcome(d)
          PROVE  settlement'.rev \in {trev[cur], rev[Task]}
      BY <3>2, DecidesCurrent DEF Outcome, Decide
    <3>3. ASSUME NEW d \in Decisions, ReviewReturns(d)
          PROVE  settlement'.rev \in {trev[cur], rev[Task]}
      BY <3>3, DecidesCurrent DEF ReviewReturns, Decide, ReviewSettlement
    <3> QED  BY <1>4, <3>1, <3>2, <3>3
  <2> QED  BY <1>1, <2>1, <2>2, <2>3, <2>4, RunServes
<1> QED  BY <1>2, <1>3, <1>4

\* A model call changes nothing here; a permission is asked for by a turn at work.
LEMMA CallServes == ASSUME VInv, PInv', ModelCall \/ RequestPermission PROVE Service'
<1>1. CASE ModelCall
  BY <1>1, StillServes DEF ModelCall, permVars
<1>2. CASE RequestPermission
  <2>1. /\ pc = "run" /\ reqState = "none" /\ reqState' = "pending" /\ reqTurn' = cur
        /\ UNCHANGED <<rowVars, tstat, tasks, status, rev, contTurn, pc, cur, settlement>>
    BY <1>2 DEF RequestPermission, Works, taskVars, workVars
  <2>2. Lasting /\ contTurn = NoTurn
    BY <2>1 DEF Lasting, rowVars, VInv, Service, ContinuationOK
  <2>3. QueuedOK'
    BY <2>1, <2>2, QueueServed DEF Serves, Runnable, rowVars
  <2>4. NewerOK'
    BY <2>1, NewerWaits DEF Pends, rowVars
  <2>5. PlainOK' /\ ContinuationOK'
    BY <2>1, <2>2, TableFacts DEF VInv, Service, PlainOK, ContinuationOK, rowVars
  <2> QED  BY <2>3, <2>4, <2>5 DEF Service
<1> QED  BY <1>1, <1>2

\* A decision is applied, with the request that follows it, or the task goes to the turn of
\* the newer input.
LEMMA CompleteServes == ASSUME VInv, PInv', Complete PROVE Service'
<1> DEFINE st == IF Accepted /\ settlement.publish THEN "REPLY_PENDING" ELSE "SUCCEEDED"
           base == [tstat EXCEPT ![cur] = st]
           continues == Accepted /\ settlement.status = "QUEUED"
<1>1. /\ pc = "settle" /\ pc' = "idle"
      /\ status' = [status EXCEPT ![Task] = SettledStatus]
      /\ IF continues THEN Enqueue(Task, "task_continue", base)
                      ELSE tstat' = base /\ UNCHANGED rowVars
      /\ UNCHANGED <<tasks, conv, rev, permVars>>
  BY DEF Complete, Works, Release
<1>2. st \in TurnStatus \ {"QUEUED"}
  BY DEF TurnStatus
<1> HIDE DEF st
<1>3. PICK k \in TaskId : k = Task
  BY <1>1, TurnAtWork DEF VInv, RunStates
<1>4. status[k] \in Active /\ IsOpen(k) /\ cur \in TurnId /\ tstat[cur] = "RUNNING"
  BY <1>1, <1>3, TableFacts DEF VInv, PInv, RunOK, IsOpen, Active, Terminal
<1>5. \A j \in TaskId : j # k => status'[j] \notin {"QUEUED", "RUNNING", "REVIEWING"}
  BY <1>1, <1>3, <1>4, OthersDone, TableFacts DEF VInv
<1>6. NewerOK'
  BY <1>1 DEF PInv, IInv, ActiveHasDriver, InFlight, Active, NewerOK
<1>7. CASE continues
  <2>1. base \in TurnStatuses
    BY <1>2, TableFacts DEF VInv, TurnStatuses
  <2>2. \A u \in TurnId : base[u] = IF u = cur THEN st ELSE tstat[u]
    BY TableFacts DEF VInv, TurnStatuses
  <2>3. Enqueue(k, "task_continue", base)
    BY <1>1, <1>3, <1>7
  <2> HIDE DEF base, continues
  <2>4. /\ turns' = turns + 1 /\ turns + 1 \in TurnId
        /\ ttask'[turns + 1] = k /\ trev'[turns + 1] = rev[k] /\ tstat'[turns + 1] = "QUEUED"
        /\ kind'[turns + 1] = "task_continue"
        /\ \A u \in TurnId \ {turns + 1} :
              /\ kind'[u] = kind[u] /\ tsess'[u] = tsess[u] /\ ttask'[u] = ttask[u]
              /\ trev'[u] = trev[u] /\ tstat'[u] = base[u]
    BY <2>1, <2>3, EnqueueServes DEF InternalKinds, VInv
  <2>5. \E u \in TurnId : Serves(u, k)'
    BY <1>1, <2>4 DEF Serves, Runnable
  <2>6. QueuedOK'
    BY <1>5, <2>5 DEF QueuedOK
  <2>7. RowsGrow
    <3>1. /\ turns \in Nat /\ turns \in Int /\ turns + 1 > turns /\ st \notin {"QUEUED", "none"}
          /\ \A t \in TurnId : t \in Nat /\ (tstat[t] = "none" <=> t > turns)
      BY <1>2, TableFacts DEF VInv, TurnStatus
    <3>2. ASSUME NEW t \in TurnId, t # turns + 1
          PROVE  /\ kind'[t] = kind[t] /\ tsess'[t] = tsess[t] /\ ttask'[t] = ttask[t]
                 /\ trev'[t] = trev[t] /\ (tstat[t] # "QUEUED" => tstat'[t] # "QUEUED")
                 /\ t <= turns => tstat'[t] # "none"
      BY <2>2, <2>4, <3>1, <3>2
    <3>3. kind'[turns + 1] \in InternalKinds /\ turns' \in Nat /\ turns <= turns'
          /\ ~(turns + 1 <= turns)
      BY <2>4, <3>1 DEF InternalKinds
    <3> QED  BY <3>2, <3>3 DEF RowsGrow
  <2>8. PlainOK' /\ ContinuationOK'
    BY <1>1, <2>7, RowsServe DEF permVars
  <2> QED  BY <1>6, <2>6, <2>8 DEF Service
<1>8. CASE ~continues
  <2>1. /\ Lasting /\ RowsGrow
        /\ \A u \in TurnId : tstat'[u] = IF u = cur THEN st ELSE tstat[u]
    BY <1>1, <1>2, <1>8, OwnRowServes
  <2>2. ASSUME status'[k] = "QUEUED" PROVE \E u \in TurnId : Serves(u, k)'
    <3>1. SettledStatus = "QUEUED"
      BY <1>1, <1>3, <2>2, TableFacts DEF VInv
    <3>2. /\ status[k] \in {"RUNNING", "REVIEWING"} /\ rev[k] # settlement.rev
      BY <1>3, <1>4, <1>8, <3>1
      DEF SettledStatus, Outdated, Accepted, Applies, Active, Terminal
    <3>3. PICK u \in TurnId : Pends(u, k)
      BY <1>1, <3>2 DEF VInv, Service, NewerOK, AtNewest
    <3>4. u # cur
      BY <1>4, <3>3 DEF Pends
    <3> QED  BY <1>1, <1>8, <2>1, <3>3, <3>4 DEF Pends, Serves, Runnable, rowVars
  <2>3. QueuedOK'
    BY <1>5, <2>2 DEF QueuedOK
  <2> QED  BY <1>1, <1>6, <2>1, <2>3, RowsServe DEF Service, permVars
<1> QED  BY <1>7, <1>8

\* A turn that fails leaves its task paused or closed, or queued at a revision that was not
\* the one that failed: that is the other exception.
LEMMA TurnFailsServes == ASSUME VInv, PInv', TurnFails PROVE Service'
<1>1. /\ pc \in {"claimed", "manage", "settle"} /\ pc' = "idle"
      /\ tstat' = [tstat EXCEPT ![cur] = "FAILED"]
      /\ status' = IF Task = NoTask \/ ~IsOpen(Task) THEN status
                   ELSE [status EXCEPT ![Task] = FailedStatus(cur)]
      /\ UNCHANGED <<rowVars, tasks, rev, permVars>>
  BY DEF TurnFails, Release
<1>2. /\ Lasting /\ RowsGrow /\ cur \in TurnId /\ tstat[cur] = "RUNNING"
      /\ \A u \in TurnId : tstat'[u] = IF u = cur THEN "FAILED" ELSE tstat[u]
  BY <1>1, OwnRowServes, TableFacts DEF TurnStatus, VInv
<1>3. NewerOK'
  BY <1>1 DEF PInv, IInv, ActiveHasDriver, InFlight, Active, NewerOK
<1>4. CASE Task = NoTask \/ ~IsOpen(Task)
  <2>1. ASSUME NEW u \in TurnId, NEW k \in TaskId, Serves(u, k), status[k] = "QUEUED"
        PROVE  Serves(u, k)'
    <3>1. u # cur
      BY <1>4, <2>1, TableFacts DEF Serves, Task, VInv, IsOpen, Terminal
    <3> QED  BY <1>1, <1>2, <2>1, <3>1 DEF Serves, Runnable, rowVars
  <2>2. QueuedOK'
    BY <1>1, <1>2, <1>4, <2>1, QueueServed
  <2> QED  BY <1>1, <1>2, <1>3, <2>2, RowsServe DEF Service, permVars
<1>5. CASE Task # NoTask /\ IsOpen(Task)
  <2>1. PICK k \in TaskId : k = Task
    BY <1>1, <1>5, TurnAtWork DEF VInv
  <2>2. \A j \in TaskId : j # k => status'[j] # "QUEUED"
    BY <1>1, <1>5, <2>1, OthersDone, TableFacts DEF VInv
  <2>3. status'[k] = "QUEUED" => rev[k] # trev[cur]
    BY <1>1, <1>5, <2>1, TableFacts DEF VInv, FailedStatus, Task
  <2>4. status'[k] = "QUEUED" => Stranded(k)'
    BY <1>1, <1>2, <2>1, <2>3 DEF Stranded, Task, rowVars
  <2>5. QueuedOK'
    BY <2>2, <2>4 DEF QueuedOK
  <2> QED  BY <1>1, <1>2, <1>3, <2>5, RowsServe DEF Service, permVars
<1> QED  BY <1>4, <1>5

LEMMA NothingServes == ASSUME VInv, PInv', UNCHANGED vars PROVE Service'
BY StillServes DEF vars, taskVars, permVars, workVars

LEMMA InitServes == Init => Service
BY BoundsAssumption
DEF Init, Service, QueuedOK, NewerOK, PlainOK, ContinuationOK, NoTurn, NoTask, TaskId

\* Every task that does not wait for the user is being moved along, by the worker or by a turn
\* of its newest revision, but for the two exceptions: any number of messages and any batches.
THEOREM Served == Spec => []TasksServed
<1>1. ASSUME VInv, [Next]_vars, PInv' PROVE Service'
  <2>1. ASSUME NEW m \in Kinds, Receive(m) PROVE Service'
    BY <1>1, <2>1, ReceiveServes
  <2>2. CASE Ingest
    BY <1>1, <2>2, PollServes, AdmitServes DEF Ingest
  <2>3. CASE Work
    <3>1. ASSUME NEW t \in TurnId,
                 \/ ClaimInput(t) \/ ClaimLapsed(t) \/ ClaimControl(t)
                 \/ ClaimConfirm(t) \/ ClaimNew(t) \/ ClaimManage(t)
          PROVE  Service'
      BY <1>1, <3>1, ClaimInputServes, ClaimLapsedServes, ClaimControlServes,
         ClaimConfirmServes, ClaimNewServes, ClaimManageServes
    <3>2. CASE FinishManage \/ BeginRefused \/ BeginExhausted \/ BeginUpload
      BY <1>1, <3>2, QuietServes
    <3>3. CASE \/ BeginRun \/ RunEnds \/ ApplyForCompletion \/ ReviewFails
               \/ \E d \in {"waiting", "continue", "malformed"} : Outcome(d)
               \/ \E d \in Decisions : ReviewReturns(d)
      BY <1>1, <3>3, RunStepServes
    <3>4. CASE ModelCall \/ RequestPermission \/ Complete \/ TurnFails
      BY <1>1, <3>4, CallServes, CompleteServes, TurnFailsServes
    <3> QED  BY <2>3, <3>1, <3>2, <3>3, <3>4 DEF Work
  <2>4. CASE IdleTimeout \/ RequestExpires
    BY <1>1, <2>4, PollServes
  <2>5. CASE Restart
    BY <1>1, <2>5, RestartServes
  <2>6. CASE UNCHANGED vars
    BY <1>1, <2>6, NothingServes
  <2> QED  BY <1>1, <2>1, <2>2, <2>3, <2>4, <2>5, <2>6 DEF Next
<1>2. VInv => TasksServed
  BY DEF VInv, Service, QueuedOK, Serves, PInv, IInv, TasksServed
<1> QED  BY InitServes, PromisesInvariance, <1>1, <1>2, PTL DEF Spec, VInv
=============================================================================
