-------------------------- MODULE MemoryJobsProofs --------------------------
(***************************************************************************)
(* Theorems about MemoryJobs for every value of its constants.             *)
(***************************************************************************)
EXTENDS MemoryJobs, TLAPS

-----------------------------------------------------------------------------
(* The inductive invariant.                                                 *)

Extracting == {"entering", "extracting", "extracted"}

\* A process at work has a session; as long as the row is its own, a job it took up as
\* PENDING still is; and what it is about to publish says of merging what it will note down.
WorkOK ==
    \A p \in Procs :
        /\ pc[p] # "idle" => job[p] \in Sessions
        /\ pc[p] \in Extracting /\ worker[job[p]] = p => phase[job[p]] = "PENDING"
        /\ pc[p] = "extracted" => draft[p] = IF flag[p] THEN "merge=true" ELSE "merge=false"

IInv == TypeOK /\ WorkOK /\ DetailMatches

LEMMA Initially == Init => IInv
<1> SUFFICES ASSUME Init PROVE IInv
  OBVIOUS
<1>1. Empty \in Overviews
  BY DEF Empty, Overviews, NoSession
<1>2. TypeOK
  BY <1>1 DEF Init, TypeOK, SessionTypeOK, RowTypeOK, FileTypeOK, ProcTypeOK, WorkTypeOK, Details
<1>3. WorkOK /\ DetailMatches
  BY DEF Init, WorkOK, DetailMatches, Extracting
<1> QED  BY <1>2, <1>3 DEF IInv

-----------------------------------------------------------------------------
(* Steps that leave a part of the state alone.                              *)

\* Sessions come and go without the worker.
LEMMA SessionStep ==
    ASSUME IInv, UNCHANGED <<rowVars, fileVars, procVars, workVars>>, SessionTypeOK'
    PROVE  IInv'
BY DEF IInv, TypeOK, RowTypeOK, FileTypeOK, ProcTypeOK, WorkTypeOK, WorkOK, DetailMatches,
       rowVars, fileVars, procVars, workVars

\* Processes start and stop without touching rows, files and the work in hand.
LEMMA ProcStep ==
    ASSUME IInv, UNCHANGED <<sessionVars, rowVars, fileVars, workVars>>, ProcTypeOK'
    PROVE  IInv'
BY DEF IInv, TypeOK, SessionTypeOK, RowTypeOK, FileTypeOK, WorkTypeOK, WorkOK, DetailMatches,
       sessionVars, rowVars, fileVars, workVars

LEMMA BeginPreserves == ASSUME IInv, NEW p \in Procs, NEW s \in Sessions, Begin(p, s) PROVE IInv'
BY SessionStep DEF Begin, IInv, TypeOK, SessionTypeOK

LEMMA ArchivePreserves ==
    ASSUME IInv, NEW s \in Sessions, NEW running \in BOOLEAN, Archive(s, running)
    PROVE  IInv'
<1>1. SessionTypeOK'
  BY DEF Archive, IInv, TypeOK, SessionTypeOK
<1>2. RowTypeOK' /\ FileTypeOK' /\ ProcTypeOK' /\ WorkTypeOK'
  BY DEF Archive, IInv, TypeOK, RowTypeOK, FileTypeOK, ProcTypeOK, WorkTypeOK, Unfinished,
         fileVars, procVars, workVars
<1>3. WorkOK'
  BY DEF Archive, IInv, TypeOK, RowTypeOK, WorkOK, workVars
<1>4. DetailMatches'
  BY DEF Archive, IInv, TypeOK, RowTypeOK, DetailMatches, fileVars
<1> QED  BY <1>1, <1>2, <1>3, <1>4 DEF IInv, TypeOK

LEMMA TurnEndsPreserves ==
    ASSUME IInv, NEW p \in Procs, NEW s \in Sessions, TurnEnds(p, s) PROVE IInv'
BY SessionStep DEF TurnEnds, IInv, TypeOK, SessionTypeOK

LEMMA CleanPreserves ==
    ASSUME IInv, NEW p \in Procs, NEW s \in Sessions, Clean(p, s) PROVE IInv'
BY SessionStep DEF Clean, IInv, TypeOK, SessionTypeOK

LEMMA StartPreserves == ASSUME IInv, NEW p \in Procs, Start(p) PROVE IInv'
BY ProcStep DEF Start, IInv, TypeOK, ProcTypeOK

LEMMA StopPreserves ==
    ASSUME IInv, NEW p \in Procs, Stop(p) \/ Abort(p) \/ Exit(p) \/ LockLost(p) PROVE IInv'
<1>1. ProcTypeOK' /\ UNCHANGED <<sessionVars, rowVars, fileVars, workVars>>
  BY DEF Stop, Abort, Exit, LockLost, Unlocked, IInv, TypeOK, ProcTypeOK
<1> QED  BY <1>1, ProcStep

-----------------------------------------------------------------------------
(* Steps of a worker.                                                       *)

\* The registers of a process that goes on to its next job.
LEMMA ReleaseTypes ==
    ASSUME WorkTypeOK, NEW p \in Procs, Release(p)
    PROVE  /\ WorkTypeOK' /\ pc'[p] = "idle"
           /\ \A q \in Procs \ {p} : /\ pc'[q] = pc[q] /\ job'[q] = job[q] /\ flag'[q] = flag[q]
                                     /\ draft'[q] = draft[q]
<1>1. Empty \in Overviews
  BY DEF Empty, Overviews, NoSession
<1> QED  BY <1>1 DEF Release, WorkTypeOK, Details

\* A worker that goes on to its next job leaves nothing behind that matters.
LEMMA ReleaseKeeps ==
    ASSUME IInv, NEW p \in Procs, Release(p), RowTypeOK',
           \A s \in Sessions : worker'[s] \in {worker[s], NoProc},
           \A s \in Sessions : worker'[s] # NoProc => phase'[s] = phase[s]
    PROVE  WorkTypeOK' /\ WorkOK'
<1>1. WorkTypeOK'
  BY ReleaseTypes DEF IInv, TypeOK
<1>2. WorkOK'
  BY ReleaseTypes, MemoryAssumption DEF IInv, TypeOK, WorkOK, Extracting, NoProc
<1> QED  BY <1>1, <1>2

LEMMA ClaimPreserves == ASSUME IInv, NEW p \in Procs, NEW s \in Sessions, Claim(p, s) PROVE IInv'
<1>1. SessionTypeOK' /\ FileTypeOK' /\ ProcTypeOK'
  BY DEF Claim, IInv, TypeOK, SessionTypeOK, FileTypeOK, ProcTypeOK, sessionVars, fileVars, procVars
<1>2. RowTypeOK' /\ WorkTypeOK'
  BY DEF Claim, IInv, TypeOK, RowTypeOK, WorkTypeOK
<1>3. WorkOK'
  BY <1>2 DEF Claim, IInv, TypeOK, RowTypeOK, WorkTypeOK, WorkOK, Extracting
<1>4. DetailMatches'
  BY DEF Claim, IInv, DetailMatches, fileVars
<1> QED  BY <1>1, <1>2, <1>3, <1>4 DEF IInv, TypeOK

LEMMA TimePreserves ==
    ASSUME IInv, NEW s \in Sessions, LeaseExpires(s) \/ RetryDue(s) PROVE IInv'
<1>1. SessionTypeOK' /\ FileTypeOK' /\ ProcTypeOK' /\ WorkTypeOK'
  BY DEF LeaseExpires, RetryDue, IInv, TypeOK, SessionTypeOK, FileTypeOK, ProcTypeOK, WorkTypeOK,
         sessionVars, fileVars, procVars, workVars
<1>2. RowTypeOK'
  BY DEF LeaseExpires, RetryDue, IInv, TypeOK, RowTypeOK
<1>3. WorkOK' /\ DetailMatches'
  BY DEF LeaseExpires, RetryDue, IInv, WorkOK, DetailMatches, fileVars, workVars
<1> QED  BY <1>1, <1>2, <1>3 DEF IInv, TypeOK

\* Only the registers of one process change, and not what it has promised to note down.
LEMMA ReadsPreserves == ASSUME IInv, NEW p \in Procs, Reads(p) PROVE IInv'
<1>1. job[p] \in Sessions
  BY DEF Reads, IInv, WorkOK
<1>2. SessionTypeOK' /\ RowTypeOK' /\ FileTypeOK' /\ ProcTypeOK' /\ DetailMatches'
  BY DEF Reads, IInv, TypeOK, SessionTypeOK, RowTypeOK, FileTypeOK, ProcTypeOK, DetailMatches,
         sessionVars, rowVars, fileVars, procVars
<1>3. UNCHANGED <<rowVars, job, previous>>
  BY DEF Reads
<1>4. CASE detail[job[p]] # "none"
  <2> DEFINE b == SavedFlag(p)
  <2>1. /\ b \in BOOLEAN /\ detail[job[p]] \in Details
        /\ detail[job[p]] = IF b THEN "merge=true" ELSE "merge=false"
    BY <1>1, <1>4 DEF SavedFlag, IInv, TypeOK, FileTypeOK, Details
  <2>2. /\ pc[p] = "entering" /\ pc' = [pc EXCEPT ![p] = "extracted"]
        /\ flag' = [flag EXCEPT ![p] = b] /\ draft' = [draft EXCEPT ![p] = detail[job[p]]]
    BY <1>4 DEF Reads
  <2> HIDE DEF b
  <2>3. WorkTypeOK'
    BY <1>3, <2>1, <2>2 DEF IInv, TypeOK, WorkTypeOK
  <2>4. WorkOK'
    BY <1>3, <2>1, <2>2 DEF IInv, TypeOK, WorkTypeOK, WorkOK, Extracting, rowVars
  <2> QED  BY <1>2, <2>3, <2>4 DEF IInv, TypeOK
<1>5. CASE detail[job[p]] = "none"
  <2>1. /\ pc[p] = "entering" /\ pc' = [pc EXCEPT ![p] = "extracting"]
        /\ UNCHANGED <<flag, draft>>
    BY <1>5 DEF Reads
  <2>2. WorkTypeOK'
    BY <1>3, <2>1 DEF IInv, TypeOK, WorkTypeOK
  <2>3. WorkOK'
    BY <1>3, <2>1 DEF IInv, TypeOK, WorkTypeOK, WorkOK, Extracting, rowVars
  <2> QED  BY <1>2, <2>2, <2>3 DEF IInv, TypeOK
<1> QED  BY <1>4, <1>5

LEMMA ExtractsPreserves == ASSUME IInv, NEW p \in Procs, Extracts(p) PROVE IInv'
<1>1. SessionTypeOK' /\ RowTypeOK' /\ FileTypeOK' /\ ProcTypeOK' /\ DetailMatches'
  BY DEF Extracts, IInv, TypeOK, SessionTypeOK, RowTypeOK, FileTypeOK, ProcTypeOK, DetailMatches,
         sessionVars, rowVars, fileVars, procVars
<1>2. WorkTypeOK'
  BY DEF Extracts, IInv, TypeOK, WorkTypeOK, Details
<1>3. WorkOK'
  BY DEF Extracts, IInv, TypeOK, WorkTypeOK, WorkOK, Extracting, rowVars
<1> QED  BY <1>1, <1>2, <1>3 DEF IInv, TypeOK

LEMMA StartsMergePreserves == ASSUME IInv, NEW p \in Procs, StartsMerge(p) PROVE IInv'
<1>1. job[p] \in Sessions
  BY DEF StartsMerge, IInv, WorkOK
<1>2. SessionTypeOK' /\ RowTypeOK' /\ FileTypeOK' /\ ProcTypeOK' /\ DetailMatches'
  BY DEF StartsMerge, IInv, TypeOK, SessionTypeOK, RowTypeOK, FileTypeOK, ProcTypeOK,
         DetailMatches, sessionVars, rowVars, fileVars, procVars
<1>3. overview[OwnerOf[job[p]]] \in Overviews
  BY <1>1, MemoryAssumption DEF IInv, TypeOK, FileTypeOK
<1>4. WorkTypeOK'
  BY <1>3 DEF StartsMerge, IInv, TypeOK, WorkTypeOK
<1>5. WorkOK'
  BY DEF StartsMerge, IInv, TypeOK, WorkTypeOK, WorkOK, Extracting, rowVars
<1> QED  BY <1>2, <1>4, <1>5 DEF IInv, TypeOK

\* A process that may publish a detail works on its own job, which still is PENDING, so no
\* detail with a checkpoint is replaced.
LEMMA PublishesOwnDetail ==
    ASSUME IInv, NEW p \in Procs, PublishesDetail(p)
    PROVE  /\ job[p] \in Sessions /\ worker[job[p]] = p /\ phase[job[p]] = "PENDING"
           /\ draft[p] = IF flag[p] THEN "merge=true" ELSE "merge=false"
           /\ FileTypeOK' /\ detail'[job[p]] = draft[p]
           /\ \A s \in Sessions : s # job[p] => detail'[s] = detail[s]
BY DEF PublishesDetail, HoldsLease, IInv, TypeOK, FileTypeOK, WorkTypeOK, WorkOK, Extracting

LEMMA CheckpointPreserves == ASSUME IInv, NEW p \in Procs, Checkpoint(p) PROVE IInv'
<1> DEFINE s == job[p]
<1>1. PublishesDetail(p)
  BY DEF Checkpoint
<1>2. /\ s \in Sessions /\ worker[s] = p /\ FileTypeOK' /\ detail'[s] = draft[p]
      /\ draft[p] = IF flag[p] THEN "merge=true" ELSE "merge=false"
      /\ \A u \in Sessions : u # s => detail'[u] = detail[u]
  BY <1>1, PublishesOwnDetail
<1>3. /\ phase' = [phase EXCEPT ![s] = "EXTRACTED"] /\ merge' = [merge EXCEPT ![s] = flag[p]]
      /\ lease' = [lease EXCEPT ![s] = "live"] /\ pc' = [pc EXCEPT ![p] = "checkpointed"]
      /\ UNCHANGED <<worker, due, sessionVars, procVars, job, flag, draft, previous>>
  BY DEF Checkpoint, PublishesDetail
<1> HIDE DEF s
<1>4. SessionTypeOK' /\ ProcTypeOK'
  BY <1>3 DEF IInv, TypeOK, SessionTypeOK, ProcTypeOK, sessionVars, procVars
<1>5. RowTypeOK'
  BY <1>2, <1>3 DEF IInv, TypeOK, RowTypeOK, WorkTypeOK, Unfinished
<1>6. WorkTypeOK'
  BY <1>3 DEF IInv, TypeOK, WorkTypeOK
<1>7. WorkOK'
  <2> SUFFICES ASSUME NEW q \in Procs
               PROVE  /\ pc'[q] # "idle" => job[q] \in Sessions
                      /\ pc'[q] \in Extracting /\ worker[job[q]] = q => phase'[job[q]] = "PENDING"
                      /\ pc'[q] = "extracted" =>
                            draft[q] = IF flag[q] THEN "merge=true" ELSE "merge=false"
    BY <1>3 DEF WorkOK
  <2>1. CASE q = p
    BY <1>2, <1>3, <2>1 DEF s, IInv, TypeOK, WorkTypeOK, Extracting
  <2>2. CASE q # p
    <3>1. pc'[q] = pc[q]
      BY <1>3, <2>2 DEF IInv, TypeOK, WorkTypeOK
    <3>2. worker[job[q]] = q => phase'[job[q]] = phase[job[q]]
      BY <1>2, <1>3, <2>2 DEF IInv, TypeOK, RowTypeOK
    <3> QED  BY <3>1, <3>2 DEF IInv, WorkOK
  <2> QED  BY <2>1, <2>2
<1>8. DetailMatches'
  BY <1>2, <1>3 DEF IInv, TypeOK, RowTypeOK, WorkTypeOK, DetailMatches
<1> QED  BY <1>2, <1>4, <1>5, <1>6, <1>7, <1>8 DEF IInv, TypeOK

LEMMA LosesCheckpointPreserves == ASSUME IInv, NEW p \in Procs, LosesCheckpoint(p) PROVE IInv'
<1>1. PublishesDetail(p)
  BY DEF LosesCheckpoint
<1>2. SessionTypeOK' /\ ProcTypeOK' /\ RowTypeOK' /\ WorkTypeOK'
  BY <1>1 DEF LosesCheckpoint, PublishesDetail, IInv, TypeOK, SessionTypeOK, ProcTypeOK, RowTypeOK,
     WorkTypeOK, sessionVars, procVars, rowVars
<1>3. WorkOK'
  BY <1>1 DEF LosesCheckpoint, PublishesDetail, IInv, TypeOK, WorkTypeOK, WorkOK, Extracting,
     rowVars
<1>4. DetailMatches'
  BY <1>1, PublishesOwnDetail DEF LosesCheckpoint, IInv, DetailMatches, rowVars
<1> QED  BY <1>1, <1>2, <1>3, <1>4, PublishesOwnDetail DEF IInv, TypeOK

\* A process that gives a job its last phase clears the row's lease and goes on.
LEMMA FinishPreserves ==
    ASSUME IInv, NEW p \in Procs, NEW last \in Finished, HoldsLease(p), job[p] \in Sessions,
           Finish(p, last), Release(p), UNCHANGED <<sessionVars, procVars, detail>>, FileTypeOK'
    PROVE  IInv'
<1>1. RowTypeOK'
  BY DEF Finish, IInv, TypeOK, RowTypeOK
<1>2. WorkTypeOK' /\ WorkOK'
  <2>1. /\ \A s \in Sessions : worker'[s] \in {worker[s], NoProc}
        /\ \A s \in Sessions : worker'[s] # NoProc => phase'[s] = phase[s]
    BY DEF Finish, IInv, TypeOK, RowTypeOK
  <2> QED  BY <1>1, <2>1, ReleaseKeeps
<1>3. DetailMatches'
  BY DEF Finish, Finished, IInv, TypeOK, RowTypeOK, DetailMatches
<1>4. SessionTypeOK' /\ ProcTypeOK'
  BY DEF IInv, TypeOK, SessionTypeOK, ProcTypeOK, sessionVars, procVars
<1> QED  BY <1>1, <1>2, <1>3, <1>4 DEF IInv, TypeOK

LEMMA SkipsPreserves ==
    ASSUME IInv, NEW p \in Procs, Skips(p) \/ CompletesWithout(p) PROVE IInv'
<1>1. job[p] \in Sessions /\ HoldsLease(p) /\ Release(p) /\ FileTypeOK'
  BY DEF Skips, CompletesWithout, IInv, TypeOK, FileTypeOK, WorkOK, fileVars
<1>2. UNCHANGED <<sessionVars, procVars, detail>>
  BY DEF Skips, CompletesWithout, fileVars
<1>3. Finish(p, "SKIPPED") \/ Finish(p, "COMPLETED")
  BY DEF Skips, CompletesWithout
<1> QED  BY <1>1, <1>2, <1>3, FinishPreserves DEF Finished

\* What is published contains what it started from.
LEMMA PublishesOwnOverview ==
    ASSUME IInv, NEW p \in Procs, PublishesOverview(p)
    PROVE  job[p] \in Sessions /\ HoldsLease(p) /\ FileTypeOK'
<1>1. job[p] \in Sessions
  BY DEF PublishesOverview, IInv, WorkOK
<1>2. [marker |-> job[p], text |-> Append(previous[p].text, job[p])] \in Overviews
  BY <1>1 DEF IInv, TypeOK, WorkTypeOK, Overviews
<1> QED  BY <1>1, <1>2 DEF PublishesOverview, IInv, TypeOK, FileTypeOK

LEMMA CompletesPreserves == ASSUME IInv, NEW p \in Procs, Completes(p) PROVE IInv'
<1>1. /\ PublishesOverview(p) /\ Finish(p, "COMPLETED") /\ Release(p)
      /\ UNCHANGED <<sessionVars, procVars, detail>>
  BY DEF Completes, PublishesOverview
<1> QED  BY <1>1, PublishesOwnOverview, FinishPreserves DEF Finished

LEMMA LosesCompletionPreserves == ASSUME IInv, NEW p \in Procs, LosesCompletion(p) PROVE IInv'
<1>1. PublishesOverview(p)
  BY DEF LosesCompletion
<1>2. SessionTypeOK' /\ ProcTypeOK' /\ RowTypeOK' /\ WorkTypeOK'
  BY <1>1 DEF LosesCompletion, PublishesOverview, IInv, TypeOK, SessionTypeOK, ProcTypeOK,
     RowTypeOK, WorkTypeOK, sessionVars, procVars, rowVars
<1>3. WorkOK' /\ DetailMatches'
  BY <1>1 DEF LosesCompletion, PublishesOverview, IInv, TypeOK, WorkTypeOK, WorkOK, Extracting,
     DetailMatches, rowVars
<1> QED  BY <1>1, <1>2, <1>3, PublishesOwnOverview DEF IInv, TypeOK

LEMMA FailsPreserves ==
    ASSUME IInv, NEW p \in Procs, Fails(p) \/ FailsSilently(p) PROVE IInv'
<1>1. job[p] \in Sessions /\ Release(p) /\ UNCHANGED <<sessionVars, procVars, fileVars, merge>>
  BY DEF Fails, FailsSilently, IInv, WorkOK, rowVars
<1>2. /\ RowTypeOK' /\ phase' = phase
      /\ \A s \in Sessions : worker'[s] \in {worker[s], NoProc}
  BY <1>1 DEF Fails, FailsSilently, PhaseAfterFailure, IInv, TypeOK, RowTypeOK, rowVars
<1>3. WorkTypeOK' /\ WorkOK'
  BY <1>1, <1>2, ReleaseKeeps
<1>4. SessionTypeOK' /\ ProcTypeOK' /\ FileTypeOK' /\ DetailMatches'
  BY <1>1, <1>2 DEF IInv, TypeOK, SessionTypeOK, ProcTypeOK, FileTypeOK, DetailMatches,
     sessionVars, procVars, fileVars
<1> QED  BY <1>2, <1>3, <1>4 DEF IInv, TypeOK

LEMMA CrashPreserves == ASSUME IInv, NEW p \in Procs, Crash(p) PROVE IInv'
<1>1. SessionTypeOK' /\ RowTypeOK' /\ FileTypeOK' /\ ProcTypeOK' /\ DetailMatches'
  BY DEF Crash, Unlocked, IInv, TypeOK, SessionTypeOK, RowTypeOK, FileTypeOK, ProcTypeOK,
     DetailMatches, sessionVars, rowVars, fileVars
<1>2. WorkTypeOK' /\ WorkOK'
  BY <1>1, ReleaseKeeps DEF Crash, rowVars
<1> QED  BY <1>1, <1>2 DEF IInv, TypeOK

LEMMA RecoverPreserves == ASSUME IInv, NEW p \in Procs, Recover(p) PROVE IInv'
<1>1. SessionTypeOK' /\ RowTypeOK' /\ FileTypeOK' /\ ProcTypeOK' /\ WorkTypeOK'
  BY DEF Recover, IInv, TypeOK, SessionTypeOK, RowTypeOK, FileTypeOK, ProcTypeOK, WorkTypeOK,
     fileVars, workVars
<1>2. WorkOK'
  BY MemoryAssumption DEF Recover, IInv, TypeOK, WorkOK, Extracting, NoProc, workVars
<1>3. DetailMatches'
  BY DEF Recover, IInv, DetailMatches, fileVars
<1> QED  BY <1>1, <1>2, <1>3 DEF IInv, TypeOK

LEMMA HandEditPreserves == ASSUME IInv, NEW o \in Owners, HandEdit(o) PROVE IInv'
<1>1. FileTypeOK'
  <2>1. overview[o].marker \in Sessions \cup {NoSession} /\ overview[o].text \in Seq(Sessions \cup {Edit})
    BY DEF IInv, TypeOK, FileTypeOK, Overviews
  <2>2. \A m \in {overview[o].marker, NoSession} :
          [marker |-> m, text |-> Append(overview[o].text, Edit)] \in Overviews
    BY <2>1 DEF Overviews
  <2> QED  BY <2>2 DEF HandEdit, IInv, TypeOK, FileTypeOK
<1>2. SessionTypeOK' /\ RowTypeOK' /\ ProcTypeOK' /\ WorkTypeOK' /\ WorkOK' /\ DetailMatches'
  BY DEF HandEdit, IInv, TypeOK, SessionTypeOK, RowTypeOK, ProcTypeOK, WorkTypeOK, WorkOK,
     DetailMatches, sessionVars, rowVars, procVars, workVars
<1> QED  BY <1>1, <1>2 DEF IInv, TypeOK

LEMMA StutterPreserves == ASSUME IInv, UNCHANGED vars PROVE IInv'
BY SessionStep DEF vars, IInv, TypeOK, SessionTypeOK, sessionVars

-----------------------------------------------------------------------------
(* The theorems.                                                            *)

LEMMA WorkerPreserves ==
    ASSUME IInv, NEW p \in Procs,
           \/ Skips(p) \/ Reads(p) \/ Extracts(p) \/ Checkpoint(p) \/ LosesCheckpoint(p)
           \/ CompletesWithout(p) \/ StartsMerge(p) \/ Completes(p) \/ LosesCompletion(p)
           \/ Fails(p) \/ FailsSilently(p)
    PROVE  IInv'
BY SkipsPreserves, ReadsPreserves, ExtractsPreserves, CheckpointPreserves,
   LosesCheckpointPreserves, StartsMergePreserves, CompletesPreserves,
   LosesCompletionPreserves, FailsPreserves

LEMMA SessionPreserves ==
    ASSUME IInv, NEW p \in Procs, NEW s \in Sessions,
           \/ Begin(p, s) \/ EndManually(p, s) \/ EndIdle(p, s) \/ EndInterrupted(p, s)
           \/ TurnEnds(p, s) \/ Clean(p, s) \/ Claim(p, s)
    PROVE  IInv'
BY BeginPreserves, ArchivePreserves, TurnEndsPreserves, CleanPreserves, ClaimPreserves
   DEF EndManually, EndIdle, EndInterrupted

\* The invariant holds of every behaviour.
THEOREM Invariance == Spec => []IInv
<1>1. ASSUME IInv, [Next]_vars PROVE IInv'
  <2>1. ASSUME NEW s \in Sessions, LeaseExpires(s) \/ RetryDue(s) PROVE IInv'
    BY <1>1, <2>1, TimePreserves
  <2>2. ASSUME NEW o \in Owners, HandEdit(o) PROVE IInv'
    BY <1>1, <2>2, HandEditPreserves
  <2>3. ASSUME NEW p \in Procs,
               \/ Start(p) \/ Recover(p) \/ Stop(p) \/ Abort(p) \/ Exit(p) \/ Crash(p)
               \/ LockLost(p)
        PROVE  IInv'
    BY <1>1, <2>3, StartPreserves, RecoverPreserves, StopPreserves, CrashPreserves
  <2>4. CASE UNCHANGED vars
    BY <1>1, <2>4, StutterPreserves
  <2> QED
    BY <1>1, <2>1, <2>2, <2>3, <2>4, WorkerPreserves, SessionPreserves DEF Next
<1> QED  BY Initially, <1>1, PTL DEF Spec

\* Tables, files and registers keep their types, however many sessions and processes.
THEOREM MemoryTypes == Spec => []TypeOK
<1>1. IInv => TypeOK
  BY DEF IInv
<1> QED  BY Invariance, <1>1, PTL

\* A job that is EXTRACTED has a detail file that says of merging what the row says, whatever
\* was lost between file and row, however many processes overlap.
THEOREM RowMatchesFile == Spec => []DetailMatches
<1>1. IInv => DetailMatches
  BY DEF IInv
<1> QED  BY Invariance, <1>1, PTL

\* A detail with a checkpoint is never written again: the writer holds the lease of a job
\* that still is PENDING.
THEOREM Frozen == Spec => DetailFrozen
<1> DEFINE Kept == \A s \in Sessions :
                      phase[s] \in {"EXTRACTED"} \cup Finished => detail'[s] = detail[s]
<1>1. ASSUME IInv, [Next]_vars PROVE Kept
  <2>1. CASE UNCHANGED detail
    BY <2>1
  <2>2. ASSUME NEW p \in Procs, PublishesDetail(p) PROVE Kept
    BY <1>1, <2>2, PublishesOwnDetail DEF Finished
  <2>3. ASSUME NEW p \in Procs,
               \/ Skips(p) \/ Reads(p) \/ Extracts(p) \/ CompletesWithout(p) \/ StartsMerge(p)
               \/ Completes(p) \/ LosesCompletion(p) \/ Fails(p) \/ FailsSilently(p)
               \/ Start(p) \/ Recover(p) \/ Stop(p) \/ Abort(p) \/ Exit(p) \/ Crash(p)
               \/ LockLost(p)
        PROVE  UNCHANGED detail
    BY <2>3 DEF fileVars, Skips, Reads, Extracts, CompletesWithout, StartsMerge, Completes,
       LosesCompletion, PublishesOverview, Fails, FailsSilently, Start, Recover, Stop, Abort,
       Exit, Crash, LockLost
  <2>4. ASSUME NEW p \in Procs, NEW s \in Sessions,
               \/ Begin(p, s) \/ EndManually(p, s) \/ EndIdle(p, s) \/ EndInterrupted(p, s)
               \/ TurnEnds(p, s) \/ Clean(p, s) \/ Claim(p, s)
        PROVE  UNCHANGED detail
    BY <2>4 DEF fileVars, Begin, EndManually, EndIdle, EndInterrupted, Archive, TurnEnds,
       Clean, Claim
  <2>5. \A s \in Sessions : LeaseExpires(s) \/ RetryDue(s) => UNCHANGED detail
    BY DEF fileVars, LeaseExpires, RetryDue
  <2>6. \A o \in Owners : HandEdit(o) => UNCHANGED detail
    BY DEF HandEdit
  <2>7. \A p \in Procs : Checkpoint(p) \/ LosesCheckpoint(p) => PublishesDetail(p)
    BY DEF Checkpoint, LosesCheckpoint
  <2>8. UNCHANGED vars => UNCHANGED detail
    BY DEF vars, fileVars
  <2> HIDE DEF Kept
  <2> QED  BY <1>1, <2>1, <2>2, <2>3, <2>4, <2>5, <2>6, <2>7, <2>8 DEF Next
<1> QED  BY <1>1, Invariance, PTL DEF Spec, DetailFrozen

-----------------------------------------------------------------------------
(* Overviews only grow.                                                     *)

\* The IsPrefix of the community modules holds of a sequence and what extends it.
LEMMA AppendExtends ==
    ASSUME NEW S, NEW t \in Seq(S), NEW e \in S
    PROVE  IsPrefix(t, t) /\ IsPrefix(t, Append(t, e))
BY DEF IsPrefix

Grows(o) == IsPrefix(overview[o].text, overview'[o].text)

\* What is put in place of MEMORY.md is what was there, with an entry more.
LEMMA ReplacedByMore ==
    ASSUME IInv, NEW o \in Owners, NEW e \in Sessions \cup {Edit},
           NEW m, NEW u \in Owners,
           overview' = [overview EXCEPT ![u] = [marker |-> m,
                                                text |-> Append(overview[u].text, e)]]
    PROVE  Grows(o)
<1>1. overview[o].text \in Seq(Sessions \cup {Edit})
  BY DEF IInv, TypeOK, FileTypeOK, Overviews
<1>2. IsPrefix(overview[o].text, overview[o].text)
      /\ IsPrefix(overview[o].text, Append(overview[o].text, e))
  BY <1>1, AppendExtends
<1>3. \/ overview'[o].text = overview[o].text
      \/ overview'[o].text = Append(overview[o].text, e)
  BY DEF IInv, TypeOK, FileTypeOK
<1> QED  BY <1>2, <1>3 DEF Grows

\* Neither a hand edit nor an earlier session is lost to a merge, for any number of overlapping
\* processes: what a merge publishes extends the revision it compares with.
THEOREM NothingLost == Spec => OverviewOnlyGrows
<1>1. ASSUME IInv, [Next]_vars, NEW o \in Owners PROVE Grows(o)
  <2>1. CASE UNCHANGED overview
    <3>1. overview[o].text \in Seq(Sessions \cup {Edit})
      BY <1>1 DEF IInv, TypeOK, FileTypeOK, Overviews
    <3>2. IsPrefix(overview[o].text, overview[o].text)
      BY <3>1, AppendExtends DEF Edit
    <3> QED  BY <2>1, <3>2 DEF Grows
  <2>2. ASSUME NEW p \in Procs, PublishesOverview(p) PROVE Grows(o)
    <3>1. job[p] \in Sessions
      BY <1>1, <2>2, PublishesOwnOverview
    <3>2. OwnerOf[job[p]] \in Owners
      BY <3>1, MemoryAssumption
    <3>3. overview' = [overview EXCEPT ![OwnerOf[job[p]]] =
             [marker |-> job[p], text |-> Append(overview[OwnerOf[job[p]]].text, job[p])]]
      BY <2>2 DEF PublishesOverview, SameRevision
    <3> QED  BY <1>1, <3>1, <3>2, <3>3, ReplacedByMore
  <2>3. ASSUME NEW u \in Owners, HandEdit(u) PROVE Grows(o)
    <3>1. PICK m \in {overview[u].marker, NoSession} :
             overview' = [overview EXCEPT ![u] = [marker |-> m, text |-> Append(@.text, Edit)]]
      BY <2>3 DEF HandEdit
    <3>2. overview' = [overview EXCEPT ![u] = [marker |-> m,
                                               text |-> Append(overview[u].text, Edit)]]
      BY <1>1, <3>1 DEF IInv, TypeOK, FileTypeOK
    <3> QED  BY <1>1, <3>2, ReplacedByMore
  <2>4. \/ UNCHANGED overview
        \/ \E p \in Procs : PublishesOverview(p)
        \/ \E u \in Owners : HandEdit(u)
    BY <1>1 DEF Next, vars, fileVars, LeaseExpires, RetryDue, Begin, EndManually,
       EndIdle, EndInterrupted, Archive, TurnEnds, Clean, Claim, Skips, Reads, Extracts,
       PublishesDetail, Checkpoint, LosesCheckpoint, CompletesWithout, StartsMerge, Completes,
       LosesCompletion, Fails, FailsSilently, Start, Recover, Stop, Abort, Exit, Crash, LockLost
  <2> QED  BY <2>1, <2>2, <2>3, <2>4
<1>2. ASSUME IInv, [Next]_vars
      PROVE  \A o \in Owners : IsPrefix(overview[o].text, overview'[o].text)
  BY <1>1, <1>2 DEF Grows
<1> QED  BY <1>2, Invariance, PTL DEF Spec, OverviewOnlyGrows
=============================================================================
