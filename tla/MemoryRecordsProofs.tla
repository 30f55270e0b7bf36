------------------------ MODULE MemoryRecordsProofs ------------------------
(***************************************************************************)
(* What MemoryJobs keeps of every session, for every value of its          *)
(* constants: nothing worth keeping is forgotten, nothing is recorded      *)
(* twice, and sessions are recorded in the order they ended, as the        *)
(* MemoryLedger has it.  Rests on the invariant of MemoryJobsProofs.       *)
(***************************************************************************)
EXTENDS MemoryJobsProofs

-----------------------------------------------------------------------------
(* The inductive invariant, on top of IInv.                                 *)

Merging == {"checkpointed", "merging"}
Listed(s) == \E i \in DOMAIN ended : ended[i] = s
Text(s) == overview[OwnerOf[s]].text

\* Rows are those of the sessions that have ended, and a session has only one.
ListOK ==
    /\ \A s \in Sessions : phase[s] # "none" <=> Listed(s)
    /\ \A s \in active : phase[s] = "none"
    /\ \A s \in Sessions : phase[s] = "none" => worker[s] = NoProc

\* A job that was taken up, or has its detail, waits for no other of its user.
TurnOK ==
    \A s \in Sessions :
        worker[s] # NoProc \/ phase[s] = "EXTRACTED" =>
            \A u \in Older(s) : phase[u] \in Finished

\* A process that merges, and still has the lease, goes by what the row says, and began
\* with an overview that had not the job's marker.
MergeOK ==
    \A p \in Procs :
        pc[p] \in Merging /\ worker[job[p]] = p =>
            /\ phase[job[p]] = "EXTRACTED" /\ flag[p] = merge[job[p]]
            /\ pc[p] = "merging" => flag[p] /\ previous[p].marker # job[p]

\* What is recorded of a session by the time its job is EXTRACTED, and what the marker says.
\* Whatever was recorded of it is still the latest entry, unless the user has edited since.
RecordedOK ==
    \A s \in Sessions :
        /\ phase[s] = "EXTRACTED" /\ ~merge[s] => Entries(s) = {}
        /\ overview[OwnerOf[s]].marker = s => Entries(s) # {}
        /\ phase[s] = "EXTRACTED" /\ overview[OwnerOf[s]].marker # s =>
              \A i \in Entries(s) : \E e \in i..Len(Text(s)) : Text(s)[e] = Edit

RInv == IInv /\ ListOK /\ TurnOK /\ MergeOK /\ RecordedOK /\ NothingForgotten /\ MergedOnce

LEMMA RecordsInitially == Init => RInv
<1> SUFFICES ASSUME Init PROVE RInv
  OBVIOUS
<1>1. /\ ended = <<>> /\ active = {} /\ overview = [o \in Owners |-> Empty]
      /\ phase = [s \in Sessions |-> "none"] /\ worker = [s \in Sessions |-> NoProc]
      /\ pc = [p \in Procs |-> "idle"]
  BY DEF Init
<1>2. \A s \in Sessions : /\ overview[OwnerOf[s]].text = <<>> /\ Entries(s) = {}
                          /\ overview[OwnerOf[s]].marker = "none" /\ s # "none"
  BY <1>1, MemoryAssumption DEF Entries, Empty, NoSession
<1>3. ListOK /\ TurnOK /\ MergeOK
  BY <1>1 DEF ListOK, Listed, TurnOK, MergeOK, Merging
<1>4. RecordedOK /\ NothingForgotten /\ MergedOnce
  BY <1>1, <1>2 DEF RecordedOK, NothingForgotten, MergedOnce
<1> QED  BY <1>3, <1>4, Initially DEF RInv

-----------------------------------------------------------------------------
(* Steps that leave rows and overviews alone.                               *)

\* Jobs keep their phase, overviews their text; a lease may be given up, and a process may
\* come to any stage before the merge.
Outside ==
    /\ UNCHANGED <<overview, phase, merge, ended>>
    /\ \A s \in active' : phase[s] = "none"
    /\ \A s \in Sessions : worker'[s] \in {worker[s], NoProc}
    /\ \A s \in Sessions : phase[s] # "PENDING" => detail'[s] = detail[s]
    /\ \A p \in Procs : pc'[p] \in Merging =>
          /\ pc'[p] = pc[p] /\ job'[p] = job[p] /\ flag'[p] = flag[p]
          /\ previous'[p] = previous[p]

LEMMA OutsidePreserves == ASSUME RInv, IInv', Outside PROVE RInv'
<1>1. UNCHANGED <<overview, phase, merge, ended>>
  BY DEF Outside
<1>2. \A s \in Sessions : /\ Entries(s)' = Entries(s) /\ Older(s)' = Older(s)
                          /\ Listed(s)' = Listed(s) /\ Text(s)' = Text(s)
  BY <1>1 DEF Entries, Older, Listed, Text
<1>3. ListOK'
  BY <1>1, <1>2 DEF RInv, ListOK, Outside
<1>4. TurnOK'
  BY <1>1, <1>2 DEF RInv, TurnOK, Outside
<1>5. MergeOK'
  <2> SUFFICES ASSUME NEW p \in Procs, pc'[p] \in Merging, worker'[job'[p]] = p
               PROVE  /\ phase[job[p]] = "EXTRACTED" /\ flag[p] = merge[job[p]]
                      /\ pc[p] = "merging" => flag[p] /\ previous[p].marker # job[p]
                      /\ pc'[p] = pc[p] /\ job'[p] = job[p] /\ flag'[p] = flag[p]
                      /\ previous'[p] = previous[p]
    BY <1>1 DEF MergeOK
  <2>1. /\ pc'[p] = pc[p] /\ job'[p] = job[p] /\ flag'[p] = flag[p]
        /\ previous'[p] = previous[p]
    BY DEF Outside
  <2>2. job[p] \in Sessions
    BY <2>1 DEF RInv, IInv, WorkOK, Merging
  <2>3. worker[job[p]] = p
    BY <2>1, <2>2, MemoryAssumption DEF Outside, NoProc
  <2> QED  BY <2>1, <2>3 DEF RInv, MergeOK
<1>6. RecordedOK' /\ MergedOnce'
  BY <1>1, <1>2 DEF RInv, RecordedOK, MergedOnce, Text
<1>7. NothingForgotten'
  BY <1>1, <1>2 DEF RInv, NothingForgotten, Outside
<1> QED  BY <1>3, <1>4, <1>5, <1>6, <1>7 DEF RInv

\* Sessions, leases and processes come and go.
LEMMA MovesOutside ==
    ASSUME RInv, IInv', NEW p \in Procs, NEW s \in Sessions,
           \/ LeaseExpires(s) \/ RetryDue(s) \/ Begin(p, s) \/ TurnEnds(p, s) \/ Clean(p, s)
           \/ Start(p) \/ Recover(p) \/ Stop(p) \/ Abort(p) \/ Exit(p) \/ LockLost(p)
           \/ UNCHANGED vars
    PROVE  RInv'
<1>1. UNCHANGED <<overview, detail, phase, merge, ended, workVars>>
  BY DEF LeaseExpires, RetryDue, Begin, TurnEnds, Clean, Start, Recover, Stop, Abort, Exit,
         LockLost, vars, sessionVars, rowVars, fileVars
<1>2. active' = active \/ (active' = active \cup {s} /\ phase[s] = "none")
  BY DEF LeaseExpires, RetryDue, Begin, TurnEnds, Clean, Start, Recover, Stop, Abort, Exit,
         LockLost, vars, sessionVars
<1>3. \A u \in Sessions : worker'[u] \in {worker[u], NoProc}
  <2>1. CASE Recover(p)
    BY <2>1 DEF Recover
  <2>2. CASE ~Recover(p)
    BY <2>2 DEF LeaseExpires, RetryDue, Begin, TurnEnds, Clean, Start, Stop, Abort, Exit,
         LockLost, vars, rowVars
  <2> QED  BY <2>1, <2>2
<1>4. \A u \in active : phase[u] = "none"
  BY DEF RInv, ListOK
<1>5. Outside
  BY <1>1, <1>2, <1>3, <1>4 DEF Outside, workVars
<1> QED  BY <1>5, OutsidePreserves

\* A process on its way to the merge, or giving up.
LEMMA WorkerOutside ==
    ASSUME RInv, IInv', NEW p \in Procs,
           Reads(p) \/ Extracts(p) \/ LosesCheckpoint(p) \/ Fails(p) \/ FailsSilently(p) \/ Crash(p)
    PROVE  RInv'
<1>1. UNCHANGED <<overview, merge, sessionVars>>
  BY DEF Reads, Extracts, LosesCheckpoint, PublishesDetail, Fails, FailsSilently, Crash,
         fileVars, rowVars
<1>2. phase' = phase /\ \A u \in Sessions : worker'[u] \in {worker[u], NoProc}
  <2>1. CASE Fails(p)
    <3>1. job[p] \in Sessions
      BY <2>1 DEF Fails, RInv, IInv, WorkOK
    <3>2. \/ /\ phase' = [phase EXCEPT ![job[p]] = phase[job[p]]]
             /\ worker' = [worker EXCEPT ![job[p]] = NoProc]
          \/ UNCHANGED <<phase, worker>>
      BY <2>1 DEF Fails, PhaseAfterFailure
    <3> QED  BY <3>1, <3>2 DEF RInv, IInv, TypeOK, RowTypeOK
  <2>2. CASE ~Fails(p)
    BY <2>2 DEF Reads, Extracts, LosesCheckpoint, FailsSilently, Crash, rowVars
  <2> QED  BY <2>1, <2>2
<1>3. \A u \in Sessions : phase[u] # "PENDING" => detail'[u] = detail[u]
  <2>1. CASE LosesCheckpoint(p)
    BY <2>1, PublishesOwnDetail DEF LosesCheckpoint, RInv
  <2>2. CASE ~LosesCheckpoint(p)
    BY <2>2 DEF Reads, Extracts, Fails, FailsSilently, Crash, fileVars
  <2> QED  BY <2>1, <2>2
<1>4. ASSUME NEW q \in Procs, pc'[q] \in Merging
      PROVE  /\ pc'[q] = pc[q] /\ job'[q] = job[q] /\ flag'[q] = flag[q]
             /\ previous'[q] = previous[q]
  <2>1. /\ pc \in [Procs -> {"idle", "entering", "extracting", "extracted", "checkpointed",
                             "merging", "failing"}]
        /\ job \in [Procs -> Sessions \cup {NoSession}] /\ flag \in [Procs -> BOOLEAN]
        /\ previous \in [Procs -> Overviews]
    BY DEF RInv, IInv, TypeOK, WorkTypeOK
  <2>2. CASE Reads(p) \/ Extracts(p)
    <3>1. /\ pc' = [pc EXCEPT ![p] = "extracted"] \/ pc' = [pc EXCEPT ![p] = "extracting"]
          /\ UNCHANGED <<job, previous>>
          /\ flag' = flag \/ \E b : flag' = [flag EXCEPT ![p] = b]
      BY <2>2 DEF Reads, Extracts
    <3> QED  BY <1>4, <2>1, <3>1 DEF Merging
  <2>3. CASE LosesCheckpoint(p)
    BY <1>4, <2>1, <2>3 DEF LosesCheckpoint, PublishesDetail, Merging
  <2>4. CASE Fails(p) \/ FailsSilently(p) \/ Crash(p)
    <3>1. Release(p)
      BY <2>4 DEF Fails, FailsSilently, Crash
    <3> QED  BY <1>4, <2>1, <3>1 DEF Release, Merging
  <2> QED  BY <2>2, <2>3, <2>4
<1>5. active' = active /\ ended' = ended
  BY <1>1 DEF sessionVars
<1>6. Outside
  BY <1>1, <1>2, <1>3, <1>4, <1>5 DEF Outside, RInv, ListOK
<1> QED  BY <1>6, OutsidePreserves

-----------------------------------------------------------------------------
(* Steps that move a row.                                                   *)

\* A session that ends comes last, and nothing is recorded of it yet.
LEMMA ArchiveRecords ==
    ASSUME RInv, IInv', NEW s \in Sessions, NEW running \in BOOLEAN, Archive(s, running)
    PROVE  RInv'
<1>1. /\ s \in active /\ phase[s] = "none" /\ ~Listed(s) /\ worker[s] = NoProc
      /\ active' = active \ {s} /\ ended' = Append(ended, s)
      /\ phase' = [phase EXCEPT ![s] = "PENDING"]
      /\ UNCHANGED <<overview, detail, merge, worker, pc, job, flag, previous>>
  BY DEF Archive, RInv, ListOK, fileVars, workVars
<1>2. /\ ended \in Seq(Sessions) /\ phase'[s] = "PENDING"
      /\ \A u \in Sessions \ {s} : phase'[u] = phase[u]
  BY <1>1 DEF RInv, IInv, TypeOK, SessionTypeOK, RowTypeOK
<1>3. \A u \in Sessions : Entries(u)' = Entries(u) /\ Text(u)' = Text(u)
  BY <1>1 DEF Entries, Text
<1>4. /\ DOMAIN ended' = 1..(Len(ended) + 1) /\ DOMAIN ended = 1..Len(ended) /\ Len(ended) \in Nat
      /\ ended'[Len(ended) + 1] = s /\ \A i \in 1..Len(ended) : ended'[i] = ended[i]
  BY <1>1, <1>2
<1>5. \A u \in Sessions : Listed(u)' <=> Listed(u) \/ u = s
  BY <1>4 DEF Listed
<1>6. ASSUME NEW u \in Sessions, u # s PROVE Older(u)' = Older(u)
  <2>1. \A i \in DOMAIN ended' : (\E k \in DOMAIN ended' : i < k /\ ended'[k] = u) <=>
            i \in DOMAIN ended /\ \E k \in DOMAIN ended : i < k /\ ended[k] = u
    BY <1>4, <1>6
  <2>2. {i \in DOMAIN ended' : /\ OwnerOf[ended'[i]] = OwnerOf[u]
                               /\ \E k \in DOMAIN ended' : i < k /\ ended'[k] = u}
        = {i \in DOMAIN ended : /\ OwnerOf[ended[i]] = OwnerOf[u]
                                /\ \E k \in DOMAIN ended : i < k /\ ended[k] = u}
    BY <2>1, <1>4
  <2> QED  BY <2>2, <1>4 DEF Older
<1>7. ListOK'
  BY <1>1, <1>2, <1>5, MemoryAssumption DEF RInv, ListOK, IInv, TypeOK, SessionTypeOK
<1>8. TurnOK'
  <2> SUFFICES ASSUME NEW u \in Sessions, worker[u] # NoProc \/ phase'[u] = "EXTRACTED",
                      NEW v \in Older(u)'
               PROVE  phase'[v] \in Finished
    BY <1>1 DEF TurnOK
  <2>1. u # s
    BY <1>1, <1>2
  <2>2. v \in Older(u) /\ phase[v] \in Finished
    BY <1>2, <1>6, <2>1 DEF RInv, TurnOK
  <2>3. v \in Sessions /\ v # s
    BY <1>1, <1>2, <2>2 DEF Older, Finished
  <2> QED  BY <1>2, <2>2, <2>3
<1>9. MergeOK'
  <2> SUFFICES ASSUME NEW p \in Procs, pc[p] \in Merging, worker[job[p]] = p
               PROVE  /\ phase'[job[p]] = "EXTRACTED" /\ flag[p] = merge[job[p]]
                      /\ pc[p] = "merging" => flag[p] /\ previous[p].marker # job[p]
    BY <1>1 DEF MergeOK
  <2>1. job[p] \in Sessions \ {s}
    BY <1>1, MemoryAssumption DEF RInv, IInv, WorkOK, Merging, NoProc
  <2> QED  BY <1>2, <2>1 DEF RInv, MergeOK
<1>10. RecordedOK' /\ NothingForgotten' /\ MergedOnce'
  BY <1>1, <1>2, <1>3 DEF RInv, RecordedOK, NothingForgotten, MergedOnce, Text
<1> QED  BY <1>7, <1>8, <1>9, <1>10 DEF RInv

\* A claim is for the oldest job of its user.
LEMMA ClaimRecords ==
    ASSUME RInv, IInv', NEW p \in Procs, NEW s \in Sessions, Claim(p, s) PROVE RInv'
<1>1. /\ Claimable(s) /\ pc[p] = "idle"
      /\ worker' = [worker EXCEPT ![s] = p]
      /\ job' = [job EXCEPT ![p] = s] /\ flag' = [flag EXCEPT ![p] = merge[s]]
      /\ pc' = [pc EXCEPT ![p] = IF phase[s] = "PENDING" THEN "entering" ELSE "checkpointed"]
      /\ UNCHANGED <<overview, detail, merge, phase, ended, active, previous>>
  BY DEF Claim, sessionVars, fileVars
<1>2. /\ \A u \in Sessions : Entries(u)' = Entries(u) /\ Text(u)' = Text(u)
      /\ \A u \in Sessions : Older(u)' = Older(u) /\ Listed(u)' = Listed(u)
  BY <1>1 DEF Entries, Text, Older, Listed
<1>3. worker'[s] = p /\ \A u \in Sessions \ {s} : worker'[u] = worker[u]
  BY <1>1 DEF RInv, IInv, TypeOK, RowTypeOK
<1>4. ListOK'
  BY <1>1, <1>2, <1>3 DEF RInv, ListOK, Claimable, Unfinished
<1>5. TurnOK'
  BY <1>1, <1>2, <1>3 DEF RInv, TurnOK, Claimable
<1>6. MergeOK'
  <2> SUFFICES ASSUME NEW q \in Procs, pc'[q] \in Merging, worker'[job'[q]] = q
               PROVE  /\ phase[job'[q]] = "EXTRACTED" /\ flag'[q] = merge[job'[q]]
                      /\ pc'[q] = "merging" => flag'[q] /\ previous[q].marker # job'[q]
    BY <1>1 DEF MergeOK
  <2>1. CASE q = p
    <3>1. job'[p] = s /\ flag'[p] = merge[s] /\ phase[s] # "PENDING" /\ pc'[p] = "checkpointed"
      BY <1>1, <2>1 DEF RInv, IInv, TypeOK, WorkTypeOK, Merging
    <3> QED  BY <1>1, <2>1, <3>1 DEF Claimable, Unfinished
  <2>2. CASE q # p
    <3>1. pc'[q] = pc[q] /\ job'[q] = job[q] /\ flag'[q] = flag[q]
      BY <1>1, <2>2 DEF RInv, IInv, TypeOK, WorkTypeOK
    <3>2. job[q] \in Sessions \ {s} /\ worker[job[q]] = q
      BY <1>3, <2>2, <3>1 DEF RInv, IInv, WorkOK, Merging
    <3> QED  BY <3>1, <3>2 DEF RInv, MergeOK
  <2> QED  BY <2>1, <2>2
<1>7. RecordedOK' /\ NothingForgotten' /\ MergedOnce'
  BY <1>1, <1>2 DEF RInv, RecordedOK, NothingForgotten, MergedOnce, Text
<1> QED  BY <1>4, <1>5, <1>6, <1>7 DEF RInv

\* With its checkpoint a job has a detail, and nothing is recorded of it yet.
LEMMA CheckpointRecords == ASSUME RInv, IInv', NEW p \in Procs, Checkpoint(p) PROVE RInv'
<1> DEFINE s == job[p]
<1>1. PublishesDetail(p)
  BY DEF Checkpoint
<1>2. /\ s \in Sessions /\ worker[s] = p /\ phase[s] = "PENDING"
      /\ \A u \in Sessions : u # s => detail'[u] = detail[u]
  BY <1>1, PublishesOwnDetail DEF RInv
<1>3. /\ phase' = [phase EXCEPT ![s] = "EXTRACTED"] /\ merge' = [merge EXCEPT ![s] = flag[p]]
      /\ pc' = [pc EXCEPT ![p] = "checkpointed"]
      /\ UNCHANGED <<worker, ended, active, overview, job, flag, previous>>
  BY DEF Checkpoint, PublishesDetail, sessionVars
<1>4. /\ phase'[s] = "EXTRACTED" /\ merge'[s] = flag[p] /\ pc'[p] = "checkpointed"
      /\ \A u \in Sessions \ {s} : phase'[u] = phase[u] /\ merge'[u] = merge[u]
      /\ \A q \in Procs \ {p} : pc'[q] = pc[q]
  BY <1>2, <1>3 DEF RInv, IInv, TypeOK, RowTypeOK, WorkTypeOK
<1>5. /\ \A u \in Sessions : Entries(u)' = Entries(u) /\ Text(u)' = Text(u)
      /\ \A u \in Sessions : Older(u)' = Older(u) /\ Listed(u)' = Listed(u)
  BY <1>3 DEF Entries, Text, Older, Listed
<1>6. ListOK'
  <2>1. s \notin active /\ Listed(s)
    BY <1>2 DEF RInv, ListOK
  <2>2. active \subseteq Sessions
    BY DEF RInv, IInv, TypeOK, SessionTypeOK
  <2> HIDE DEF s
  <2> QED  BY <2>1, <2>2, <1>2, <1>3, <1>4, <1>5 DEF RInv, ListOK
<1>7. TurnOK'
  <2> SUFFICES ASSUME NEW u \in Sessions, worker[u] # NoProc \/ phase'[u] = "EXTRACTED",
                      NEW v \in Older(u)
               PROVE  phase'[v] \in Finished
    BY <1>3, <1>5 DEF TurnOK
  <2>1. worker[u] # NoProc \/ phase[u] = "EXTRACTED"
    BY <1>2, <1>4, MemoryAssumption DEF NoProc
  <2>2. phase[v] \in Finished /\ v # s
    BY <1>2, <2>1 DEF RInv, TurnOK, Finished
  <2>3. v \in Sessions
    BY DEF Older, RInv, IInv, TypeOK, SessionTypeOK
  <2> QED  BY <1>4, <2>2, <2>3
<1>8. MergeOK'
  <2> SUFFICES ASSUME NEW q \in Procs, pc'[q] \in Merging, worker[job[q]] = q
               PROVE  /\ phase'[job[q]] = "EXTRACTED" /\ flag[q] = merge'[job[q]]
                      /\ pc'[q] = "merging" => flag[q] /\ previous[q].marker # job[q]
    BY <1>3 DEF MergeOK
  <2>1. CASE q = p
    BY <1>4, <2>1 DEF s
  <2>2. CASE q # p
    <3>1. pc'[q] = pc[q]
      BY <1>4, <2>2
    <3>2. job[q] \in Sessions \ {s}
      BY <1>2, <2>2, <3>1 DEF RInv, IInv, WorkOK, Merging
    <3> QED  BY <1>4, <3>1, <3>2 DEF RInv, MergeOK
  <2> QED  BY <2>1, <2>2
<1>9. Entries(s) = {} /\ overview[OwnerOf[s]].marker # s
  BY <1>2 DEF RInv, NothingForgotten, RecordedOK
<1> HIDE DEF s
<1>10. RecordedOK'
  BY <1>2, <1>3, <1>4, <1>5, <1>9 DEF RInv, RecordedOK, Text
<1>11. NothingForgotten' /\ MergedOnce'
  BY <1>2, <1>3, <1>4, <1>5 DEF RInv, NothingForgotten, MergedOnce
<1> QED  BY <1>6, <1>7, <1>8, <1>10, <1>11 DEF RInv

\* A row that gets its last phase, and what its step leaves to the caller to show.
LEMMA FinishRecords ==
    ASSUME RInv, IInv', NEW p \in Procs, NEW last \in Finished, job[p] \in Sessions,
           phase[job[p]] \in Unfinished, Finish(p, last), Release(p), UNCHANGED <<active, ended>>
    PROVE  /\ ListOK' /\ TurnOK' /\ MergeOK'
           /\ phase'[job[p]] = last
           /\ \A u \in Sessions \ {job[p]} : phase'[u] = phase[u] /\ merge'[u] = merge[u]
<1> DEFINE s == job[p]
<1>1. /\ s \in Sessions /\ phase[s] \in Unfinished
      /\ phase' = [phase EXCEPT ![s] = last] /\ merge' = [merge EXCEPT ![s] = TRUE]
      /\ worker' = [worker EXCEPT ![s] = NoProc]
  BY DEF Finish
<1>2. /\ phase'[s] = last /\ worker'[s] = NoProc
      /\ \A u \in Sessions \ {s} : /\ phase'[u] = phase[u] /\ merge'[u] = merge[u]
                                   /\ worker'[u] = worker[u]
  BY <1>1 DEF RInv, IInv, TypeOK, RowTypeOK
<1>3. \A u \in Sessions : Older(u)' = Older(u) /\ Listed(u)' = Listed(u)
  BY DEF Older, Listed
<1>4. ListOK'
  <2>1. s \notin active /\ Listed(s)
    BY <1>1 DEF RInv, ListOK, Unfinished
  <2>2. active \subseteq Sessions
    BY DEF RInv, IInv, TypeOK, SessionTypeOK
  <2> HIDE DEF s
  <2> QED  BY <2>1, <2>2, <1>2, <1>3 DEF RInv, ListOK, Finished
<1>5. TurnOK'
  <2> SUFFICES ASSUME NEW u \in Sessions, worker'[u] # NoProc \/ phase'[u] = "EXTRACTED",
                      NEW v \in Older(u)
               PROVE  phase'[v] \in Finished
    BY <1>3 DEF TurnOK
  <2>1. worker[u] # NoProc \/ phase[u] = "EXTRACTED"
    BY <1>2 DEF Finished
  <2>2. phase[v] \in Finished
    BY <2>1 DEF RInv, TurnOK
  <2>3. v \in Sessions
    BY DEF Older, RInv, IInv, TypeOK, SessionTypeOK
  <2> HIDE DEF s
  <2> QED  BY <1>2, <2>2, <2>3
<1>6. MergeOK'
  <2> SUFFICES ASSUME NEW q \in Procs, pc'[q] \in Merging, worker'[job'[q]] = q
               PROVE  /\ phase'[job'[q]] = "EXTRACTED" /\ flag'[q] = merge'[job'[q]]
                      /\ pc'[q] = "merging" => flag'[q] /\ previous'[q].marker # job'[q]
    BY DEF MergeOK
  <2>1. q # p /\ pc'[q] = pc[q] /\ job'[q] = job[q] /\ flag'[q] = flag[q]
        /\ previous'[q] = previous[q]
    <3>1. /\ pc' = [pc EXCEPT ![p] = "idle"] /\ job' = [job EXCEPT ![p] = NoSession]
          /\ flag' = [flag EXCEPT ![p] = FALSE] /\ previous' = [previous EXCEPT ![p] = Empty]
      BY DEF Release
    <3> QED  BY <3>1 DEF RInv, IInv, TypeOK, WorkTypeOK, Merging
  <2>2. job[q] \in Sessions \ {s} /\ worker[job[q]] = q
    <3>1. job[q] \in Sessions
      BY <2>1 DEF RInv, IInv, WorkOK, Merging
    <3>2. q # NoProc
      BY MemoryAssumption DEF NoProc
    <3> HIDE DEF s
    <3> QED  BY <1>2, <2>1, <3>1, <3>2
  <2> HIDE DEF s
  <2> QED  BY <1>2, <2>1, <2>2 DEF RInv, MergeOK
<1> QED  BY <1>2, <1>4, <1>5, <1>6

\* A job is completed without a merge only if it has nothing to merge, or has been merged.
LEMMA SkipsRecords ==
    ASSUME RInv, IInv', NEW p \in Procs, Skips(p) \/ CompletesWithout(p) PROVE RInv'
<1> DEFINE s == job[p]
<1>1. /\ s \in Sessions /\ HoldsLease(p) /\ Release(p)
      /\ UNCHANGED <<active, ended, overview, detail>>
  BY DEF Skips, CompletesWithout, RInv, IInv, WorkOK, sessionVars, fileVars
<1>2. PICK last \in Finished :
        /\ Finish(p, last)
        /\ last = "SKIPPED" => phase[s] = "PENDING"
        /\ last = "COMPLETED" => /\ phase[s] = "EXTRACTED" /\ flag[p] = merge[s]
                                 /\ ~flag[p] \/ overview[OwnerOf[s]].marker = s
  <2>1. CASE Skips(p)
    <3>1. phase[s] = "PENDING" /\ Finish(p, "SKIPPED")
      BY <1>1, <2>1 DEF Skips, HoldsLease, RInv, IInv, WorkOK, Extracting
    <3> QED  BY <3>1 DEF Finished
  <2>2. CASE CompletesWithout(p)
    <3>1. /\ pc[p] \in Merging /\ worker[s] = p /\ Finish(p, "COMPLETED")
          /\ ~flag[p] \/ overview[OwnerOf[s]].marker = s
      BY <2>2 DEF CompletesWithout, HoldsLease, AlreadyEntered, Merging
    <3>2. phase[s] = "EXTRACTED" /\ flag[p] = merge[s]
      BY <3>1 DEF RInv, MergeOK
    <3> QED  BY <3>1, <3>2 DEF Finished
  <2> QED  BY <2>1, <2>2
<1>3. /\ ListOK' /\ TurnOK' /\ MergeOK' /\ phase'[s] = last
      /\ \A u \in Sessions \ {s} : phase'[u] = phase[u] /\ merge'[u] = merge[u]
  <2>1. phase[s] \in Unfinished
    BY <1>1 DEF HoldsLease
  <2> QED  BY <1>1, <1>2, <2>1, FinishRecords
<1>4. \A u \in Sessions : Entries(u)' = Entries(u) /\ Text(u)' = Text(u)
  BY <1>1 DEF Entries, Text
<1>5. /\ last = "SKIPPED" => Entries(s) = {}
      /\ last = "COMPLETED" => (detail[s] = "merge=true" <=> Entries(s) # {})
  <2>1. last = "SKIPPED" => Entries(s) = {}
    BY <1>1, <1>2 DEF RInv, NothingForgotten
  <2>2. last = "COMPLETED" => detail[s] = IF merge[s] THEN "merge=true" ELSE "merge=false"
    BY <1>1, <1>2 DEF RInv, IInv, DetailMatches
  <2>3. last = "COMPLETED" => (merge[s] <=> Entries(s) # {})
    BY <1>1, <1>2 DEF RInv, RecordedOK
  <2> QED  BY <2>1, <2>2, <2>3
<1> HIDE DEF s
<1>6. RecordedOK' /\ MergedOnce'
  BY <1>1, <1>2, <1>3, <1>4 DEF RInv, RecordedOK, MergedOnce, Text, Finished
<1>7. NothingForgotten'
  BY <1>1, <1>2, <1>3, <1>4, <1>5 DEF RInv, NothingForgotten, Finished
<1> QED  BY <1>3, <1>6, <1>7 DEF RInv

LEMMA StartsMergeRecords == ASSUME RInv, IInv', NEW p \in Procs, StartsMerge(p) PROVE RInv'
<1>1. /\ pc[p] = "checkpointed" /\ flag[p] /\ ~AlreadyEntered(p)
      /\ pc' = [pc EXCEPT ![p] = "merging"]
      /\ previous' = [previous EXCEPT ![p] = overview[OwnerOf[job[p]]]]
      /\ UNCHANGED <<overview, detail, phase, merge, worker, ended, active, job, flag>>
  BY DEF StartsMerge, sessionVars, rowVars, fileVars
<1>2. /\ \A u \in Sessions : Entries(u)' = Entries(u) /\ Text(u)' = Text(u)
      /\ \A u \in Sessions : Older(u)' = Older(u) /\ Listed(u)' = Listed(u)
  BY <1>1 DEF Entries, Text, Older, Listed
<1>3. ListOK' /\ TurnOK'
  BY <1>1, <1>2 DEF RInv, ListOK, TurnOK
<1>4. MergeOK'
  <2> SUFFICES ASSUME NEW q \in Procs, pc'[q] \in Merging, worker[job[q]] = q
               PROVE  /\ phase[job[q]] = "EXTRACTED" /\ flag[q] = merge[job[q]]
                      /\ pc'[q] = "merging" => flag[q] /\ previous'[q].marker # job[q]
    BY <1>1 DEF MergeOK
  <2>1. CASE q = p
    <3>1. previous'[p] = overview[OwnerOf[job[p]]]
      BY <1>1 DEF RInv, IInv, TypeOK, WorkTypeOK
    <3> QED  BY <1>1, <2>1, <3>1 DEF RInv, MergeOK, Merging, AlreadyEntered
  <2>2. CASE q # p
    <3>1. pc'[q] = pc[q] /\ previous'[q] = previous[q]
      BY <1>1, <2>2 DEF RInv, IInv, TypeOK, WorkTypeOK
    <3> QED  BY <3>1 DEF RInv, MergeOK
  <2> QED  BY <2>1, <2>2
<1>5. RecordedOK' /\ NothingForgotten' /\ MergedOnce'
  BY <1>1, <1>2 DEF RInv, RecordedOK, NothingForgotten, MergedOnce, Text
<1> QED  BY <1>3, <1>4, <1>5 DEF RInv

-----------------------------------------------------------------------------
(* Steps that add to an overview.                                           *)

\* User o's overview gets the entry e, and m for its marker.
Enters(o, e, m) ==
    overview' = [overview EXCEPT ![o] = [marker |-> m, text |-> Append(overview[o].text, e)]]

\* What that changes for a session.
Added(u, o, e, m) ==
    /\ OwnerOf[u] # o => /\ overview'[OwnerOf[u]] = overview[OwnerOf[u]]
                         /\ Entries(u)' = Entries(u) /\ Text(u)' = Text(u)
    /\ OwnerOf[u] = o =>
          /\ Len(Text(u)) \in Nat /\ Len(Text(u)') = Len(Text(u)) + 1
          /\ \A i \in 1..Len(Text(u)) : Text(u)'[i] = Text(u)[i]
          /\ Text(u)'[Len(Text(u)) + 1] = e
          /\ Entries(u) \subseteq 1..Len(Text(u))
          /\ e = u => Entries(u)' = Entries(u) \cup {Len(Text(u)) + 1}
          /\ e # u => Entries(u)' = Entries(u)
          /\ overview'[OwnerOf[u]].marker = m

LEMMA EntryAdded ==
    ASSUME IInv, NEW o \in Owners, NEW e \in Sessions \cup {Edit},
           NEW m \in Sessions \cup {NoSession}, Enters(o, e, m), NEW u \in Sessions
    PROVE  Added(u, o, e, m)
<1>1. OwnerOf[u] \in Owners /\ overview \in [Owners -> Overviews]
  BY MemoryAssumption DEF IInv, TypeOK, FileTypeOK
<1>2. CASE OwnerOf[u] # o
  <2>1. overview'[OwnerOf[u]] = overview[OwnerOf[u]]
    BY <1>1, <1>2 DEF Enters
  <2> QED  BY <1>2, <2>1 DEF Added, Entries, Text
<1>3. CASE OwnerOf[u] = o
  <2>1. /\ overview'[o].marker = m /\ overview'[o].text = Append(overview[o].text, e)
        /\ overview[o].text \in Seq(Sessions \cup {Edit})
    BY <1>1 DEF Overviews, Enters
  <2>2. /\ Text(u) = overview[o].text /\ Text(u)' = Append(overview[o].text, e)
        /\ Entries(u) = {i \in DOMAIN overview[o].text : overview[o].text[i] = u}
        /\ Entries(u)' = {i \in DOMAIN overview'[o].text : overview'[o].text[i] = u}
    BY <1>3, <2>1 DEF Text, Entries
  <2> DEFINE t == overview[o].text
  <2>3. /\ t \in Seq(Sessions \cup {Edit}) /\ Text(u) = t /\ Text(u)' = Append(t, e)
        /\ Entries(u) = {i \in DOMAIN t : t[i] = u}
        /\ Entries(u)' = {i \in DOMAIN Append(t, e) : Append(t, e)[i] = u}
    BY <2>1, <2>2
  <2> HIDE DEF t
  <2>4. /\ Len(t) \in Nat /\ DOMAIN t = 1..Len(t) /\ DOMAIN Append(t, e) = 1..(Len(t) + 1)
        /\ Len(Append(t, e)) = Len(t) + 1 /\ Append(t, e)[Len(t) + 1] = e
        /\ \A i \in 1..Len(t) : Append(t, e)[i] = t[i]
    BY <2>3
  <2> QED  BY <1>3, <2>1, <2>3, <2>4 DEF Added
<1> QED  BY <1>2, <1>3

\* Two jobs of one user are never both EXTRACTED: one of the sessions is older.
LEMMA OneExtracted ==
    ASSUME RInv, NEW s \in Sessions, NEW u \in Sessions, u # s, OwnerOf[u] = OwnerOf[s],
           phase[s] = "EXTRACTED"
    PROVE  phase[u] # "EXTRACTED"
<1> SUFFICES ASSUME phase[u] = "EXTRACTED" PROVE FALSE
  OBVIOUS
<1>1. Listed(s) /\ Listed(u)
  BY DEF RInv, ListOK
<1>2. PICK i \in DOMAIN ended : ended[i] = s
  BY <1>1 DEF Listed
<1>3. PICK k \in DOMAIN ended : ended[k] = u
  BY <1>1 DEF Listed
<1>4. ended \in Seq(Sessions) /\ i \in Nat /\ k \in Nat /\ i # k
  BY <1>2, <1>3 DEF RInv, IInv, TypeOK, SessionTypeOK
<1>5. CASE i < k
  <2>1. s \in Older(u)
    BY <1>2, <1>3, <1>5 DEF Older
  <2> QED  BY <2>1 DEF RInv, TurnOK, Finished
<1>6. CASE k < i
  <2>1. u \in Older(s)
    BY <1>2, <1>3, <1>6 DEF Older
  <2> QED  BY <2>1 DEF RInv, TurnOK, Finished
<1> QED  BY <1>4, <1>5, <1>6

\* What a process that publishes an overview knows of its job.
LEMMA PublishesRecord ==
    ASSUME RInv, NEW p \in Procs, PublishesOverview(p)
    PROVE  /\ job[p] \in Sessions /\ OwnerOf[job[p]] \in Owners
           /\ phase[job[p]] = "EXTRACTED" /\ merge[job[p]]
           /\ detail[job[p]] = "merge=true"
           /\ overview[OwnerOf[job[p]]].marker # job[p]
           /\ Enters(OwnerOf[job[p]], job[p], job[p])
           /\ UNCHANGED <<active, ended, detail>>
<1>1. /\ pc[p] = "merging" /\ HoldsLease(p) /\ overview[OwnerOf[job[p]]] = previous[p]
      /\ overview' = [overview EXCEPT ![OwnerOf[job[p]]] =
                         [marker |-> job[p], text |-> Append(previous[p].text, job[p])]]
      /\ UNCHANGED <<active, ended, detail>>
  BY DEF PublishesOverview, SameRevision, sessionVars
<1>2. job[p] \in Sessions /\ OwnerOf[job[p]] \in Owners
  BY <1>1, MemoryAssumption DEF RInv, IInv, WorkOK
<1>3. /\ phase[job[p]] = "EXTRACTED" /\ merge[job[p]] = TRUE
      /\ previous[p].marker # job[p]
  <2>1. pc[p] \in Merging /\ worker[job[p]] = p
    BY <1>1 DEF HoldsLease, Merging
  <2>2. /\ phase[job[p]] = "EXTRACTED" /\ flag[p] = merge[job[p]] /\ flag[p]
        /\ previous[p].marker # job[p]
    BY <1>1, <2>1 DEF RInv, MergeOK
  <2>3. flag[p] \in BOOLEAN
    BY DEF RInv, IInv, TypeOK, WorkTypeOK
  <2> QED  BY <2>2, <2>3
<1>4. detail[job[p]] = "merge=true"
  BY <1>2, <1>3 DEF RInv, IInv, DetailMatches
<1>5. Enters(OwnerOf[job[p]], job[p], job[p])
  BY <1>1 DEF Enters
<1> QED  BY <1>1, <1>2, <1>3, <1>4, <1>5

\* The overviews after a merge, whatever becomes of the row: the new entry is the latest, and
\* an earlier one of the same session is behind a hand edit.
LEMMA MergeEntered ==
    ASSUME RInv, NEW p \in Procs, PublishesOverview(p),
           NEW s \in Sessions, s = job[p],
           phase'[s] \in {"EXTRACTED", "COMPLETED"}, phase'[s] = "EXTRACTED" => merge'[s],
           \A u \in Sessions \ {s} : phase'[u] = phase[u] /\ merge'[u] = merge[u]
    PROVE  RecordedOK' /\ NothingForgotten' /\ MergedOnce'
<1> DEFINE o == OwnerOf[s]
<1>1. /\ o \in Owners /\ phase[s] = "EXTRACTED" /\ merge[s]
      /\ detail[s] = "merge=true" /\ overview[o].marker # s
      /\ Enters(o, s, s) /\ OwnerOf[s] = o /\ UNCHANGED detail
  BY PublishesRecord
<1>2. /\ phase'[s] \in {"EXTRACTED", "COMPLETED"} /\ (phase'[s] = "EXTRACTED" => merge'[s])
      /\ \A u \in Sessions \ {s} : phase'[u] = phase[u] /\ merge'[u] = merge[u]
  OBVIOUS
<1>3. \A u \in Sessions : Added(u, o, s, s)
  <2>1. IInv
    BY DEF RInv
  <2> HIDE DEF o
  <2>2. s \in Sessions \cup {Edit} /\ s \in Sessions \cup {NoSession}
    OBVIOUS
  <2> QED  BY <1>1, <2>1, <2>2, EntryAdded
<1> HIDE DEF o
<1>4. ASSUME NEW u \in Sessions, u # s PROVE Entries(u)' = Entries(u)
  <2>1. CASE OwnerOf[u] # o
    BY <1>3, <2>1 DEF Added
  <2>2. CASE OwnerOf[u] = o
    BY <1>3, <1>4, <2>2 DEF Added
  <2> QED  BY <2>1, <2>2
<1>5. Entries(s)' = Entries(s) \cup {Len(Text(s)) + 1}
  BY <1>1, <1>3 DEF Added
<1>6. RecordedOK'
  <2> SUFFICES ASSUME NEW u \in Sessions
               PROVE  /\ phase'[u] = "EXTRACTED" /\ ~merge'[u] => Entries(u)' = {}
                      /\ overview'[OwnerOf[u]].marker = u => Entries(u)' # {}
                      /\ phase'[u] = "EXTRACTED" /\ overview'[OwnerOf[u]].marker # u =>
                            \A i \in Entries(u)' :
                                \E e \in i..Len(Text(u)') : Text(u)'[e] = Edit
    BY DEF RecordedOK
  <2>1. CASE u = s
    BY <1>1, <1>2, <1>3, <1>5, <2>1 DEF Added
  <2>2. CASE u # s /\ OwnerOf[u] # o
    BY <1>2, <1>3, <2>2 DEF Added, RInv, RecordedOK
  <2>3. CASE u # s /\ OwnerOf[u] = o
    <3>1. phase'[u] # "EXTRACTED"
      BY <1>1, <1>2, <2>3, OneExtracted
    <3> QED  BY <1>3, <2>3, <3>1 DEF Added
  <2> QED  BY <2>1, <2>2, <2>3
<1>7. NothingForgotten'
  <2> SUFFICES ASSUME NEW u \in Sessions
               PROVE  /\ phase'[u] = "COMPLETED" => (detail'[u] = "merge=true" <=> Entries(u)' # {})
                      /\ phase'[u] \in {"none", "PENDING", "SKIPPED"} => Entries(u)' = {}
    BY DEF NothingForgotten
  <2>1. CASE u = s
    BY <1>1, <1>2, <1>5, <2>1
  <2>2. CASE u # s
    BY <1>1, <1>2, <1>4, <2>2 DEF RInv, NothingForgotten
  <2> QED  BY <2>1, <2>2
<1>8. MergedOnce'
  <2> SUFFICES ASSUME NEW u \in Sessions, NEW i \in Entries(u)', NEW k \in Entries(u)', i < k
               PROVE  \E e \in i..k : Text(u)'[e] = Edit
    BY DEF MergedOnce, Text
  <2>1. CASE OwnerOf[u] # o
    BY <1>3, <2>1 DEF Added, RInv, MergedOnce, Text
  <2>2. CASE OwnerOf[u] = o /\ k \in Entries(u)
    <3>1. /\ Len(Text(u)) \in Nat /\ \A e \in 1..Len(Text(u)) : Text(u)'[e] = Text(u)[e]
          /\ Entries(u) \subseteq 1..Len(Text(u)) /\ k <= Len(Text(u))
      BY <1>3, <2>2 DEF Added
    <3>2. i \in Entries(u)
      <4>1. u = s => i \in Entries(s) \cup {Len(Text(u)) + 1}
        BY <1>5
      <4>2. u # s => i \in Entries(u)
        BY <1>4
      <4>3. i # Len(Text(u)) + 1
        BY <2>2, <3>1
      <4> QED  BY <4>1, <4>2, <4>3
    <3>3. PICK e \in i..k : Text(u)[e] = Edit
      BY <2>2, <3>2 DEF RInv, MergedOnce, Text
    <3>4. e \in 1..Len(Text(u))
      BY <2>2, <3>1, <3>2
    <3> QED  BY <3>1, <3>3, <3>4
  <2>3. CASE OwnerOf[u] = o /\ k \notin Entries(u)
    <3>1. u = s /\ k = Len(Text(s)) + 1 /\ i \in Entries(s)
      BY <1>1, <1>3, <1>4, <1>5, <2>3 DEF Added
    <3>2. PICK e \in i..Len(Text(s)) : Text(s)[e] = Edit
      BY <1>1, <3>1 DEF RInv, RecordedOK
    <3>3. /\ Len(Text(s)) \in Nat /\ i \in 1..Len(Text(s))
          /\ \A x \in 1..Len(Text(s)) : Text(s)'[x] = Text(s)[x]
      BY <1>1, <1>3, <3>1 DEF Added
    <3>4. e \in 1..Len(Text(s)) /\ e \in i..k
      BY <3>1, <3>3
    <3> QED  BY <3>1, <3>2, <3>3, <3>4
  <2> QED  BY <2>1, <2>2, <2>3
<1> QED  BY <1>6, <1>7, <1>8

LEMMA CompletesRecords == ASSUME RInv, IInv', NEW p \in Procs, Completes(p) PROVE RInv'
<1>1. PublishesOverview(p) /\ Finish(p, "COMPLETED") /\ Release(p)
  BY DEF Completes
<1>2. job[p] \in Sessions /\ phase[job[p]] \in Unfinished /\ UNCHANGED <<active, ended>>
  BY <1>1, PublishesRecord DEF Unfinished
<1>3. /\ ListOK' /\ TurnOK' /\ MergeOK' /\ phase'[job[p]] = "COMPLETED"
      /\ \A u \in Sessions \ {job[p]} : phase'[u] = phase[u] /\ merge'[u] = merge[u]
  <2>1. "COMPLETED" \in Finished
    BY DEF Finished
  <2> QED  BY <1>1, <1>2, <2>1, FinishRecords
<1>4. RecordedOK' /\ NothingForgotten' /\ MergedOnce'
  <2>1. PICK s \in Sessions : s = job[p]
    BY <1>2
  <2> QED  BY <1>1, <1>3, <2>1, MergeEntered
<1> QED  BY <1>3, <1>4 DEF RInv

LEMMA LosesCompletionRecords ==
    ASSUME RInv, IInv', NEW p \in Procs, LosesCompletion(p) PROVE RInv'
<1>1. /\ PublishesOverview(p) /\ pc' = [pc EXCEPT ![p] = "failing"]
      /\ UNCHANGED <<phase, merge, worker, job, flag, previous>>
  BY DEF LosesCompletion, rowVars
<1>2. /\ phase[job[p]] = "EXTRACTED" /\ merge[job[p]] /\ UNCHANGED <<active, ended>>
      /\ job[p] \in Sessions
  BY <1>1, PublishesRecord
<1>3. \A u \in Sessions : Older(u)' = Older(u) /\ Listed(u)' = Listed(u)
  BY <1>2 DEF Older, Listed
<1>4. ListOK' /\ TurnOK'
  BY <1>1, <1>2, <1>3 DEF RInv, ListOK, TurnOK
<1>5. MergeOK'
  <2>1. \A q \in Procs : pc'[q] \in Merging => pc'[q] = pc[q]
    BY <1>1 DEF RInv, IInv, TypeOK, WorkTypeOK, Merging
  <2> QED  BY <1>1, <2>1 DEF RInv, MergeOK
<1>6. RecordedOK' /\ NothingForgotten' /\ MergedOnce'
  <2>1. PICK s \in Sessions : s = job[p]
    BY <1>2
  <2> QED  BY <1>1, <1>2, <2>1, MergeEntered
<1> QED  BY <1>4, <1>5, <1>6 DEF RInv

\* A hand edit separates what was recorded before it from what may come.
LEMMA HandEditRecords == ASSUME RInv, IInv', NEW o \in Owners, HandEdit(o) PROVE RInv'
<1>1. PICK m \in {overview[o].marker, NoSession} :
         overview' = [overview EXCEPT ![o] = [marker |-> m, text |-> Append(@.text, Edit)]]
  BY DEF HandEdit
<1>2. Enters(o, Edit, m) /\ m \in Sessions \cup {NoSession}
  BY <1>1 DEF Enters, RInv, IInv, TypeOK, FileTypeOK, Overviews
<1>3. UNCHANGED <<active, ended, phase, merge, worker, detail, pc, job, flag, previous>>
  BY DEF HandEdit, sessionVars, rowVars, workVars
<1>4. \A u \in Sessions : Added(u, o, Edit, m)
  <2>1. IInv
    BY DEF RInv
  <2> QED  BY <1>2, <2>1, EntryAdded
<1>5. \A u \in Sessions : u # Edit /\ u # NoSession
  BY MemoryAssumption DEF Edit, NoSession
<1>6. ASSUME NEW u \in Sessions PROVE Entries(u)' = Entries(u)
  <2>1. CASE OwnerOf[u] # o
    BY <1>4, <2>1 DEF Added
  <2>2. CASE OwnerOf[u] = o
    BY <1>4, <1>5, <2>2 DEF Added
  <2> QED  BY <2>1, <2>2
<1>7. \A u \in Sessions : overview'[OwnerOf[u]].marker = u => overview[OwnerOf[u]].marker = u
  BY <1>1, <1>4, <1>5 DEF Added
<1>8. ListOK' /\ TurnOK' /\ MergeOK'
  BY <1>3 DEF RInv, ListOK, TurnOK, MergeOK, Older, Listed
<1>9. RecordedOK'
  <2> SUFFICES ASSUME NEW u \in Sessions
               PROVE  /\ phase[u] = "EXTRACTED" /\ ~merge[u] => Entries(u)' = {}
                      /\ overview'[OwnerOf[u]].marker = u => Entries(u)' # {}
                      /\ phase[u] = "EXTRACTED" /\ overview'[OwnerOf[u]].marker # u =>
                            \A i \in Entries(u)' :
                                \E e \in i..Len(Text(u)') : Text(u)'[e] = Edit
    BY <1>3 DEF RecordedOK
  <2>1. /\ phase[u] = "EXTRACTED" /\ ~merge[u] => Entries(u)' = {}
        /\ overview'[OwnerOf[u]].marker = u => Entries(u)' # {}
    BY <1>6, <1>7 DEF RInv, RecordedOK
  <2>2. ASSUME phase[u] = "EXTRACTED", overview'[OwnerOf[u]].marker # u, NEW i \in Entries(u)
        PROVE  \E e \in i..Len(Text(u)') : Text(u)'[e] = Edit
    <3>1. CASE OwnerOf[u] # o
      BY <1>4, <2>2, <3>1 DEF Added, RInv, RecordedOK
    <3>2. CASE OwnerOf[u] = o
      <4>1. /\ Len(Text(u)) \in Nat /\ i \in 1..Len(Text(u)) /\ Len(Text(u)') = Len(Text(u)) + 1
            /\ Text(u)'[Len(Text(u)) + 1] = Edit
        BY <1>4, <2>2, <3>2 DEF Added
      <4>2. Len(Text(u)) + 1 \in i..Len(Text(u)')
        BY <4>1
      <4> QED  BY <4>1, <4>2
    <3> QED  BY <3>1, <3>2
  <2> QED  BY <1>6, <2>1, <2>2
<1>10. NothingForgotten'
  BY <1>3, <1>6 DEF RInv, NothingForgotten
<1>11. MergedOnce'
  <2> SUFFICES ASSUME NEW u \in Sessions, NEW i \in Entries(u), NEW k \in Entries(u), i < k
               PROVE  \E e \in i..k : Text(u)'[e] = Edit
    BY <1>6 DEF MergedOnce, Text
  <2>1. PICK e \in i..k : Text(u)[e] = Edit
    BY DEF RInv, MergedOnce, Text
  <2>2. CASE OwnerOf[u] # o
    BY <1>4, <2>1, <2>2 DEF Added
  <2>3. CASE OwnerOf[u] = o
    <3>1. /\ Len(Text(u)) \in Nat /\ i \in 1..Len(Text(u)) /\ k \in 1..Len(Text(u))
          /\ \A x \in 1..Len(Text(u)) : Text(u)'[x] = Text(u)[x]
      BY <1>4, <2>3 DEF Added
    <3>2. e \in 1..Len(Text(u))
      BY <2>1, <3>1
    <3> QED  BY <2>1, <3>1, <3>2
  <2> QED  BY <2>2, <2>3
<1> QED  BY <1>8, <1>9, <1>10, <1>11 DEF RInv

-----------------------------------------------------------------------------
(* The theorems.                                                            *)

LEMMA RecordsKept == ASSUME RInv, IInv', [Next]_vars PROVE RInv'
<1>1. ASSUME NEW o \in Owners, HandEdit(o) PROVE RInv'
  BY <1>1, HandEditRecords
<1>2. CASE Procs = {} \/ Sessions = {}
  <2>2. CASE UNCHANGED vars \/ \E s \in Sessions : LeaseExpires(s) \/ RetryDue(s)
    <3>1. UNCHANGED <<active, ended, overview, phase, merge, detail, workVars>>
      BY <2>2 DEF vars, LeaseExpires, RetryDue, sessionVars, rowVars, fileVars
    <3>2. worker' = worker
      BY <2>2 DEF vars, LeaseExpires, RetryDue, rowVars
    <3>3. Outside
      BY <3>1, <3>2 DEF Outside, workVars, RInv, ListOK
    <3> QED  BY <3>3, OutsidePreserves
  <2>3. CASE Procs # {} /\ Sessions = {}
    <3>1. \A p \in Procs : pc[p] = "idle"
      BY <2>3 DEF RInv, IInv, WorkOK
    <3>2. ListOK' /\ TurnOK' /\ RecordedOK' /\ NothingForgotten' /\ MergedOnce'
      BY <2>3 DEF ListOK, TurnOK, RecordedOK, NothingForgotten, MergedOnce, IInv, TypeOK,
         SessionTypeOK
    <3>3. \A p \in Procs : pc'[p] = "idle"
      BY <2>3 DEF IInv, WorkOK
    <3> QED  BY <3>2, <3>3 DEF RInv, MergeOK, Merging
  <2> QED  BY <1>1, <1>2, <2>2, <2>3 DEF Next
<1>3. CASE Procs # {} /\ Sessions # {}
  <2>1. ASSUME NEW s \in Sessions, LeaseExpires(s) \/ RetryDue(s) PROVE RInv'
    BY <1>3, <2>1, MovesOutside
  <2>2. ASSUME NEW p \in Procs, NEW s \in Sessions,
               \/ Begin(p, s) \/ EndManually(p, s) \/ EndIdle(p, s) \/ EndInterrupted(p, s)
               \/ TurnEnds(p, s) \/ Clean(p, s) \/ Claim(p, s)
        PROVE  RInv'
    BY <2>2, MovesOutside, ArchiveRecords, ClaimRecords DEF EndManually, EndIdle, EndInterrupted
  <2>3. ASSUME NEW p \in Procs,
               \/ Skips(p) \/ Reads(p) \/ Extracts(p) \/ Checkpoint(p) \/ LosesCheckpoint(p)
               \/ CompletesWithout(p) \/ StartsMerge(p) \/ Completes(p) \/ LosesCompletion(p)
               \/ Fails(p) \/ FailsSilently(p) \/ Crash(p)
        PROVE  RInv'
    BY <2>3, SkipsRecords, WorkerOutside, CheckpointRecords, StartsMergeRecords,
       CompletesRecords, LosesCompletionRecords
  <2>4. ASSUME NEW p \in Procs,
               \/ Start(p) \/ Recover(p) \/ Stop(p) \/ Abort(p) \/ Exit(p) \/ LockLost(p)
        PROVE  RInv'
    BY <1>3, <2>4, MovesOutside
  <2>5. CASE UNCHANGED vars
    BY <1>3, <2>5, MovesOutside
  <2> QED  BY <1>1, <2>1, <2>2, <2>3, <2>4, <2>5 DEF Next
<1> QED  BY <1>2, <1>3

\* The stronger invariant holds of every behaviour.
THEOREM RecordsInvariance == Spec => []RInv
<1>1. ASSUME RInv, IInv', [Next]_vars PROVE RInv'
  BY <1>1, RecordsKept
<1> QED  BY RecordsInitially, Invariance, <1>1, PTL DEF Spec

\* Whatever is lost between files and rows, and however many processes overlap, a completed
\* job has what was worth keeping in the overview, and nothing else got there.
THEOREM AllRemembered == Spec => []NothingForgotten
<1>1. RInv => NothingForgotten
  BY DEF RInv
<1> QED  BY RecordsInvariance, <1>1, PTL

\* Only a hand edit in between lets a session be recorded twice: the marker tells a merge whose
\* checkpoint was lost, since no younger session of the user can have come in between.
THEOREM RecordedOnce == Spec => []MergedOnce
<1>1. RInv => MergedOnce
  BY DEF RInv
<1> QED  BY RecordsInvariance, <1>1, PTL

-----------------------------------------------------------------------------
(* MemoryJobs implements MemoryLedger.                                      *)

Settled == {s \in Sessions : phase[s] \in Finished}
Books == [o \in Owners |-> overview[o].text]

\* Nobody is recorded or done with by the step.
LedgerStays == UNCHANGED <<ended, Settled, Books>>

\* A job that was taken up, or has its detail, is the oldest of its user's that is not settled.
LEMMA TakenIsOldest ==
    ASSUME RInv, NEW s \in Sessions, phase[s] \in Unfinished,
           worker[s] # NoProc \/ phase[s] = "EXTRACTED"
    PROVE  Ledger!Oldest(s)
<1>1. Listed(s) /\ s \notin Settled
  BY DEF RInv, ListOK, Unfinished, Finished, Settled
<1>2. PICK k \in DOMAIN ended : ended[k] = s
  BY <1>1 DEF Listed
<1>3. ASSUME NEW i \in DOMAIN ended, i < k, OwnerOf[ended[i]] = OwnerOf[s]
      PROVE  ended[i] \in Settled
  <2>1. ended[i] \in Older(s) /\ ended[i] \in Sessions
    BY <1>2, <1>3 DEF Older, RInv, IInv, TypeOK, SessionTypeOK
  <2> QED  BY <2>1 DEF RInv, TurnOK, Settled
<1> QED  BY <1>1, <1>2, <1>3 DEF Ledger!Oldest, Settled

\* The rows' phases say who is settled.
LEMMA SettledStays ==
    ASSUME \A s \in Sessions : phase'[s] \in Finished <=> phase[s] \in Finished
    PROVE  UNCHANGED Settled
BY DEF Settled

LEMMA FinishSettles ==
    ASSUME RInv, NEW p \in Procs, NEW last \in Finished, job[p] \in Sessions, Finish(p, last)
    PROVE  Settled' = Settled \cup {job[p]}
<1>1. phase'[job[p]] \in Finished /\ \A s \in Sessions \ {job[p]} : phase'[s] = phase[s]
  BY DEF Finish, RInv, IInv, TypeOK, RowTypeOK
<1> QED  BY <1>1 DEF Settled

\* A session that ends comes last in the line.
LEMMA ArchiveEnds ==
    ASSUME RInv, NEW s \in Sessions, NEW running \in BOOLEAN, Archive(s, running)
    PROVE  Ledger!End(s)
<1>1. /\ phase[s] = "none" /\ ~Listed(s) /\ ended' = Append(ended, s)
      /\ phase' = [phase EXCEPT ![s] = "PENDING"] /\ overview' = overview
  BY DEF Archive, RInv, ListOK, fileVars
<1>2. UNCHANGED Settled
  BY <1>1, SettledStays DEF Finished, RInv, IInv, TypeOK, RowTypeOK
<1>3. s \notin Ledger!ToSet(ended)
  BY <1>1 DEF Listed, Ledger!ToSet
<1> QED  BY <1>1, <1>2, <1>3 DEF Ledger!End, Settled

\* What a merge adds to a user's overview is the job's session, which is not its latest entry.
LEMMA MergeEnters ==
    ASSUME RInv, NEW p \in Procs, PublishesOverview(p) PROVE Ledger!Entered(job[p])
<1> DEFINE s == job[p]
           o == OwnerOf[s]
<1>1. /\ s \in Sessions /\ o \in Owners /\ phase[s] = "EXTRACTED" /\ overview[o].marker # s
      /\ overview' = [overview EXCEPT ![o] = [marker |-> s, text |-> Append(overview[o].text, s)]]
  BY PublishesRecord DEF Enters
<1>2. overview \in [Owners -> Overviews]
  BY DEF RInv, IInv, TypeOK, FileTypeOK
<1>3. Books' = [Books EXCEPT ![o] = Append(@, s)]
  <2> HIDE DEF s, o
  <2>1. Books'[o] = Append(Books[o], s) /\ \A q \in Owners \ {o} : Books'[q] = Books[q]
    BY <1>1, <1>2 DEF Books
  <2> QED  BY <1>1, <2>1 DEF Books
<1>4. Books[o] = <<>> \/ Ledger!Last(Books[o]) # s
  <2> SUFFICES ASSUME Text(s) # <<>>, Ledger!Last(Text(s)) = s PROVE FALSE
    BY <1>1 DEF Books, Text
  <2>1. Text(s) \in Seq(Sessions \cup {Edit})
    BY <1>1, <1>2 DEF Text, Overviews
  <2>2. Len(Text(s)) \in Nat \ {0} /\ DOMAIN Text(s) = 1..Len(Text(s)) /\ Text(s)[Len(Text(s))] = s
    BY <2>1 DEF Ledger!Last
  <2>3. Len(Text(s)) \in Entries(s)
    BY <2>2 DEF Entries, Text
  <2>4. \E e \in Len(Text(s))..Len(Text(s)) : Text(s)[e] = Edit
    BY <1>1, <2>3 DEF RInv, RecordedOK
  <2> HIDE DEF s
  <2> QED  BY <1>1, <2>2, <2>4, MemoryAssumption DEF Edit
<1> QED  BY <1>3, <1>4 DEF Ledger!Entered, Books

\* A job is settled in its turn, with a merge or without.
LEMMA FinishIsSettlement ==
    ASSUME RInv, NEW p \in Procs, Skips(p) \/ CompletesWithout(p) \/ Completes(p)
    PROVE  job[p] \in Sessions /\ Ledger!Settle(job[p])
<1>1. HoldsLease(p) /\ pc[p] # "idle" /\ ended' = ended
  BY DEF Skips, CompletesWithout, Completes, PublishesOverview, sessionVars
<1>2. job[p] \in Sessions
  BY <1>1 DEF RInv, IInv, WorkOK
<1>3. Ledger!Oldest(job[p])
  BY <1>1, <1>2, TakenIsOldest, MemoryAssumption DEF HoldsLease, NoProc
<1>4. PICK last \in Finished : Finish(p, last)
  BY DEF Skips, CompletesWithout, Completes, Finished
<1>5. Settled' = Settled \cup {job[p]}
  BY <1>2, <1>4, FinishSettles
<1>6. Ledger!Entered(job[p]) \/ UNCHANGED Books
  BY MergeEnters DEF Skips, CompletesWithout, Completes, fileVars, Books
<1> QED  BY <1>1, <1>2, <1>3, <1>5, <1>6 DEF Ledger!Settle, Settled, Books

\* The overview is there and the completion is lost: the session is recorded, and still open.
LEMMA LosesIsRecord ==
    ASSUME RInv, NEW p \in Procs, LosesCompletion(p)
    PROVE  job[p] \in Sessions /\ Ledger!Record(job[p])
<1>1. PublishesOverview(p) /\ phase' = phase
  BY DEF LosesCompletion, rowVars
<1>2. job[p] \in Sessions /\ phase[job[p]] = "EXTRACTED" /\ ended' = ended
  BY <1>1, PublishesRecord
<1>3. Ledger!Oldest(job[p])
  BY <1>2, TakenIsOldest DEF Unfinished
<1>4. UNCHANGED Settled
  BY <1>1 DEF Settled
<1> QED  BY <1>1, <1>2, <1>3, <1>4, MergeEnters DEF Ledger!Record, Settled

LEMMA EditNotes == ASSUME RInv, NEW o \in Owners, HandEdit(o) PROVE Ledger!Note(o)
<1>1. PICK m \in {overview[o].marker, NoSession} :
         overview' = [overview EXCEPT ![o] = [marker |-> m, text |-> Append(@.text, Edit)]]
  BY DEF HandEdit
<1>2. overview \in [Owners -> Overviews] /\ UNCHANGED <<ended, Settled>>
  BY DEF HandEdit, RInv, IInv, TypeOK, FileTypeOK, sessionVars, rowVars, Settled
<1>3. Books'[o] = Append(Books[o], Edit) /\ \A q \in Owners \ {o} : Books'[q] = Books[q]
  BY <1>1, <1>2 DEF Books
<1>4. Books' = [Books EXCEPT ![o] = Append(@, Edit)]
  BY <1>3 DEF Books
<1> QED  BY <1>2, <1>4 DEF Ledger!Note, Ledger!Edit, Edit, Books, Settled

\* Steps that neither record nor settle anything.
LEMMA LedgerUntouched ==
    ASSUME RInv, UNCHANGED <<ended, overview>>,
           UNCHANGED phase \/ \E p \in Procs : Checkpoint(p) \/ Fails(p)
    PROVE  LedgerStays
<1>1. phase \in [Sessions -> Unfinished \cup Finished \cup {"none"}]
  BY DEF RInv, IInv, TypeOK, RowTypeOK
<1>2. \A s \in Sessions : phase'[s] \in Finished <=> phase[s] \in Finished
  <2>1. CASE UNCHANGED phase
    BY <2>1
  <2>2. ASSUME NEW p \in Procs, Checkpoint(p)
        PROVE  \A s \in Sessions : phase'[s] \in Finished <=> phase[s] \in Finished
    <3>1. job[p] \in Sessions /\ phase[job[p]] = "PENDING"
      BY <2>2, PublishesOwnDetail DEF Checkpoint, RInv
    <3>2. phase' = [phase EXCEPT ![job[p]] = "EXTRACTED"]
      BY <2>2 DEF Checkpoint
    <3> QED  BY <1>1, <3>1, <3>2 DEF Finished
  <2>3. ASSUME NEW p \in Procs, Fails(p) PROVE phase' = phase
    <3>1. job[p] \in Sessions
      BY <2>3 DEF Fails, RInv, IInv, WorkOK
    <3>2. phase' = [phase EXCEPT ![job[p]] = phase[job[p]]] \/ phase' = phase
      BY <2>3 DEF Fails, PhaseAfterFailure
    <3> QED  BY <1>1, <3>1, <3>2
  <2> QED  BY <2>1, <2>2, <2>3
<1> QED  BY <1>2, SettledStays DEF LedgerStays, Books

LEMMA StepRecords == RInv /\ [Next]_vars => [Ledger!Next]_(Ledger!vars)
<1> SUFFICES ASSUME RInv, [Next]_vars
             PROVE  \/ LedgerStays
                    \/ \E s \in Sessions : Ledger!End(s) \/ Ledger!Record(s) \/ Ledger!Settle(s)
                    \/ \E o \in Owners : Ledger!Note(o)
  BY DEF Ledger!Next, Ledger!vars, LedgerStays, Settled, Books
<1>1. CASE UNCHANGED vars
  BY <1>1, LedgerUntouched DEF vars, sessionVars, rowVars, fileVars
<1>2. ASSUME NEW s \in Sessions, LeaseExpires(s) \/ RetryDue(s) PROVE LedgerStays
  BY <1>2, LedgerUntouched DEF LeaseExpires, RetryDue, sessionVars, fileVars
<1>3. ASSUME NEW p \in Procs, NEW s \in Sessions,
             Begin(p, s) \/ TurnEnds(p, s) \/ Clean(p, s) \/ Claim(p, s)
      PROVE  LedgerStays
  BY <1>3, LedgerUntouched DEF Begin, TurnEnds, Clean, Claim, sessionVars, rowVars, fileVars
<1>4. ASSUME NEW p \in Procs, NEW s \in Sessions,
             EndManually(p, s) \/ EndIdle(p, s) \/ EndInterrupted(p, s)
      PROVE  Ledger!End(s)
  BY <1>4, ArchiveEnds DEF EndManually, EndIdle, EndInterrupted
<1>5. ASSUME NEW p \in Procs, Skips(p) \/ CompletesWithout(p) \/ Completes(p)
      PROVE  \E s \in Sessions : Ledger!Settle(s)
  <2>1. job[p] \in Sessions /\ Ledger!Settle(job[p])
    BY <1>5, FinishIsSettlement
  <2> QED  BY <2>1 DEF Ledger!Settle, Ledger!Entered, Ledger!Oldest
<1>6. ASSUME NEW p \in Procs, LosesCompletion(p) PROVE \E s \in Sessions : Ledger!Record(s)
  <2>1. job[p] \in Sessions /\ Ledger!Record(job[p])
    BY <1>6, LosesIsRecord
  <2> QED  BY <2>1 DEF Ledger!Record, Ledger!Entered, Ledger!Oldest
<1>7. ASSUME NEW p \in Procs,
             \/ Reads(p) \/ Extracts(p) \/ LosesCheckpoint(p) \/ StartsMerge(p) \/ FailsSilently(p)
             \/ Start(p) \/ Recover(p) \/ Stop(p) \/ Abort(p) \/ Exit(p) \/ Crash(p) \/ LockLost(p)
      PROVE  LedgerStays
  <2>1. UNCHANGED <<ended, overview, phase>>
    BY <1>7 DEF Reads, Extracts, LosesCheckpoint, PublishesDetail, StartsMerge, FailsSilently,
       Start, Recover, Stop, Abort, Exit, Crash, LockLost, sessionVars, rowVars, fileVars
  <2> QED  BY <2>1, LedgerUntouched
<1>8. ASSUME NEW p \in Procs, Checkpoint(p) \/ Fails(p) PROVE LedgerStays
  <2>1. UNCHANGED <<ended, overview>>
    BY <1>8 DEF Checkpoint, PublishesDetail, Fails, sessionVars, fileVars
  <2> QED  BY <1>8, <2>1, LedgerUntouched
<1>9. ASSUME NEW o \in Owners, HandEdit(o) PROVE Ledger!Note(o)
  BY <1>9, EditNotes
<1> QED  BY <1>1, <1>2, <1>3, <1>4, <1>5, <1>6, <1>7, <1>8, <1>9 DEF Next

LEMMA InitRecords == Init => Ledger!Init
BY DEF Init, Ledger!Init, Finished, Empty

\* Ended sessions are recorded in the order they ended, one at a time, and nothing recorded is
\* lost: any number of users, sessions, overlapping processes and lost transactions.
THEOREM RecordedInOrder == Spec => RecordsInOrder
BY RecordsInvariance, InitRecords, StepRecords, PTL DEF Spec, RecordsInOrder, Ledger!Spec

-----------------------------------------------------------------------------
(* What the ledger says of the overviews.                                   *)

\* The sessions in a user's overview stand there in the order they ended: one that is entered
\* again, after the user has edited the overview, has none of the later ones before it.
EntriesInOrder ==
    \A o \in Owners : \A i, j \in DOMAIN Books[o] : \A k, l \in DOMAIN ended :
        i <= j /\ Books[o][i] = ended[k] /\ Books[o][j] = ended[l] => k <= l

\* Sessions end once; an overview has sessions of its user, and of what the user ended
\* before the latest of them nothing is open.
BookOK ==
    /\ \A k, l \in DOMAIN ended : ended[k] = ended[l] => k = l
    /\ \A o \in Owners : \A i \in DOMAIN Books[o] :
          Books[o][i] # Edit => Listed(Books[o][i]) /\ OwnerOf[Books[o][i]] = o
    /\ \A o \in Owners : \A i \in DOMAIN Books[o] : \A k, m \in DOMAIN ended :
          Books[o][i] = ended[k] /\ m < k /\ OwnerOf[ended[m]] = o => ended[m] \in Settled

LEMMA LineFacts ==
    ASSUME RInv
    PROVE  /\ ended \in Seq(Sessions) /\ Len(ended) \in Nat /\ DOMAIN ended = 1..Len(ended)
           /\ \A k \in DOMAIN ended : ended[k] \in Sessions /\ ended[k] # Edit /\ k \in Nat
           /\ \A o \in Owners : /\ Books[o] \in Seq(Sessions \cup {Edit}) /\ Len(Books[o]) \in Nat
                                /\ DOMAIN Books[o] = 1..Len(Books[o])
BY MemoryAssumption DEF RInv, IInv, TypeOK, SessionTypeOK, FileTypeOK, Overviews, Books, Edit

\* A session that ends comes behind all that is entered.
LEMMA EndKeepsOrder ==
    ASSUME RInv, BookOK, EntriesInOrder, NEW s \in Sessions, Ledger!End(s)
    PROVE  BookOK' /\ EntriesInOrder'
<1>1. ended' = Append(ended, s) /\ Books' = Books /\ Settled' = Settled
  BY DEF Ledger!End, Settled, Books
<1>2. \A k \in DOMAIN ended : ended[k] # s
  BY DEF Ledger!End, Ledger!ToSet
<1>3. /\ DOMAIN ended' = 1..(Len(ended) + 1) /\ ended'[Len(ended) + 1] = s
      /\ \A k \in DOMAIN ended : k \in DOMAIN ended' /\ ended'[k] = ended[k]
      /\ \A k \in DOMAIN ended' : k \in DOMAIN ended \/ k = Len(ended) + 1
  BY <1>1, LineFacts
<1>4. ASSUME NEW o \in Owners, NEW i \in DOMAIN Books[o], NEW k \in DOMAIN ended',
             Books[o][i] = ended'[k]
      PROVE  k \in DOMAIN ended /\ Books[o][i] = ended[k]
  <2>1. Books[o][i] # s
    BY <1>2, MemoryAssumption DEF BookOK, Listed, Edit
  <2> QED  BY <1>3, <1>4, <2>1
<1>5. EntriesInOrder'
  BY <1>1, <1>4 DEF EntriesInOrder
<1>6. \A k, l \in DOMAIN ended' : ended'[k] = ended'[l] => k = l
  BY <1>2, <1>3 DEF BookOK
<1>7. \A o \in Owners : \A i \in DOMAIN Books'[o] :
          Books'[o][i] # Edit => /\ \E k \in DOMAIN ended' : ended'[k] = Books'[o][i]
                                 /\ OwnerOf[Books'[o][i]] = o
  BY <1>1, <1>3 DEF BookOK, Listed
<1>8. ASSUME NEW o \in Owners, NEW i \in DOMAIN Books[o],
             NEW k \in DOMAIN ended', NEW m \in DOMAIN ended',
             Books[o][i] = ended'[k], m < k, OwnerOf[ended'[m]] = o
      PROVE  ended'[m] \in Settled
  <2>1. k \in DOMAIN ended /\ Books[o][i] = ended[k]
    BY <1>4, <1>8
  <2>2. m \in DOMAIN ended /\ ended'[m] = ended[m]
    BY <1>3, <1>8, <2>1, LineFacts
  <2> QED  BY <1>8, <2>1, <2>2 DEF BookOK
<1> QED  BY <1>1, <1>5, <1>6, <1>7, <1>8 DEF BookOK, Listed

\* An entry is added to the overview of o: an edit, or the oldest open session of the user.
LEMMA EntryKeepsOrder ==
    ASSUME RInv, BookOK, EntriesInOrder, NEW o \in Owners, NEW e \in Sessions \cup {Edit},
           ended' = ended, Settled \subseteq Settled',
           Books' = [Books EXCEPT ![o] = Append(@, e)],
           e # Edit => Ledger!Oldest(e) /\ OwnerOf[e] = o
    PROVE  BookOK' /\ EntriesInOrder'
<1> DEFINE n == Len(Books[o]) + 1
<1>a. DOMAIN Books = Owners
  BY DEF Books
<1>b. Books'[o] = Append(Books[o], e) /\ \A q \in Owners \ {o} : Books'[q] = Books[q]
  BY <1>a
<1>c. Books[o] \in Seq(Sessions \cup {Edit}) /\ DOMAIN Books[o] = 1..Len(Books[o])
      /\ Len(Books[o]) \in Nat
  BY LineFacts
<1>1. /\ DOMAIN Books'[o] = 1..n /\ Books'[o][n] = e /\ n \in Nat
      /\ \A i \in DOMAIN Books[o] : Books'[o][i] = Books[o][i]
      /\ \A i \in DOMAIN Books'[o] : i \in DOMAIN Books[o] \/ i = n
      /\ \A q \in Owners \ {o} : Books'[q] = Books[q]
  BY <1>b, <1>c
<1> HIDE DEF n
<1>2. ASSUME NEW k \in DOMAIN ended, ended[k] = e
      PROVE  /\ e \notin Settled /\ OwnerOf[e] = o
             /\ \A m \in DOMAIN ended : m < k /\ OwnerOf[ended[m]] = o => ended[m] \in Settled
  <2>1. e # Edit
    BY <1>2, LineFacts
  <2>2. PICK x \in DOMAIN ended :
           /\ ended[x] = e /\ e \notin Settled
           /\ \A i \in DOMAIN ended : i < x /\ OwnerOf[ended[i]] = OwnerOf[e] => ended[i] \in Settled
    BY <2>1 DEF Ledger!Oldest, Settled
  <2>3. x = k
    BY <1>2, <2>2 DEF BookOK
  <2> QED  BY <2>1, <2>2, <2>3
<1>3. ASSUME NEW i \in DOMAIN Books'[o], NEW j \in DOMAIN Books'[o], NEW k \in DOMAIN ended,
             NEW l \in DOMAIN ended, i <= j, Books'[o][i] = ended[k], Books'[o][j] = ended[l]
      PROVE  k <= l
  <2>1. i \in Nat /\ j \in Nat /\ k \in Nat /\ l \in Nat
    BY <1>1, LineFacts
  <2>2. CASE j \in DOMAIN Books[o]
    <3>1. i \in DOMAIN Books[o]
      BY <1>1, <1>3, <2>1, <2>2, LineFacts
    <3> QED  BY <1>1, <1>3, <2>2, <3>1 DEF EntriesInOrder
  <2>3. CASE j = n /\ i \in DOMAIN Books[o]
    <3>1. ended[l] = e
      BY <1>1, <1>3, <2>3
    <3>2. e \notin Settled /\ OwnerOf[ended[l]] = o
      BY <1>2, <3>1
    <3>3. Books[o][i] = ended[k]
      BY <1>1, <1>3, <2>3
    <3>4. ~(l < k)
      BY <2>3, <3>1, <3>2, <3>3 DEF BookOK
    <3> QED  BY <2>1, <3>4
  <2>4. CASE j = n /\ i = n
    <3>1. k = l
      BY <1>3, <2>4 DEF BookOK
    <3> QED  BY <2>1, <3>1
  <2> QED  BY <1>1, <2>2, <2>3, <2>4
<1>4. EntriesInOrder'
  <2>1. ASSUME NEW q \in Owners, NEW i \in DOMAIN Books'[q], NEW j \in DOMAIN Books'[q],
               NEW k \in DOMAIN ended, NEW l \in DOMAIN ended,
               i <= j, Books'[q][i] = ended[k], Books'[q][j] = ended[l]
        PROVE  k <= l
    <3>1. CASE q = o
      BY <1>3, <2>1, <3>1
    <3>2. CASE q # o
      BY <1>1, <2>1, <3>2 DEF EntriesInOrder
    <3> QED  BY <3>1, <3>2
  <2> QED  BY <2>1 DEF EntriesInOrder
<1>5. ASSUME NEW q \in Owners, NEW i \in DOMAIN Books'[q], Books'[q][i] # Edit
      PROVE  (\E k \in DOMAIN ended : ended[k] = Books'[q][i]) /\ OwnerOf[Books'[q][i]] = q
  <2>1. CASE q = o /\ i = n
    <3>1. e # Edit /\ Books'[q][i] = e
      BY <1>1, <1>5, <2>1
    <3>2. \E x \in DOMAIN ended : ended[x] = e
      BY <3>1 DEF Ledger!Oldest
    <3> QED  BY <2>1, <3>1, <3>2 DEF Listed
  <2>2. CASE ~(q = o /\ i = n)
    <3>1. i \in DOMAIN Books[q] /\ Books'[q][i] = Books[q][i]
      BY <1>1, <2>2
    <3> QED  BY <1>5, <3>1 DEF BookOK, Listed
  <2> QED  BY <2>1, <2>2
<1>6. ASSUME NEW q \in Owners, NEW i \in DOMAIN Books'[q], NEW k \in DOMAIN ended,
             NEW m \in DOMAIN ended, Books'[q][i] = ended[k], m < k, OwnerOf[ended[m]] = q
      PROVE  ended[m] \in Settled'
  <2>1. CASE q = o /\ i = n
    <3>1. ended[k] = e
      BY <1>1, <1>6, <2>1
    <3> QED  BY <1>2, <1>6, <2>1, <3>1
  <2>2. CASE ~(q = o /\ i = n)
    <3>1. i \in DOMAIN Books[q] /\ Books'[q][i] = Books[q][i]
      BY <1>1, <2>2
    <3>2. Books[q][i] = ended[k]
      BY <1>6, <3>1
    <3> QED  BY <1>6, <3>1, <3>2 DEF BookOK
  <2> QED  BY <2>1, <2>2
<1> QED  BY <1>4, <1>5, <1>6 DEF BookOK, Listed

LEMMA RestKeepsOrder ==
    ASSUME BookOK, EntriesInOrder, UNCHANGED <<ended, Books>>, Settled \subseteq Settled'
    PROVE  BookOK' /\ EntriesInOrder'
<1>1. EntriesInOrder'
  BY DEF EntriesInOrder
<1>2. BookOK'
  BY DEF BookOK, Listed
<1> QED  BY <1>1, <1>2

\* A user's overview tells the sessions in the order they ended, however often jobs fail, are
\* taken over or are merged again: a property of the ledger, which the jobs inherit.
THEOREM ToldInOrder == Spec => []EntriesInOrder
<1>1. Init => BookOK /\ EntriesInOrder
  BY DEF Init, Books, Empty, BookOK, EntriesInOrder
<1>2. ASSUME RInv, BookOK, EntriesInOrder, [Ledger!Next]_(Ledger!vars)
      PROVE  BookOK' /\ EntriesInOrder'
  <2>1. ASSUME NEW s \in Sessions, Ledger!End(s) PROVE BookOK' /\ EntriesInOrder'
    BY <1>2, <2>1, EndKeepsOrder
  <2>2. ASSUME NEW s \in Sessions, Ledger!Record(s) \/ Ledger!Settle(s)
        PROVE  BookOK' /\ EntriesInOrder'
    <3>1. /\ Ledger!Oldest(s) /\ ended' = ended /\ Settled \subseteq Settled'
          /\ Ledger!Entered(s) \/ Books' = Books
      BY <2>2 DEF Ledger!Record, Ledger!Settle, Settled, Books
    <3>2. CASE Books' = Books
      BY <1>2, <3>1, <3>2, RestKeepsOrder
    <3>3. CASE Ledger!Entered(s)
      <4>1. OwnerOf[s] \in Owners /\ Books' = [Books EXCEPT ![OwnerOf[s]] = Append(@, s)]
        BY <3>3, MemoryAssumption DEF Ledger!Entered, Books
      <4> QED  BY <1>2, <3>1, <4>1, EntryKeepsOrder
    <3> QED  BY <3>1, <3>2, <3>3
  <2>3. ASSUME NEW o \in Owners, Ledger!Note(o) PROVE BookOK' /\ EntriesInOrder'
    <3>1. ended' = ended /\ Settled' = Settled /\ Books' = [Books EXCEPT ![o] = Append(@, Edit)]
      BY <2>3 DEF Ledger!Note, Ledger!Edit, Edit, Settled, Books
    <3> QED  BY <1>2, <3>1, EntryKeepsOrder
  <2>4. CASE UNCHANGED Ledger!vars
    <3>1. UNCHANGED <<ended, Books>> /\ Settled' = Settled
      BY <2>4 DEF Ledger!vars, Settled, Books
    <3> QED  BY <1>2, <3>1, RestKeepsOrder
  <2> QED  BY <1>2, <2>1, <2>2, <2>3, <2>4 DEF Ledger!Next
<1> QED  BY RecordsInvariance, StepRecords, <1>1, <1>2, PTL DEF Spec
=============================================================================
