----------------------------- MODULE MemoryJobs -----------------------------
(***************************************************************************)
(* User memory: a session that ends leaves a row in table memory_jobs; the *)
(* memory worker of a process claims it under a lease, has the session     *)
(* extracted into a detail file, and folds the detail into the user's      *)
(* overview MEMORY.md.  Files and rows are two stores: each publication    *)
(* replaces a file inside a database transaction that may still fail, and  *)
(* processes crash, stop, and may overlap when one has lost the data       *)
(* directory's lock.  The user edits the overview at any time.             *)
(*                                                                         *)
(* The text of an overview is the sequence of what went into it; its       *)
(* revision, a hash of the text, is the text itself.  Hand edits add to    *)
(* it, and may drop the marker on its first line.                          *)
(***************************************************************************)
EXTENDS Integers, SequencesExt

CONSTANTS
    Sessions,   \* sessions of the users
    Owners,     \* the users
    OwnerOf,    \* the user of each session
    Procs,      \* incarnations of the service: a worker's id is drawn anew by each
    MaxEdits,   \* bound: hand edits of an overview
    Faults      \* BOOLEAN: may renewals come late, and the lock get lost?

ASSUME MemoryAssumption ==
    /\ OwnerOf \in [Sessions -> Owners] /\ MaxEdits \in Nat /\ Faults \in BOOLEAN
    /\ "edit" \notin Sessions /\ "none" \notin Sessions \cup Procs

NoProc == "none"
NoSession == "none"
Edit == "edit"

VARIABLES
    active,             \* sessions with status ACTIVE
    ended,              \* sessions with a row, in the order of the rows
    told,               \* does source() find turns worth a summary in the session?
    open, cleaned,      \* a turn of the ended session still runs; cleanup_done
    phase, merge,       \* columns phase and should_merge
    worker, lease, due, \* worker_id; lease_until; whether next_attempt_at has come
    detail,             \* detail files, with the flag of their first line
    overview,           \* MEMORY.md of every user: marker, entries
    mode, holder,       \* state of each process, and who holds the service lock
    pc, job, flag,      \* execute() of each process: stage, session, shouldMerge
    draft,              \* the detail it is about to publish
    previous            \* the overview the merge started from

sessionVars == <<active, ended, told, open, cleaned>>
rowVars == <<phase, merge, worker, lease, due>>
fileVars == <<detail, overview>>
procVars == <<mode, holder>>
workVars == <<pc, job, flag, draft, previous>>
vars == <<sessionVars, rowVars, fileVars, procVars, workVars>>

Unfinished == {"PENDING", "EXTRACTED"}
Finished == {"COMPLETED", "SKIPPED"}
Details == {"none", "merge=true", "merge=false"}
Empty == [marker |-> NoSession, text |-> <<>>]
Overviews == [marker : Sessions \cup {NoSession}, text : Seq(Sessions \cup {Edit})]

SessionTypeOK ==
    /\ active \subseteq Sessions /\ ended \in Seq(Sessions)
    /\ told \in [Sessions -> BOOLEAN] /\ open \in [Sessions -> BOOLEAN]
    /\ cleaned \in [Sessions -> BOOLEAN]

RowTypeOK ==
    /\ phase \in [Sessions -> Unfinished \cup Finished \cup {"none"}]
    /\ merge \in [Sessions -> BOOLEAN] /\ worker \in [Sessions -> Procs \cup {NoProc}]
    /\ lease \in [Sessions -> {"none", "live", "expired"}] /\ due \in [Sessions -> BOOLEAN]

FileTypeOK == detail \in [Sessions -> Details] /\ overview \in [Owners -> Overviews]

ProcTypeOK ==
    /\ mode \in [Procs -> {"new", "recover", "run", "stop", "abort", "gone"}]
    /\ holder \in Procs \cup {NoProc}

WorkTypeOK ==
    /\ pc \in [Procs -> {"idle", "entering", "extracting", "extracted", "checkpointed",
                         "merging", "failing"}]
    /\ job \in [Procs -> Sessions \cup {NoSession}] /\ flag \in [Procs -> BOOLEAN]
    /\ draft \in [Procs -> Details] /\ previous \in [Procs -> Overviews]

\* Types of the tables, the files and the registers of every process.
TypeOK == SessionTypeOK /\ RowTypeOK /\ FileTypeOK /\ ProcTypeOK /\ WorkTypeOK

Init ==
    /\ active = {} /\ ended = <<>> /\ told = [s \in Sessions |-> FALSE]
    /\ open = [s \in Sessions |-> FALSE] /\ cleaned = [s \in Sessions |-> TRUE]
    /\ phase = [s \in Sessions |-> "none"] /\ merge = [s \in Sessions |-> TRUE]
    /\ worker = [s \in Sessions |-> NoProc] /\ lease = [s \in Sessions |-> "none"]
    /\ due = [s \in Sessions |-> FALSE]
    /\ detail = [s \in Sessions |-> "none"] /\ overview = [o \in Owners |-> Empty]
    /\ mode = [p \in Procs |-> "new"] /\ holder = NoProc
    /\ pc = [p \in Procs |-> "idle"] /\ job = [p \in Procs |-> NoSession]
    /\ flag = [p \in Procs |-> FALSE]
    /\ draft = [p \in Procs |-> "none"] /\ previous = [p \in Procs |-> Empty]

-----------------------------------------------------------------------------
(* Sessions.                                                                *)

\* A first message: ensureActiveSession.
Begin(p, s) ==
    /\ mode[p] = "run" /\ phase[s] = "none"
    /\ \A u \in active : OwnerOf[u] # OwnerOf[s]
    /\ active' = active \cup {s}
    /\ UNCHANGED <<ended, told, open, cleaned, rowVars, fileVars, procVars, workVars>>

\* endSession's transaction: /new is itself a turn of the session that goes on running; an
\* idle session has none, and those of an interrupted one are cancelled.
Archive(s, running) ==
    /\ s \in active
    /\ active' = active \ {s} /\ ended' = Append(ended, s)
    /\ told' \in {[told EXCEPT ![s] = b] : b \in BOOLEAN}
    /\ open' = [open EXCEPT ![s] = running] /\ cleaned' = [cleaned EXCEPT ![s] = FALSE]
    /\ phase' = [phase EXCEPT ![s] = "PENDING"] /\ due' = [due EXCEPT ![s] = TRUE]
    /\ UNCHANGED <<merge, worker, lease, fileVars, procVars, workVars>>

EndManually(p, s) == mode[p] \in {"run", "stop", "abort"} /\ Archive(s, TRUE)
EndIdle(p, s) == mode[p] = "run" /\ Archive(s, FALSE)

\* endSession.all: on startup, and on shutdown unless the lock was lost.
EndInterrupted(p, s) ==
    /\ mode[p] = "recover" \/ (mode[p] \in {"stop", "abort"} /\ pc[p] = "idle" /\ holder = p)
    /\ Archive(s, FALSE)

TurnEnds(p, s) ==
    /\ mode[p] \in {"run", "stop", "abort"} /\ open[s]
    /\ open' = [open EXCEPT ![s] = FALSE]
    /\ UNCHANGED <<active, ended, told, cleaned, rowVars, fileVars, procVars, workVars>>

\* cleanup and its repair: the permissions of the session end, then cleanup_done.
Clean(p, s) ==
    /\ mode[p] \notin {"new", "gone"} /\ ~cleaned[s]
    /\ cleaned' = [cleaned EXCEPT ![s] = TRUE]
    /\ UNCHANGED <<active, ended, told, open, rowVars, fileVars, procVars, workVars>>

-----------------------------------------------------------------------------
(* The rows.                                                                *)

\* Mutant: jobs of one user are not held back by older ones.
ClaimableInAnyOrder(s) ==
    /\ phase[s] \in Unfinished /\ due[s] /\ lease[s] # "live" /\ cleaned[s] /\ ~open[s]

\* Mutant: a job whose detail is published is not taken up again.
ClaimableOnce(s) ==
    /\ phase[s] = "PENDING" /\ due[s] /\ lease[s] # "live" /\ cleaned[s] /\ ~open[s]

Older(s) == {ended[i] : i \in {i \in DOMAIN ended :
                                 /\ OwnerOf[ended[i]] = OwnerOf[s]
                                 /\ \E k \in DOMAIN ended : i < k /\ ended[k] = s}}

\* claim's SELECT.
Claimable(s) ==
    /\ phase[s] \in Unfinished /\ due[s] /\ lease[s] # "live" /\ cleaned[s] /\ ~open[s]
    /\ \A u \in Older(s) : phase[u] \in Finished

Claim(p, s) ==
    /\ mode[p] = "run" /\ pc[p] = "idle" /\ Claimable(s)
    /\ worker' = [worker EXCEPT ![s] = p] /\ lease' = [lease EXCEPT ![s] = "live"]
    /\ job' = [job EXCEPT ![p] = s] /\ flag' = [flag EXCEPT ![p] = merge[s]]
    /\ pc' = [pc EXCEPT ![p] = IF phase[s] = "PENDING" THEN "entering" ELSE "checkpointed"]
    /\ UNCHANGED <<sessionVars, phase, merge, due, fileVars, procVars, draft, previous>>

Attended(s) == \E p \in Procs : job[p] = s /\ worker[s] = p

\* The heartbeat renews a lease only while it holds; a stalled process comes too late, and
\* nobody comes for a dead one.
LeaseExpires(s) ==
    /\ lease[s] = "live"
    /\ ~Attended(s) \/ Faults
    /\ lease' = [lease EXCEPT ![s] = "expired"]
    /\ UNCHANGED <<sessionVars, phase, merge, worker, due, fileVars, procVars, workVars>>

RetryDue(s) ==
    /\ phase[s] \in Unfinished /\ ~due[s]
    /\ due' = [due EXCEPT ![s] = TRUE]
    /\ UNCHANGED <<sessionVars, phase, merge, worker, lease, fileVars, procVars, workVars>>

\* Mutant: the lease is somebody's.
LeaseIsLive(p) == phase[job[p]] \in Unfinished /\ lease[job[p]] = "live"

\* commit's SELECT.
HoldsLease(p) ==
    /\ phase[job[p]] \in Unfinished /\ worker[job[p]] = p /\ lease[job[p]] = "live"

\* commit's UPDATE for a last phase; should_merge falls back to its default.
Finish(p, last) ==
    /\ phase' = [phase EXCEPT ![job[p]] = last] /\ merge' = [merge EXCEPT ![job[p]] = TRUE]
    /\ worker' = [worker EXCEPT ![job[p]] = NoProc] /\ lease' = [lease EXCEPT ![job[p]] = "none"]
    /\ UNCHANGED due

\* The worker's loop goes on.
Release(p) ==
    /\ pc' = [pc EXCEPT ![p] = "idle"] /\ job' = [job EXCEPT ![p] = NoSession]
    /\ flag' = [flag EXCEPT ![p] = FALSE] /\ draft' = [draft EXCEPT ![p] = "none"]
    /\ previous' = [previous EXCEPT ![p] = Empty]

-----------------------------------------------------------------------------
(* GenerateSessionMemory.execute of one process.                            *)

Skips(p) ==
    /\ pc[p] = "entering" /\ ~told[job[p]] /\ HoldsLease(p)
    /\ Finish(p, "SKIPPED") /\ Release(p)
    /\ UNCHANGED <<sessionVars, fileVars, procVars>>

\* Mutant: a detail file left by an earlier run is used with the row's flag.
SavedFlagOfRow(p) == merge[job[p]]

\* The flag on the first line of a saved detail.
SavedFlag(p) == detail[job[p]] = "merge=true"

\* A detail published before its checkpoint was lost is used again; else the model is asked.
Reads(p) ==
    /\ pc[p] = "entering" /\ told[job[p]]
    /\ IF detail[job[p]] # "none"
       THEN /\ pc' = [pc EXCEPT ![p] = "extracted"]
            /\ flag' = [flag EXCEPT ![p] = SavedFlag(p)]
            /\ draft' = [draft EXCEPT ![p] = detail[job[p]]]
       ELSE pc' = [pc EXCEPT ![p] = "extracting"] /\ UNCHANGED <<flag, draft>>
    /\ UNCHANGED <<sessionVars, rowVars, fileVars, procVars, job, previous>>

Extracts(p) ==
    /\ pc[p] = "extracting"
    /\ pc' = [pc EXCEPT ![p] = "extracted"]
    /\ \E b \in BOOLEAN :
          /\ flag' = [flag EXCEPT ![p] = b]
          /\ draft' = [draft EXCEPT ![p] = IF b THEN "merge=true" ELSE "merge=false"]
    /\ UNCHANGED <<sessionVars, rowVars, fileVars, procVars, job, previous>>

\* The detail file is replaced under the database's writer lock.
PublishesDetail(p) ==
    /\ pc[p] = "extracted" /\ mode[p] # "abort" /\ HoldsLease(p)
    /\ detail' = [detail EXCEPT ![job[p]] = draft[p]]
    /\ UNCHANGED <<sessionVars, overview, procVars, job, flag, draft, previous>>

\* The transaction that publishes the detail commits: phase EXTRACTED.
Checkpoint(p) ==
    /\ PublishesDetail(p)
    /\ phase' = [phase EXCEPT ![job[p]] = "EXTRACTED"]
    /\ merge' = [merge EXCEPT ![job[p]] = flag[p]]
    /\ lease' = [lease EXCEPT ![job[p]] = "live"]
    /\ pc' = [pc EXCEPT ![p] = "checkpointed"]
    /\ UNCHANGED <<worker, due>>

\* The file is there and the transaction fails, or the process dies before it commits.
LosesCheckpoint(p) ==
    /\ PublishesDetail(p)
    /\ pc' = [pc EXCEPT ![p] = "failing"]
    /\ UNCHANGED rowVars

\* Mutant: the marker is not looked at.
NeverEntered(p) == FALSE

\* Mutant: an overview with a marker is taken for one with the job's marker.
SomethingEntered(p) == overview[OwnerOf[job[p]]].marker # NoSession

\* The overview starts with the marker of this job.
AlreadyEntered(p) == overview[OwnerOf[job[p]]].marker = job[p]

\* The detail is not to be merged, or has been in a run whose checkpoint was lost.
CompletesWithout(p) ==
    /\ pc[p] = "checkpointed" /\ HoldsLease(p)
    /\ ~flag[p] \/ AlreadyEntered(p)
    /\ Finish(p, "COMPLETED") /\ Release(p)
    /\ UNCHANGED <<sessionVars, fileVars, procVars>>

StartsMerge(p) ==
    /\ pc[p] = "checkpointed" /\ flag[p] /\ ~AlreadyEntered(p)
    /\ pc' = [pc EXCEPT ![p] = "merging"]
    /\ previous' = [previous EXCEPT ![p] = overview[OwnerOf[job[p]]]]
    /\ UNCHANGED <<sessionVars, rowVars, fileVars, procVars, job, flag, draft>>

\* Mutant: the revision is not compared.
AnyRevision(p) == TRUE

SameRevision(p) == overview[OwnerOf[job[p]]] = previous[p]

\* The model has folded the detail into the overview it was given, and MEMORY.md is
\* replaced under the writer lock.
PublishesOverview(p) ==
    /\ pc[p] = "merging" /\ mode[p] # "abort" /\ HoldsLease(p) /\ SameRevision(p)
    /\ overview' = [overview EXCEPT ![OwnerOf[job[p]]] =
                       [marker |-> job[p], text |-> Append(previous[p].text, job[p])]]
    /\ UNCHANGED <<sessionVars, detail, procVars>>

Completes(p) == PublishesOverview(p) /\ Finish(p, "COMPLETED") /\ Release(p)

LosesCompletion(p) ==
    /\ PublishesOverview(p)
    /\ pc' = [pc EXCEPT ![p] = "failing"]
    /\ UNCHANGED <<rowVars, job, flag, draft, previous>>

\* Mutant: the row gets a phase of its own.
FailedPhase(s) == "FAILED"

\* A failure leaves the phase as it is.
PhaseAfterFailure(s) == phase[s]

\* A call failed, was aborted, the lease was lost or the overview has changed: fail().
Fails(p) ==
    LET s == job[p]
    IN  /\ pc[p] # "idle"
        /\ IF worker[s] = p
           THEN /\ phase' = [phase EXCEPT ![s] = PhaseAfterFailure(s)]
                /\ worker' = [worker EXCEPT ![s] = NoProc] /\ lease' = [lease EXCEPT ![s] = "none"]
                /\ due' = [due EXCEPT ![s] = FALSE]
           ELSE UNCHANGED <<phase, worker, lease, due>>
        /\ Release(p)
        /\ UNCHANGED <<sessionVars, merge, fileVars, procVars>>

\* fail() fails as well: the lease runs out by itself.
FailsSilently(p) ==
    /\ pc[p] # "idle"
    /\ Release(p)
    /\ UNCHANGED <<sessionVars, rowVars, fileVars, procVars>>

-----------------------------------------------------------------------------
(* The service.                                                             *)

Start(p) ==
    /\ mode[p] = "new" /\ holder = NoProc
    /\ mode' = [mode EXCEPT ![p] = "recover"] /\ holder' = p
    /\ UNCHANGED <<sessionVars, rowVars, fileVars, workVars>>

\* endSession.all has ended what was active; an overlapping process may begin more meanwhile.
AllEnded(p) == active = {} \/ \E q \in Procs \ {p} : mode[q] \notin {"new", "gone"}

\* memoryJobs.recover, then recoverInterrupted for turns of ended sessions, then the loops.
Recover(p) ==
    /\ mode[p] = "recover" /\ AllEnded(p)
    /\ mode' = [mode EXCEPT ![p] = "run"]
    /\ worker' = [s \in Sessions |-> IF phase[s] \in Unfinished THEN NoProc ELSE worker[s]]
    /\ lease' = [s \in Sessions |-> IF phase[s] \in Unfinished THEN "none" ELSE lease[s]]
    /\ open' = [s \in Sessions |-> FALSE]
    /\ UNCHANGED <<active, ended, told, cleaned, phase, merge, due, fileVars, holder, workVars>>

Stop(p) ==
    /\ mode[p] = "run"
    /\ mode' = [mode EXCEPT ![p] = "stop"]
    /\ UNCHANGED <<sessionVars, rowVars, fileVars, holder, workVars>>

\* The grace period is over, or the process has noticed that it lost the lock.
Abort(p) ==
    /\ mode[p] = "stop" \/ (mode[p] = "run" /\ holder # p)
    /\ mode' = [mode EXCEPT ![p] = "abort"]
    /\ UNCHANGED <<sessionVars, rowVars, fileVars, holder, workVars>>

Unlocked(p) == IF holder = p THEN NoProc ELSE holder

Exit(p) ==
    /\ mode[p] \in {"stop", "abort"} /\ pc[p] = "idle" /\ (holder = p => AllEnded(p))
    /\ mode' = [mode EXCEPT ![p] = "gone"] /\ holder' = Unlocked(p)
    /\ UNCHANGED <<sessionVars, rowVars, fileVars, workVars>>

Crash(p) ==
    /\ mode[p] \notin {"new", "gone"}
    /\ mode' = [mode EXCEPT ![p] = "gone"] /\ holder' = Unlocked(p)
    /\ Release(p)
    /\ UNCHANGED <<sessionVars, rowVars, fileVars>>

\* The lock of a process that stalls becomes stale.
LockLost(p) ==
    /\ Faults /\ holder = p
    /\ holder' = NoProc
    /\ UNCHANGED <<sessionVars, rowVars, fileVars, mode, workVars>>

Edits(o) == Len(SelectSeq(overview[o].text, LAMBDA e : e = Edit))

\* The user edits MEMORY.md, with or without its first line.
HandEdit(o) ==
    /\ Edits(o) < MaxEdits
    /\ \E m \in {overview[o].marker, NoSession} :
          overview' = [overview EXCEPT ![o] = [marker |-> m, text |-> Append(@.text, Edit)]]
    /\ UNCHANGED <<sessionVars, rowVars, detail, procVars, workVars>>

Next ==
    \/ \E s \in Sessions : LeaseExpires(s) \/ RetryDue(s)
    \/ \E o \in Owners : HandEdit(o)
    \/ \E p \in Procs :
          \/ \E s \in Sessions : \/ Begin(p, s) \/ EndManually(p, s) \/ EndIdle(p, s)
                                 \/ EndInterrupted(p, s) \/ TurnEnds(p, s) \/ Clean(p, s)
                                 \/ Claim(p, s)
          \/ Skips(p) \/ Reads(p) \/ Extracts(p) \/ Checkpoint(p) \/ LosesCheckpoint(p)
          \/ CompletesWithout(p) \/ StartsMerge(p) \/ Completes(p) \/ LosesCompletion(p)
          \/ Fails(p) \/ FailsSilently(p)
          \/ Start(p) \/ Recover(p) \/ Stop(p) \/ Abort(p) \/ Exit(p) \/ Crash(p) \/ LockLost(p)

Spec == Init /\ [][Next]_vars

\* The loop claims again after every job, calls have time limits, and times come.  A call
\* that is made again and again succeeds some day.
Fairness ==
    /\ WF_vars(\E p \in Procs, s \in Sessions : TurnEnds(p, s))
    /\ WF_vars(\E p \in Procs, s \in Sessions : Clean(p, s))
    /\ WF_vars(\E p \in Procs, s \in Sessions : Claim(p, s))
    /\ WF_vars(\E s \in Sessions : RetryDue(s))
    /\ WF_vars(\E s \in Sessions : LeaseExpires(s))
    /\ WF_vars(\E p \in Procs : Fails(p) \/ FailsSilently(p))
    /\ SF_vars(\E p \in Procs : Skips(p) \/ Reads(p))
    /\ SF_vars(\E p \in Procs : Extracts(p))
    /\ SF_vars(\E p \in Procs : Checkpoint(p))
    /\ SF_vars(\E p \in Procs : CompletesWithout(p) \/ StartsMerge(p))
    /\ SF_vars(\E p \in Procs : Completes(p))
FairSpec == Spec /\ Fairness

-----------------------------------------------------------------------------
(* Properties.                                                              *)

Entries(s) == {i \in DOMAIN overview[OwnerOf[s]].text : overview[OwnerOf[s]].text[i] = s}

\* A row and its detail file agree however many runs were cut off between the two: a job that
\* is EXTRACTED has a detail, and the row says of merging what the detail says.
DetailMatches ==
    \A s \in Sessions :
        phase[s] = "EXTRACTED" =>
            detail[s] = IF merge[s] THEN "merge=true" ELSE "merge=false"

\* A completed job has brought what was worth keeping into the overview, and nothing else.
NothingForgotten ==
    \A s \in Sessions :
        /\ phase[s] = "COMPLETED" => (detail[s] = "merge=true" <=> Entries(s) # {})
        /\ phase[s] \in {"none", "PENDING", "SKIPPED"} => Entries(s) = {}

\* A crash between the replacement of MEMORY.md and its checkpoint does not merge a session
\* twice; only a hand edit in between can bring that about.
MergedOnce ==
    \A s \in Sessions : \A i, k \in Entries(s) :
        i < k => \E e \in i..k : overview[OwnerOf[s]].text[e] = Edit

\* No step takes anything out of an overview: neither a hand edit nor an earlier session is
\* lost to a merge that started before it, whichever process it runs in.
OverviewOnlyGrows ==
    [][\A o \in Owners : IsPrefix(overview[o].text, overview'[o].text)]_vars

\* Once its checkpoint is there a detail is never written again, not even by a process that
\* was overtaken while it asked the model.
DetailFrozen ==
    [][\A s \in Sessions :
          phase[s] \in {"EXTRACTED"} \cup Finished => detail'[s] = detail[s]]_vars

\* Sessions are recorded in the order they ended, one at a time.
Ledger == INSTANCE MemoryLedger
    WITH line <- ended, settled <- {s \in Sessions : phase[s] \in Finished},
         book <- [o \in Owners |-> overview[o].text]
RecordsInOrder == Ledger!Spec

KeepsRunning == <>[](\E p \in Procs : mode[p] = "run")

\* While the service runs, the memory of every ended session is dealt with in the end.
JobsEnd == KeepsRunning => \A s \in Sessions : phase[s] = "PENDING" ~> phase[s] \in Finished
=============================================================================
