------------------------------ MODULE Artifacts ------------------------------
(***************************************************************************)
(* What the user sends as files and what the agent sends as images: files  *)
(* on disk and the rows that speak of them, which no transaction spans.    *)
(* Messages, the one turn worker, deliveries, crashes, the passing of time *)
(* and the cleanup at startup interleave.                                  *)
(*                                                                         *)
(* row, home, selected and outbox are tables of app.db, file and blob the  *)
(* directories beside it.  The task's status is that of TaskExecution, cut *)
(* down to what decides about images.  A repeated tool call id is left out,*)
(* and so are the tools of a run that was aborted before its prompt and    *)
(* missed it (PermissionGrants): a selection under an old revision or a    *)
(* task that stops is refused to them as to a call that was under way.     *)
(***************************************************************************)
EXTENDS Integers, FiniteSets

CONSTANTS
    MaxImages,     \* bound: images
    MaxTasks,      \* bound: tasks
    MaxRevisions,  \* bound: inputs of a task
    MaxDocuments,  \* bound: files of the first message
    PerReply,      \* images of a reply, three in the code
    Quota,         \* images kept at a time, 500 MiB in the code
    MaxLapses,     \* bound: days and weeks that pass
    MaxRestarts,   \* bound: ends of the process
    MaxFaults      \* bound: removals and controls that fail

ASSUME BoundsAssumption ==
    /\ MaxImages \in Nat /\ MaxTasks \in Nat /\ MaxRevisions \in Nat \ {0}
    /\ MaxDocuments \in Nat /\ PerReply \in Nat /\ Quota \in Nat
    /\ MaxLapses \in Nat /\ MaxRestarts \in Nat /\ MaxFaults \in Nat

Images == 1..MaxImages
Tasks == 1..MaxTasks
Documents == 1..MaxDocuments    \* in the order of the message
Nothing == 0
Active == {"RUNNING", "REVIEWING", "PAUSING", "CANCELLING"}
Over == {"COMPLETED", "CANCELLED"}
Statuses == Active \cup Over \cup {"none", "QUEUED", "WAITING", "PAUSED"}
NoHome == [task |-> Nothing, revision |-> 0]

VARIABLES
    up,                            \* "down", then startup's "sweeping" and "cleaning", "up"
    status, revision, cur,         \* tasks, and the newest one
    stage, item, base, aborted,    \* the turn worker: what it does, with what, for which revision
    attached, checking,            \* attachments of the review; documents of the turn to go
    file, row, home, selected,     \* image files, image_artifacts, image_reply_selections
    outbox,                        \* rows of outbox with an image
    blob, doc,                     \* document files, user_files
    age, recent, sentRecent,       \* of images: 0, a day or a week; what is not a week old
    lapses, restarts, faults,      \* the bounds
    lost                           \* history: files that a crash or a fault left behind

taskVars == <<status, revision, cur, recent>>
workVars == <<stage, item, base, aborted, attached, checking>>
imageVars == <<file, row, home, selected>>
docVars == <<blob, doc>>
boundVars == <<lapses, restarts, faults>>
vars == <<up, taskVars, workVars, imageVars, outbox, docVars, age, sentRecent, boundVars, lost>>

\* Types of the tables, the directories and the worker.
TypeOK ==
    /\ up \in {"down", "sweeping", "cleaning", "up"}
    /\ status \in [Tasks -> Statuses] /\ revision \in [Tasks -> 0..MaxRevisions]
    /\ cur \in 0..MaxTasks /\ recent \subseteq Tasks
    /\ stage \in {"idle", "checking", "stored", "running", "reading", "saved", "discarding",
                  "registered", "loading", "reviewing", "expiring"}
    /\ item \in 0..MaxImages /\ base \in 0..MaxRevisions /\ aborted \in BOOLEAN
    /\ attached \subseteq Images /\ checking \subseteq Documents
    /\ file \subseteq Images /\ row \in [Images -> {"none", "ready", "deleted"}]
    /\ home \in [Images -> [task : 0..MaxTasks, revision : 0..MaxRevisions]]
    /\ selected \subseteq Images
    /\ outbox \in [Images -> {"none", "PENDING", "SENT", "DEAD_LETTER"}]
    /\ blob \subseteq Documents /\ doc \in [Documents -> {"none", "failed", "ready"}]
    /\ age \in [Images -> 0..2] /\ sentRecent \subseteq Images /\ lost \subseteq Images
    /\ lapses \in Nat /\ restarts \in Nat /\ faults \in Nat

Init ==
    /\ up = "up" /\ status = [t \in Tasks |-> "none"] /\ revision = [t \in Tasks |-> 0]
    /\ cur = Nothing /\ recent = {}
    /\ stage = "idle" /\ item = Nothing /\ base = 0 /\ aborted = FALSE
    /\ attached = {} /\ checking = {}
    /\ file = {} /\ row = [i \in Images |-> "none"] /\ home = [i \in Images |-> NoHome]
    /\ selected = {} /\ outbox = [i \in Images |-> "none"]
    /\ blob = {} /\ doc = [d \in Documents |-> "none"]
    /\ age = [i \in Images |-> 0] /\ sentRecent = {}
    /\ lapses = 0 /\ restarts = 0 /\ faults = 0 /\ lost = {}

Fault == faults < MaxFaults /\ faults' = faults + 1

-----------------------------------------------------------------------------
(* The user: inputs, /task commands, and what they do to the run.           *)

Live == cur # Nothing /\ status[cur] \notin Over

SetTask(s) ==
    /\ status' = [status EXCEPT ![cur] = s]
    /\ recent' = IF s \in Over THEN recent \cup {cur} ELSE recent

\* TaskManager.handleMessage, which is not reached when a control before it throws.
Interrupt ==
    \/ aborted' = (aborted \/ status[cur] \in Active) /\ UNCHANGED faults
    \/ Fault /\ UNCHANGED aborted

\* A message: a new task, or one more input of the live one, whose run is aborted.
Input ==
    /\ up = "up"
    /\ IF Live
       THEN /\ status[cur] # "CANCELLING" /\ revision[cur] < MaxRevisions
            /\ revision' = [revision EXCEPT ![cur] = @ + 1]
            /\ SetTask(IF status[cur] = "WAITING" THEN "QUEUED" ELSE status[cur])
            /\ Interrupt
            /\ UNCHANGED cur
       ELSE /\ cur < MaxTasks /\ cur' = cur + 1
            /\ status' = [status EXCEPT ![cur + 1] = "QUEUED"]
            /\ revision' = [revision EXCEPT ![cur + 1] = 1]
            /\ UNCHANGED <<recent, aborted, faults>>
    /\ UNCHANGED <<up, stage, item, base, attached, checking, imageVars, outbox, docVars, age,
                   sentRecent, lapses, restarts, lost>>

\* /task pause and cancel.
Control(stopping, stopped) ==
    /\ up = "up" /\ Live /\ status[cur] \notin {"CANCELLING", stopping, stopped}
    /\ SetTask(IF status[cur] \in Active THEN stopping ELSE stopped)
    /\ aborted' = (aborted \/ status[cur] \in Active)
    /\ UNCHANGED <<up, revision, cur, stage, item, base, attached, checking, imageVars, outbox,
                   docVars, age, sentRecent, boundVars, lost>>

Resume ==
    /\ up = "up" /\ Live /\ status[cur] = "PAUSED"
    /\ SetTask("QUEUED")
    /\ UNCHANGED <<up, revision, cur, workVars, imageVars, outbox, docVars, age, sentRecent,
                   boundVars, lost>>

-----------------------------------------------------------------------------
(* Documents of a turn: SaveInboundFiles.                                   *)

Release ==
    /\ stage' = "idle" /\ item' = Nothing /\ base' = 0 /\ aborted' = FALSE
    /\ attached' = {} /\ checking' = {}

\* The first turn of a task is that of a message, which may have files; internal turns that
\* follow have none.  A document that has its row is not fetched again.
Claim ==
    /\ up = "up" /\ stage = "idle" /\ Live /\ status[cur] = "QUEUED"
    /\ stage' = "checking" /\ base' = revision[cur]
    /\ checking' = IF cur = 1 THEN {d \in Documents : doc[d] = "none"} ELSE {}
    /\ UNCHANGED <<up, taskVars, item, aborted, attached, imageVars, outbox, docVars, age,
                   sentRecent, boundVars, lost>>

NextDocument(d) == d \in checking /\ \A e \in checking : d <= e

\* One that cannot be fetched is noted as such.
CheckDocument(d) ==
    /\ stage = "checking" /\ NextDocument(d)
    /\ doc' = [doc EXCEPT ![d] = "failed"]
    /\ checking' = checking \ {d}
    /\ UNCHANGED <<up, taskVars, stage, item, base, aborted, attached, imageVars, outbox, blob,
                   age, sentRecent, boundVars, lost>>

\* Written to a temporary file and renamed.
StoreDocument(d) ==
    /\ stage = "checking" /\ NextDocument(d)
    /\ blob' = blob \cup {d}
    /\ stage' = "stored"
    /\ UNCHANGED <<up, taskVars, item, base, aborted, attached, checking, imageVars, outbox, doc,
                   age, sentRecent, boundVars, lost>>

NoteDocument(d) ==
    /\ stage = "stored" /\ NextDocument(d)
    /\ doc' = [doc EXCEPT ![d] = "ready"]
    /\ checking' = checking \ {d} /\ stage' = "checking"
    /\ UNCHANGED <<up, taskVars, item, base, aborted, attached, imageVars, outbox, blob, age,
                   sentRecent, boundVars, lost>>

\* TaskStore.begin: a turn of an old revision, or of a task that is paused, ends here.
Begin ==
    /\ stage = "checking" /\ checking = {}
    /\ IF status[cur] = "QUEUED" /\ revision[cur] = base
       THEN /\ SetTask("RUNNING") /\ stage' = "running"
            /\ UNCHANGED <<item, base, aborted, attached, checking>>
       ELSE Release /\ UNCHANGED <<status, recent>>
    /\ UNCHANGED <<up, revision, cur, imageVars, outbox, docVars, age, sentRecent, boundVars,
                   lost>>

-----------------------------------------------------------------------------
(* The tool reply_image: ImageReplyService.prepare and selectReplyImage.    *)

Ours(i) == home[i] = [task |-> cur, revision |-> base]
Chosen == {i \in selected : Ours(i)}
Readable(i) == row[i] = "ready" /\ i \in file

CallTool(i) ==
    /\ stage = "running" /\ ~aborted
    /\ home[i] = NoHome /\ \A j \in Images : j < i => home[j] # NoHome
    /\ Cardinality({j \in Chosen : row[j] = "ready"}) < PerReply
    /\ home' = [home EXCEPT ![i] = [task |-> cur, revision |-> base]]
    /\ stage' = "reading" /\ item' = i
    /\ UNCHANGED <<up, taskVars, base, aborted, attached, checking, file, row, selected, outbox,
                   docVars, age, sentRecent, boundVars, lost>>

\* No permission, no image, too large, or aborted: nothing is left of the call.
ToolFails ==
    /\ stage = "reading"
    /\ home' = [home EXCEPT ![item] = NoHome]
    /\ stage' = "running" /\ item' = Nothing
    /\ UNCHANGED <<up, taskVars, base, aborted, attached, checking, file, row, selected, outbox,
                   docVars, age, sentRecent, boundVars, lost>>

SaveSnapshot ==
    /\ stage = "reading" /\ ~aborted
    /\ file' = file \cup {item} /\ age' = [age EXCEPT ![item] = 0]
    /\ stage' = "saved"
    /\ UNCHANGED <<up, taskVars, item, base, aborted, attached, checking, row, home, selected,
                   outbox, docVars, sentRecent, boundVars, lost>>

\* Mutant: the snapshot stays when the call was aborted or the quota is used up.
LeaveSnapshot == stage' = "running" /\ item' = Nothing /\ UNCHANGED row

\* The catch clause of prepare.
GiveBack == stage' = "discarding" /\ UNCHANGED <<row, item>>

\* saveWithinQuota, unless the call was aborted while the file was written.
Register ==
    /\ stage = "saved"
    /\ IF ~aborted /\ Cardinality({i \in Images : row[i] = "ready"}) < Quota
       THEN row' = [row EXCEPT ![item] = "ready"] /\ stage' = "registered" /\ UNCHANGED item
       ELSE GiveBack
    /\ UNCHANGED <<up, taskVars, base, aborted, attached, checking, file, home, selected, outbox,
                   docVars, age, sentRecent, boundVars, lost>>

Discard ==
    /\ stage = "discarding"
    /\ \/ file' = file \ {item} /\ home' = [home EXCEPT ![item] = NoHome]
          /\ UNCHANGED <<lost, faults>>
       \/ Fault /\ lost' = lost \cup {item} /\ UNCHANGED <<file, home>>
    /\ stage' = "running" /\ item' = Nothing
    /\ UNCHANGED <<up, taskVars, base, aborted, attached, checking, row, selected, outbox,
                   docVars, age, sentRecent, lapses, restarts>>

\* Rejected when the task has another input or is being stopped, or has enough images.
Select ==
    /\ stage = "registered"
    /\ selected' = IF ~aborted /\ status[cur] = "RUNNING" /\ revision[cur] = base
                      /\ Cardinality(Chosen) < PerReply
                   THEN selected \cup {item} ELSE selected
    /\ stage' = "running" /\ item' = Nothing
    /\ UNCHANGED <<up, taskVars, base, aborted, attached, checking, file, row, home, outbox,
                   docVars, age, sentRecent, boundVars, lost>>

Clear ==
    /\ stage = "running" /\ ~aborted /\ status[cur] = "RUNNING" /\ revision[cur] = base
    /\ selected' = selected \ Chosen
    /\ UNCHANGED <<up, taskVars, workVars, file, row, home, outbox, docVars, age, sentRecent,
                   boundVars, lost>>

-----------------------------------------------------------------------------
(* Review and settlement: TaskManager.execute and completeTurn.             *)

\* Mutant: the result of an earlier revision settles the task.
AnyRevision == TRUE

\* settle takes a result of the current revision, or of a task that is being stopped.
OfRevision == revision[cur] = base \/ status[cur] \in {"PAUSING", "CANCELLING"}

\* Mutant: a run that fails leaves a status that /task resume does not know.
SettledAsFailed(s) == IF s = "PAUSED" THEN "FAILED" ELSE s

\* The status that settle leaves behind.
Settled(s) ==
    IF status[cur] \notin Active THEN status[cur]
    ELSE IF ~OfRevision THEN "QUEUED"
    ELSE IF status[cur] = "CANCELLING" THEN "CANCELLED"
    ELSE IF status[cur] = "PAUSING" THEN "PAUSED"
    ELSE s

Settle(s) ==
    /\ SetTask(Settled(s))
    /\ Release
    /\ UNCHANGED <<up, revision, cur, imageVars, outbox, docVars, age, sentRecent, boundVars,
                   lost>>

\* The prompt fails or returns; then assertReady looks the chosen images up.
RunReturns ==
    /\ stage = "running"
    /\ \/ Settle("PAUSED")
       \/ /\ ~aborted /\ \A i \in Chosen : row[i] = "ready"
          /\ attached' = Chosen /\ stage' = "loading"
          /\ UNCHANGED <<up, taskVars, item, base, aborted, checking, imageVars, outbox,
                         docVars, age, sentRecent, boundVars, lost>>

\* The images are read from disk, and the outcome is looked at.
Loaded ==
    /\ stage = "loading"
    /\ \/ /\ attached \subseteq file /\ status[cur] = "RUNNING" /\ revision[cur] = base
          /\ SetTask("REVIEWING") /\ stage' = "reviewing"
          /\ UNCHANGED <<up, revision, cur, item, base, aborted, attached, checking, imageVars,
                         outbox, docVars, age, sentRecent, boundVars, lost>>
       \/ \E s \in {"QUEUED", "WAITING", "PAUSED"} : Settle(s)

\* The reviewer does not approve, or the run was aborted meanwhile.
ReviewRejects ==
    /\ stage = "reviewing"
    /\ \E s \in {"QUEUED", "WAITING", "PAUSED"} : Settle(s)

\* Result, status and outbox in one transaction, which fails as a whole when an image is gone.
ReviewApproves ==
    /\ stage = "reviewing" /\ ~aborted
    /\ IF Settled("COMPLETED") = "COMPLETED" /\ \A i \in attached : row[i] = "ready" /\ i \in selected
       THEN /\ SetTask("COMPLETED")
            /\ outbox' = [i \in Images |-> IF i \in attached THEN "PENDING" ELSE outbox[i]]
       ELSE /\ SetTask(Settled("PAUSED")) /\ UNCHANGED outbox
    /\ Release
    /\ UNCHANGED <<up, revision, cur, imageVars, docVars, age, sentRecent, boundVars, lost>>

\* DeliverReply: a part whose image cannot be read ends in the dead letters.
Deliver(i) ==
    /\ up = "up" /\ outbox[i] = "PENDING"
    /\ \/ outbox' = [outbox EXCEPT ![i] = "SENT"] /\ sentRecent' = sentRecent \cup {i} /\ Readable(i)
       \/ outbox' = [outbox EXCEPT ![i] = "DEAD_LETTER"] /\ UNCHANGED sentRecent
    /\ UNCHANGED <<up, taskVars, workVars, imageVars, docVars, age, boundVars, lost>>

-----------------------------------------------------------------------------
(* Time, crashes and the cleanup at startup.                                *)

TimePasses ==
    /\ lapses < MaxLapses /\ lapses' = lapses + 1
    /\ \/ /\ age' = [i \in Images |-> 2] /\ recent' = {} /\ sentRecent' = {}
       \/ /\ age' = [i \in Images |-> IF age[i] = 0 THEN 1 ELSE age[i]]
          /\ UNCHANGED <<recent, sentRecent>>
    /\ UNCHANGED <<up, status, revision, cur, workVars, imageVars, outbox, docVars, restarts,
                   faults, lost>>

Crash ==
    /\ up # "down" /\ restarts < MaxRestarts
    /\ up' = "down" /\ restarts' = restarts + 1
    /\ lost' = {i \in file : row[i] # "ready"}
    /\ Release
    /\ UNCHANGED <<taskVars, imageVars, outbox, docVars, age, sentRecent, lapses, faults>>

\* EndSession.all and recovery come first: the conversation and its task are over.
Boot ==
    /\ up = "down" /\ up' = "sweeping"
    /\ IF Live THEN SetTask("CANCELLED") ELSE UNCHANGED <<status, recent>>
    /\ UNCHANGED <<revision, cur, workVars, imageVars, outbox, docVars, age, sentRecent,
                   boundVars, lost>>

Orphans == {i \in file : row[i] # "ready" /\ age[i] > 0}

Sweep(i) ==
    /\ up = "sweeping" /\ i \in Orphans
    /\ file' = file \ {i} /\ lost' = lost \ {i}
    /\ UNCHANGED <<up, taskVars, workVars, row, home, selected, outbox, docVars, age, sentRecent,
                   boundVars>>

Swept ==
    /\ up = "sweeping" /\ Orphans = {} /\ up' = "cleaning"
    /\ UNCHANGED <<taskVars, workVars, imageVars, outbox, docVars, age, sentRecent, boundVars,
                   lost>>

\* Mutant: what ended in the dead letters does not protect its image.
ProtectedIfPending(i) ==
    \/ outbox[i] = "PENDING"
    \/ status[home[i].task] \notin Over \/ home[i].task \in recent
    \/ i \in sentRecent

\* protectedReplyImages.
Protected(i) ==
    \/ outbox[i] \in {"PENDING", "DEAD_LETTER"}
    \/ status[home[i].task] \notin Over \/ home[i].task \in recent
    \/ i \in sentRecent

Expired == {i \in Images : row[i] = "ready" /\ age[i] = 2 /\ ~Protected(i)}

\* cleanup: first the file, then the row.
ExpireFile(i) ==
    /\ up = "cleaning" /\ stage = "idle" /\ i \in Expired
    /\ file' = file \ {i}
    /\ stage' = "expiring" /\ item' = i
    /\ UNCHANGED <<up, taskVars, base, aborted, attached, checking, row, home, selected, outbox,
                   docVars, age, sentRecent, boundVars, lost>>

ExpireRow ==
    /\ up = "cleaning" /\ stage = "expiring"
    /\ row' = [row EXCEPT ![item] = "deleted"]
    /\ stage' = "idle" /\ item' = Nothing
    /\ UNCHANGED <<up, taskVars, base, aborted, attached, checking, file, home, selected, outbox,
                   docVars, age, sentRecent, boundVars, lost>>

\* A removal fails, or the row of a removed file stays: the rest is kept for the next start,
\* and the service starts.
CleanupFails ==
    /\ up \in {"sweeping", "cleaning"} /\ (stage = "expiring" \/ Orphans \cup Expired # {})
    /\ Fault /\ up' = "up"
    /\ stage' = "idle" /\ item' = Nothing
    /\ UNCHANGED <<taskVars, base, aborted, attached, checking, imageVars, outbox, docVars, age,
                   sentRecent, lapses, restarts, lost>>

Serve ==
    /\ up = "cleaning" /\ stage = "idle" /\ Expired = {} /\ up' = "up"
    /\ UNCHANGED <<taskVars, workVars, imageVars, outbox, docVars, age, sentRecent, boundVars,
                   lost>>

UserStep ==
    Input \/ Resume \/ Control("PAUSING", "PAUSED") \/ Control("CANCELLING", "CANCELLED")
DocumentStep ==
    Claim \/ Begin \/ \E d \in Documents : CheckDocument(d) \/ StoreDocument(d) \/ NoteDocument(d)
ToolStep ==
    \/ \E i \in Images : CallTool(i)
    \/ ToolFails \/ SaveSnapshot \/ Register \/ Discard \/ Select \/ Clear
ReviewStep == RunReturns \/ Loaded \/ ReviewRejects \/ ReviewApproves
StartStep ==
    \/ \E i \in Images : Sweep(i) \/ ExpireFile(i)
    \/ Boot \/ Swept \/ ExpireRow \/ CleanupFails \/ Serve

Next ==
    \/ UserStep \/ DocumentStep \/ ToolStep \/ ReviewStep \/ StartStep
    \/ TimePasses \/ Crash
    \/ \E i \in Images : Deliver(i)

Spec == Init /\ [][Next]_vars

-----------------------------------------------------------------------------
(* Properties.                                                              *)

\* What the rows promise is on disk: images that wait for delivery, failed or not, images
\* chosen for a reply that may still come, documents that a row calls ready.
PromisedIsReadable ==
    /\ \A i \in Images :
           (outbox[i] \in {"PENDING", "DEAD_LETTER"} \/ (i \in selected /\ status[home[i].task] \notin Over))
               => Readable(i)
    /\ \A d \in Documents : doc[d] = "ready" => d \in blob

\* Images go out with the result they were chosen and reviewed for, under the newest input,
\* and never with one that was paused or cancelled.
SentAsReviewed ==
    [][\A i \in Images :
         outbox[i] = "none" /\ outbox'[i] # "none" =>
             /\ status'[cur] = "COMPLETED" /\ home[i] = [task |-> cur, revision |-> revision[cur]]
             /\ i \in attached /\ Cardinality(attached) <= PerReply]_vars

\* An image file that no row speaks of is in somebody's hands, or a crash or a removal that
\* failed has left it: no abort and no full quota leaks it.
NoLeak ==
    \A i \in file :
        row[i] = "ready" \/ i \in lost \/ (i = item /\ stage \in {"saved", "discarding"})
=============================================================================
