--------------------------- MODULE ArtifactsProofs ---------------------------
(***************************************************************************)
(* Theorems about Artifacts for every value of its constants: any number   *)
(* of images, tasks, documents, restarts and failing removals.             *)
(***************************************************************************)
EXTENDS Artifacts, FiniteSetTheorems, TLAPS

-----------------------------------------------------------------------------
(* The inductive invariant.                                                 *)

Calling == {"reading", "saved", "discarding", "registered"}
Busy == Calling \cup {"running", "loading", "reviewing"}

\* The worker drives an active task, and knows of the image it has in hand how far it is.
WorkOK ==
    /\ up # "up" => stage \in {"idle", "expiring"}
    /\ stage \notin {"idle", "expiring"} => cur \in Tasks
    /\ stage \in Busy => status[cur] \in Active
    /\ stage \in Calling => item \in Images /\ home[item] = [task |-> cur, revision |-> base]
    /\ stage \in {"reading", "saved", "discarding"} => row[item] = "none"
    /\ stage = "saved" => item \in file
    /\ stage = "registered" => Readable(item)
    /\ stage = "expiring" => item \in Images /\ item \notin file /\ row[item] = "ready"
    /\ stage \in {"loading", "reviewing"} =>
           attached \subseteq Chosen /\ Cardinality(attached) <= PerReply
    /\ stage = "stored" => \A d \in Documents : NextDocument(d) => d \in blob

\* An image with a row has its home in a task there is, only such an image is selected, and
\* no more of them for a revision of a task than a reply takes.
HomeOK ==
    /\ \A i \in Images : row[i] # "none" => home[i].task \in 1..cur
    /\ \A i \in selected : row[i] # "none"
    /\ \A h \in [task : 0..MaxTasks, revision : 0..MaxRevisions] :
           Cardinality({i \in selected : home[i] = h}) <= PerReply

IInv == TypeOK /\ WorkOK /\ HomeOK /\ PromisedIsReadable /\ NoLeak

LEMMA ImagesFinite == IsFiniteSet(Images)
BY FS_Interval, BoundsAssumption DEF Images

LEMMA Initially == Init => IInv
<1> USE BoundsAssumption
<1> SUFFICES ASSUME Init PROVE IInv
  OBVIOUS
<1>1. NoHome \in [task : 0..MaxTasks, revision : 0..MaxRevisions]
  BY DEF NoHome, Nothing
<1>2. TypeOK
  <2>1. 0 \in 0..MaxImages /\ 0 \in 0..MaxTasks /\ 0 \in 0..MaxRevisions /\ "none" \in Statuses
    BY DEF Statuses
  <2>2. home \in [Images -> [task : 0..MaxTasks, revision : 0..MaxRevisions]]
    BY <1>1 DEF Init
  <2>3. /\ status \in [Tasks -> Statuses] /\ revision \in [Tasks -> 0..MaxRevisions]
        /\ row \in [Images -> {"none", "ready", "deleted"}]
        /\ outbox \in [Images -> {"none", "PENDING", "SENT", "DEAD_LETTER"}]
    BY <2>1 DEF Init
  <2>4. doc \in [Documents -> {"none", "failed", "ready"}] /\ age \in [Images -> 0..2]
    BY DEF Init
  <2>5. cur \in 0..MaxTasks /\ item \in 0..MaxImages /\ base \in 0..MaxRevisions /\ aborted \in BOOLEAN
    BY <2>1 DEF Init, Nothing
  <2> QED  BY <2>2, <2>3, <2>4, <2>5 DEF Init, TypeOK
<1>3. WorkOK
  BY DEF Init, WorkOK, Busy, Calling
<1>4. HomeOK
  <2>1. \A h : {i \in selected : home[i] = h} = {}
    BY DEF Init
  <2> QED  BY <2>1, FS_EmptySet DEF Init, HomeOK
<1>5. PromisedIsReadable /\ NoLeak
  BY DEF Init, PromisedIsReadable, NoLeak
<1> QED  BY <1>2, <1>3, <1>4, <1>5 DEF IInv

-----------------------------------------------------------------------------
(* Steps that neither touch images nor finish documents.                    *)

\* Tasks that are over stay over.
TasksGrow ==
    /\ cur <= cur'
    /\ \A t \in 1..cur : status[t] \in Over => status'[t] \in Over

Quiet ==
    /\ UNCHANGED <<file, row, home, selected, blob, lost>>
    /\ \A i \in Images : outbox'[i] \in {"PENDING", "DEAD_LETTER"} => outbox[i] \in {"PENDING", "DEAD_LETTER"}
    /\ \A d \in Documents : doc'[d] = "ready" => doc[d] = "ready"
    /\ TasksGrow
    /\ stage \in {"saved", "discarding"} => stage' = stage /\ item' = item

LEMMA QuietPreserves == ASSUME IInv, Quiet, TypeOK', WorkOK' PROVE IInv'
<1> USE DEF IInv
<1>1. HomeOK'
  <2>1. cur \in Nat /\ cur' \in Nat /\ cur <= cur'
    BY BoundsAssumption DEF TypeOK, Quiet, TasksGrow
  <2>2. UNCHANGED <<row, home, selected>>
    BY DEF Quiet
  <2> QED  BY <2>1, <2>2 DEF HomeOK
<1>2. PromisedIsReadable'
  <2>1. \A i \in Images : outbox'[i] \in {"PENDING", "DEAD_LETTER"} => Readable(i)'
    BY DEF Quiet, PromisedIsReadable, Readable
  <2>2. \A i \in selected : status[home[i].task] \in Over => status'[home[i].task] \in Over
    BY DEF Quiet, TasksGrow, HomeOK, TypeOK
  <2>3. \A i \in Images : i \in selected' /\ status'[home'[i].task] \notin Over => Readable(i)'
    BY <2>2 DEF Quiet, PromisedIsReadable, Readable
  <2>4. \A d \in Documents : doc'[d] = "ready" => d \in blob'
    BY DEF Quiet, PromisedIsReadable
  <2> QED  BY <2>1, <2>3, <2>4 DEF PromisedIsReadable
<1>3. NoLeak'
  BY DEF Quiet, NoLeak
<1> QED  BY <1>1, <1>2, <1>3

LEMMA TaskEffect ==
    ASSUME TypeOK, cur \in Tasks, NEW s \in Statuses, SetTask(s)
    PROVE  /\ status' \in [Tasks -> Statuses] /\ recent' \subseteq Tasks
           /\ status'[cur] = s /\ \A t \in Tasks \ {cur} : status'[t] = status[t]
BY DEF SetTask, TypeOK

LEMMA LiveTask == ASSUME TypeOK, Live PROVE cur \in Tasks
BY BoundsAssumption DEF TypeOK, Live, Nothing, Tasks

\* What a step of the user may do: a task under way stays active, and keeps its number.
UserQuiet ==
    /\ UNCHANGED <<up, stage, item, base, attached, checking, imageVars, outbox, docVars, lost>>
    /\ TasksGrow
    /\ cur \in Tasks /\ status[cur] \in Active => cur' = cur /\ status'[cur] \in Active

LEMMA UserPreserves == ASSUME IInv, UserQuiet, TypeOK' PROVE IInv'
<1> USE DEF IInv, imageVars, docVars
<1>1. UNCHANGED <<up, stage, item, base, attached, checking, file, row, home, selected, outbox,
                  blob, doc, lost>>
  BY DEF UserQuiet
<1>2. WorkOK'
  <2>1. stage \in Busy => cur \in Tasks /\ cur' = cur /\ status'[cur] \in Active
    BY DEF UserQuiet, WorkOK, Busy, Calling
  <2>2. stage \in Busy => Chosen' = Chosen
    BY <1>1, <2>1 DEF Chosen, Ours
  <2>3. cur \in Tasks => cur' \in Tasks
    BY BoundsAssumption DEF UserQuiet, TasksGrow, TypeOK, Tasks
  <2> QED  BY <1>1, <2>1, <2>2, <2>3 DEF WorkOK, Busy, Calling, Readable, NextDocument
<1>3. Quiet
  BY <1>1 DEF UserQuiet, Quiet
<1> QED  BY <1>2, <1>3, QuietPreserves

LEMMA InputPreserves == ASSUME IInv, Input PROVE IInv'
<1> USE BoundsAssumption DEF imageVars, docVars
<1>1. /\ up = "up"
      /\ UNCHANGED <<up, stage, item, base, attached, checking, imageVars, outbox, docVars, age,
                     sentRecent, lapses, restarts, lost>>
  BY DEF Input
<1>2. /\ aborted' \in BOOLEAN /\ faults' \in Nat
  <2>1. aborted \in BOOLEAN /\ faults \in Nat
    BY DEF IInv, TypeOK
  <2>2. \/ aborted' = (aborted \/ status[cur] \in Active) \/ aborted' = aborted
    BY DEF Input, Interrupt
  <2>3. aborted' \in BOOLEAN
    BY <2>1, <2>2, Zenon
  <2>4. faults' = faults \/ faults' = faults + 1
    BY DEF Input, Interrupt, Fault
  <2> QED  BY <2>1, <2>3, <2>4
<1>3. CASE Live
  <2>1. PICK s \in Statuses :
            /\ SetTask(s) /\ cur' = cur /\ revision[cur] < MaxRevisions
            /\ revision' = [revision EXCEPT ![cur] = @ + 1]
            /\ s = IF status[cur] = "WAITING" THEN "QUEUED" ELSE status[cur]
    BY <1>3, LiveTask DEF Input, IInv, TypeOK, Statuses
  <2>2. cur \in Tasks
    BY <1>3, LiveTask DEF IInv
  <2>3. /\ status' \in [Tasks -> Statuses] /\ recent' \subseteq Tasks
        /\ status'[cur] = s /\ \A t \in Tasks \ {cur} : status'[t] = status[t]
    BY <2>1, <2>2, TaskEffect DEF IInv
  <2>4. revision' \in [Tasks -> 0..MaxRevisions]
    BY <2>1, <2>2 DEF IInv, TypeOK
  <2>5. TypeOK'
    BY <1>1, <1>2, <2>1, <2>3, <2>4 DEF IInv, TypeOK
  <2>6. UserQuiet
    <3>1. cur \in Nat /\ 1..cur \subseteq Tasks
      BY DEF IInv, TypeOK, Tasks
    <3> QED  BY <1>1, <1>3, <2>1, <2>3, <3>1 DEF UserQuiet, TasksGrow, Active, Live
  <2> QED  BY <2>5, <2>6, UserPreserves
<1>4. CASE ~Live
  <2>1. /\ cur < MaxTasks /\ cur' = cur + 1
        /\ status' = [status EXCEPT ![cur + 1] = "QUEUED"]
        /\ revision' = [revision EXCEPT ![cur + 1] = 1]
        /\ recent' = recent
    BY <1>4 DEF Input
  <2>2. cur \in Nat /\ cur + 1 \in Tasks /\ 1..cur \subseteq Tasks \ {cur + 1}
    BY <2>1 DEF IInv, TypeOK, Tasks
  <2>3. TypeOK'
    BY <1>1, <1>2, <2>1, <2>2 DEF IInv, TypeOK, Statuses, Tasks
  <2>4. UserQuiet
    <3>1. ~(cur \in Tasks /\ status[cur] \in Active)
      BY <1>4 DEF Live, Active, Over, Nothing, Tasks
    <3> QED  BY <1>1, <2>1, <2>2, <3>1 DEF IInv, TypeOK, UserQuiet, TasksGrow
  <2> QED  BY <2>3, <2>4, UserPreserves
<1> QED  BY <1>3, <1>4

LEMMA ControlPreserves ==
    ASSUME IInv, Control("PAUSING", "PAUSED") \/ Control("CANCELLING", "CANCELLED") \/ Resume
    PROVE  IInv'
<1> USE BoundsAssumption DEF imageVars, docVars, boundVars, workVars
<1>1. /\ up = "up" /\ Live
      /\ UNCHANGED <<up, revision, cur, stage, item, base, attached, checking, imageVars, outbox,
                     docVars, age, sentRecent, boundVars, lost>>
  BY DEF Control, Resume
<1>2. aborted' \in BOOLEAN
  BY DEF Control, Resume, IInv, TypeOK
<1>3. PICK s \in Statuses : SetTask(s) /\ (status[cur] \in Active => s \in Active)
  BY DEF Control, Resume, Statuses, Active, Over
<1>4. cur \in Tasks
  BY <1>1, LiveTask DEF IInv
<1>5. /\ status' \in [Tasks -> Statuses] /\ recent' \subseteq Tasks
      /\ status'[cur] = s /\ \A t \in Tasks \ {cur} : status'[t] = status[t]
  BY <1>3, <1>4, TaskEffect DEF IInv
<1>6. TypeOK'
  BY <1>1, <1>2, <1>5 DEF IInv, TypeOK
<1>7. UserQuiet
  <2>1. cur \in Nat /\ 1..cur \subseteq Tasks
    BY DEF IInv, TypeOK, Tasks
  <2> QED  BY <1>1, <1>3, <1>5, <2>1 DEF UserQuiet, TasksGrow, Live
<1> QED  BY <1>6, <1>7, UserPreserves

-----------------------------------------------------------------------------
(* The turn worker: claims, documents, the end of a run.                    *)

LEMMA TasksStay ==
    ASSUME TypeOK, UNCHANGED <<cur, status>>
    PROVE  TasksGrow
BY BoundsAssumption DEF TypeOK, TasksGrow

LEMMA ClaimPreserves == ASSUME IInv, Claim PROVE IInv'
<1> USE DEF IInv, imageVars, docVars, boundVars, taskVars
<1>1. /\ up = "up" /\ stage = "idle" /\ Live /\ stage' = "checking" /\ base' = revision[cur]
      /\ UNCHANGED <<up, taskVars, item, aborted, attached, imageVars, outbox, docVars, age,
                     sentRecent, boundVars, lost>>
  BY DEF Claim
<1>2. checking' \subseteq Documents /\ cur \in Tasks
  BY <1>1, LiveTask DEF Claim
<1>3. TypeOK'
  BY <1>1, <1>2 DEF TypeOK
<1>4. WorkOK'
  BY <1>1, <1>2 DEF WorkOK, Busy, Calling
<1>5. Quiet
  BY <1>1, TasksStay DEF Quiet
<1> QED  BY <1>3, <1>4, <1>5, QuietPreserves

LEMMA CheckPreserves == ASSUME IInv, NEW d \in Documents, CheckDocument(d) PROVE IInv'
<1> USE DEF IInv, imageVars, boundVars, taskVars
<1>1. /\ stage = "checking" /\ checking' = checking \ {d}
      /\ doc' = [doc EXCEPT ![d] = "failed"]
      /\ UNCHANGED <<up, taskVars, stage, item, base, aborted, attached, imageVars, outbox, blob,
                     age, sentRecent, boundVars, lost>>
  BY DEF CheckDocument
<1>2. TypeOK'
  BY <1>1 DEF TypeOK
<1>3. WorkOK'
  BY <1>1 DEF WorkOK, Busy, Calling
<1>4. Quiet
  BY <1>1, TasksStay DEF Quiet, TypeOK
<1> QED  BY <1>2, <1>3, <1>4, QuietPreserves

\* A document is ready when its file has been there for a step.
LEMMA StorePreserves ==
    ASSUME IInv, NEW d \in Documents, StoreDocument(d) \/ NoteDocument(d)
    PROVE  IInv'
<1> USE DEF IInv, imageVars, boundVars, taskVars
<1>1. /\ stage \in {"checking", "stored"} /\ stage' \in {"checking", "stored"}
      /\ NextDocument(d) /\ checking' \subseteq checking
      /\ UNCHANGED <<up, taskVars, item, base, aborted, attached, imageVars, outbox, age, sentRecent,
                     boundVars, lost>>
  BY DEF StoreDocument, NoteDocument
<1>2. TypeOK'
  BY <1>1 DEF TypeOK, StoreDocument, NoteDocument
<1>3. \A e \in Documents : NextDocument(e) => e = d
  BY <1>1, BoundsAssumption DEF NextDocument, TypeOK, Documents
<1>4. /\ blob \subseteq blob' /\ (stage' = "stored" => d \in blob' /\ checking' = checking)
      /\ \A e \in Documents : doc'[e] = "ready" => doc[e] = "ready" \/ (e = d /\ d \in blob)
  BY <1>1 DEF StoreDocument, NoteDocument, WorkOK, TypeOK
<1>5. WorkOK'
  BY <1>1, <1>3, <1>4 DEF WorkOK, Busy, Calling, NextDocument
<1>6. HomeOK' /\ NoLeak'
  BY <1>1 DEF HomeOK, NoLeak
<1>7. PromisedIsReadable'
  BY <1>1, <1>4 DEF PromisedIsReadable, Readable
<1> QED  BY <1>2, <1>5, <1>6, <1>7

LEMMA ReleaseEffect ==
    ASSUME Release
    PROVE  /\ stage' = "idle" /\ item' = 0 /\ base' = 0 /\ aborted' = FALSE
           /\ attached' = {} /\ checking' = {}
BY DEF Release, Nothing

LEMMA ReleaseTypes ==
    ASSUME Release
    PROVE  /\ stage' = "idle" /\ item' \in 0..MaxImages /\ base' \in 0..MaxRevisions
           /\ aborted' \in BOOLEAN /\ attached' \subseteq Images /\ checking' \subseteq Documents
BY ReleaseEffect, BoundsAssumption

LEMMA BeginPreserves == ASSUME IInv, Begin PROVE IInv'
<1> USE DEF IInv, imageVars, docVars, boundVars
<1>1. /\ stage = "checking"
      /\ UNCHANGED <<up, revision, cur, imageVars, outbox, docVars, age, sentRecent, boundVars, lost>>
  BY DEF Begin
<1>2. cur \in Tasks /\ up = "up"
  BY <1>1 DEF WorkOK
<1>3. CASE status[cur] = "QUEUED" /\ revision[cur] = base
  <2>1. /\ SetTask("RUNNING") /\ stage' = "running"
        /\ UNCHANGED <<item, base, aborted, attached, checking>>
    BY <1>3 DEF Begin
  <2>2. /\ status' \in [Tasks -> Statuses] /\ recent' \subseteq Tasks
        /\ status'[cur] = "RUNNING" /\ \A t \in Tasks \ {cur} : status'[t] = status[t]
    BY <1>2, <2>1, TaskEffect DEF Statuses, Active
  <2>3. TypeOK'
    BY <1>1, <2>1, <2>2 DEF TypeOK
  <2>4. WorkOK'
    BY <1>1, <1>2, <2>1, <2>2 DEF WorkOK, Busy, Calling, Active
  <2>5. TasksGrow
    <3>1. cur \in Nat /\ 1..cur \subseteq Tasks
      BY BoundsAssumption DEF TypeOK, Tasks
    <3> QED  BY <1>1, <1>3, <2>2, <3>1 DEF TasksGrow, Over
  <2>6. Quiet
    BY <1>1, <2>5 DEF Quiet
  <2> QED  BY <2>3, <2>4, <2>6, QuietPreserves
<1>4. CASE ~(status[cur] = "QUEUED" /\ revision[cur] = base)
  <2>1. Release /\ UNCHANGED <<status, recent>>
    BY <1>4 DEF Begin
  <2>2. TypeOK'
    BY <1>1, <2>1, ReleaseTypes DEF TypeOK
  <2>3. WorkOK'
    BY <1>1, <1>2, <2>1, ReleaseTypes DEF WorkOK, Busy, Calling
  <2>4. Quiet
    BY <1>1, <2>1, TasksStay DEF Quiet
  <2> QED  BY <2>2, <2>3, <2>4, QuietPreserves
<1> QED  BY <1>3, <1>4

LEMMA SettledEffect ==
    ASSUME IInv, cur \in Tasks, NEW s \in Statuses, SetTask(Settled(s))
    PROVE  /\ status' \in [Tasks -> Statuses] /\ recent' \subseteq Tasks
           /\ status'[cur] = Settled(s)
           /\ cur' = cur => TasksGrow
<1>1. Settled(s) \in Statuses /\ (status[cur] \in Over => Settled(s) \in Over)
  BY DEF IInv, TypeOK, Settled, Statuses, Over, Active
<1>2. /\ status' \in [Tasks -> Statuses] /\ recent' \subseteq Tasks
      /\ status'[cur] = Settled(s) /\ \A t \in Tasks \ {cur} : status'[t] = status[t]
  BY <1>1, TaskEffect DEF IInv
<1>3. cur \in Nat /\ 1..cur \subseteq Tasks
  BY BoundsAssumption DEF IInv, TypeOK, Tasks
<1> QED  BY <1>1, <1>2, <1>3 DEF TasksGrow

LEMMA SettlePreserves ==
    ASSUME IInv, NEW s \in {"QUEUED", "WAITING", "PAUSED"}, Settle(s),
           stage \in {"running", "loading", "reviewing"}
    PROVE  IInv'
<1> USE DEF imageVars, docVars, boundVars
<1>1. /\ SetTask(Settled(s)) /\ Release
      /\ UNCHANGED <<up, revision, cur, imageVars, outbox, docVars, age, sentRecent, boundVars, lost>>
  BY DEF Settle
<1>2. cur \in Tasks /\ up = "up" /\ s \in Statuses
  BY DEF IInv, WorkOK, Statuses
<1>3. TypeOK' /\ TasksGrow
  BY <1>1, <1>2, SettledEffect, ReleaseTypes DEF IInv, TypeOK
<1>4. WorkOK'
  BY <1>1, <1>2, ReleaseTypes DEF IInv, WorkOK, Busy, Calling
<1>5. Quiet
  BY <1>1, <1>3 DEF Quiet
<1> QED  BY <1>3, <1>4, <1>5, QuietPreserves

-----------------------------------------------------------------------------
(* The tool: an image from the call to its selection.                       *)

ChosenHome == [task |-> cur, revision |-> base]

LEMMA ChosenFits == ASSUME IInv, cur \in Tasks PROVE Cardinality(Chosen) <= PerReply
<1>1. ChosenHome \in [task : 0..MaxTasks, revision : 0..MaxRevisions]
  BY BoundsAssumption DEF IInv, TypeOK, ChosenHome, Tasks
<1>2. Chosen = {i \in selected : home[i] = ChosenHome}
  BY DEF Chosen, Ours, ChosenHome
<1> QED  BY <1>1, <1>2 DEF IInv, HomeOK

\* A call that concerns an image without a row.
LEMMA CallPreserves ==
    ASSUME IInv, TypeOK', WorkOK', NoLeak',
           UNCHANGED <<cur, status, row, selected, outbox, blob, doc>>,
           \A i \in Images : row[i] # "none" => home'[i] = home[i] /\ (i \in file' <=> i \in file)
    PROVE  IInv'
<1> USE DEF IInv
<1>1. HomeOK'
  <2>1. \A i \in Images : row'[i] # "none" => home'[i].task \in 1..cur'
    BY DEF HomeOK
  <2>2. \A i \in selected' : row'[i] # "none"
    BY DEF HomeOK
  <2>3. \A h : {i \in selected' : home'[i] = h} = {i \in selected : home[i] = h}
    BY DEF HomeOK, TypeOK
  <2> QED  BY <2>1, <2>2, <2>3 DEF HomeOK
<1>2. PromisedIsReadable'
  BY DEF PromisedIsReadable, Readable, HomeOK, TypeOK
<1> QED  BY <1>1, <1>2

LEMMA CallToolPreserves == ASSUME IInv, NEW i \in Images, CallTool(i) PROVE IInv'
<1> USE DEF IInv, taskVars, docVars, boundVars
<1>1. /\ stage = "running" /\ home[i] = NoHome
      /\ home' = [home EXCEPT ![i] = ChosenHome]
      /\ stage' = "reading" /\ item' = i
      /\ UNCHANGED <<up, taskVars, base, aborted, attached, checking, file, row, selected, outbox,
                     docVars, age, sentRecent, boundVars, lost>>
  BY DEF CallTool, ChosenHome
<1>2. up = "up" /\ cur \in Tasks /\ status[cur] \in Active
  BY <1>1 DEF WorkOK, Busy
<1>3. row[i] = "none"
  BY <1>1 DEF HomeOK, NoHome, Nothing
<1>4. /\ home' \in [Images -> [task : 0..MaxTasks, revision : 0..MaxRevisions]]
      /\ home'[i] = ChosenHome /\ \A j \in Images \ {i} : home'[j] = home[j]
  <2>1. ChosenHome \in [task : 0..MaxTasks, revision : 0..MaxRevisions]
    BY BoundsAssumption DEF TypeOK, ChosenHome, Tasks
  <2> QED  BY <1>1, <2>1 DEF TypeOK
<1>5. TypeOK'
  <2>1. i \in 0..MaxImages
    BY BoundsAssumption DEF Images
  <2> QED  BY <1>1, <1>4, <2>1 DEF TypeOK
<1>6. WorkOK'
  BY <1>1, <1>2, <1>3, <1>4 DEF WorkOK, Busy, Calling, ChosenHome
<1>7. NoLeak'
  BY <1>1 DEF NoLeak
<1>8. \A j \in Images : row[j] # "none" => home'[j] = home[j]
  BY <1>3, <1>4
<1> QED  BY <1>1, <1>5, <1>6, <1>7, <1>8, CallPreserves

\* The call ends without an image: by a failure before the file was written, or after it.
LEMMA CallEndsPreserves == ASSUME IInv, ToolFails \/ Discard PROVE IInv'
<1> USE DEF IInv, taskVars, docVars, boundVars
<1>1. /\ stage \in {"reading", "discarding"} /\ stage' = "running" /\ item' = Nothing
      /\ home' \in {home, [home EXCEPT ![item] = NoHome]}
      /\ \/ file' = file /\ lost' = lost /\ stage = "reading"
         \/ file' = file \ {item} /\ lost' = lost
         \/ file' = file /\ lost' = lost \cup {item}
      /\ faults' \in {faults, faults + 1}
      /\ UNCHANGED <<up, taskVars, base, aborted, attached, checking, row, selected, outbox,
                     docVars, age, sentRecent, lapses, restarts>>
  BY DEF ToolFails, Discard, Fault
<1>2. up = "up" /\ cur \in Tasks /\ status[cur] \in Active /\ item \in Images /\ row[item] = "none"
  BY <1>1 DEF WorkOK, Busy, Calling
<1>3. /\ home' \in [Images -> [task : 0..MaxTasks, revision : 0..MaxRevisions]]
      /\ \A j \in Images \ {item} : home'[j] = home[j]
  <2>1. NoHome \in [task : 0..MaxTasks, revision : 0..MaxRevisions]
    BY BoundsAssumption DEF NoHome, Nothing
  <2> QED  BY <1>1, <1>2, <2>1 DEF TypeOK
<1>4. TypeOK'
  <2>1. Nothing \in 0..MaxImages
    BY BoundsAssumption DEF Nothing
  <2>2. file' \subseteq Images /\ lost' \subseteq Images
    BY <1>1, <1>2 DEF TypeOK
  <2>3. faults' \in Nat
    BY <1>1 DEF TypeOK
  <2> QED  BY <1>1, <1>3, <2>1, <2>2, <2>3 DEF TypeOK
<1>5. WorkOK'
  BY <1>1, <1>2 DEF WorkOK, Busy, Calling
<1>6. NoLeak'
  BY <1>1 DEF NoLeak
<1>7. \A j \in Images : row[j] # "none" => home'[j] = home[j] /\ (j \in file' <=> j \in file)
  BY <1>1, <1>2, <1>3
<1> QED  BY <1>1, <1>4, <1>5, <1>6, <1>7, CallPreserves

LEMMA SavePreserves == ASSUME IInv, SaveSnapshot PROVE IInv'
<1> USE DEF IInv, taskVars, docVars, boundVars
<1>1. /\ stage = "reading" /\ stage' = "saved"
      /\ file' = file \cup {item} /\ age' = [age EXCEPT ![item] = 0]
      /\ UNCHANGED <<up, taskVars, item, base, aborted, attached, checking, row, home, selected,
                     outbox, docVars, sentRecent, boundVars, lost>>
  BY DEF SaveSnapshot
<1>2. up = "up" /\ cur \in Tasks /\ status[cur] \in Active /\ item \in Images /\ row[item] = "none"
  BY <1>1 DEF WorkOK, Busy, Calling
<1>3. TypeOK'
  BY <1>1, <1>2 DEF TypeOK
<1>4. WorkOK'
  BY <1>1, <1>2 DEF WorkOK, Busy, Calling
<1>5. NoLeak'
  BY <1>1 DEF NoLeak
<1>6. \A j \in Images : row[j] # "none" => home'[j] = home[j] /\ (j \in file' <=> j \in file)
  BY <1>1, <1>2
<1> QED  BY <1>1, <1>3, <1>4, <1>5, <1>6, CallPreserves

LEMMA RegisterPreserves == ASSUME IInv, Register PROVE IInv'
<1> USE DEF IInv, taskVars, docVars, boundVars
<1>1. /\ stage = "saved"
      /\ \/ row' = [row EXCEPT ![item] = "ready"] /\ stage' = "registered"
         \/ row' = row /\ stage' = "discarding"
      /\ UNCHANGED <<up, taskVars, item, base, aborted, attached, checking, file, home, selected,
                     outbox, docVars, age, sentRecent, boundVars, lost>>
  BY DEF Register, GiveBack
<1>2. /\ up = "up" /\ cur \in Tasks /\ status[cur] \in Active /\ item \in Images
      /\ row[item] = "none" /\ home[item] = ChosenHome
  BY <1>1 DEF WorkOK, Busy, Calling, ChosenHome
<1>3. TypeOK'
  BY <1>1, <1>2 DEF TypeOK
<1>4. CASE row' = row /\ stage' = "discarding"
  <2>1. WorkOK'
    BY <1>1, <1>2, <1>4 DEF WorkOK, Busy, Calling, ChosenHome
  <2>2. NoLeak'
    BY <1>1, <1>4 DEF NoLeak
  <2> QED  BY <1>1, <1>3, <1>4, <2>1, <2>2, CallPreserves
<1>5. CASE row' = [row EXCEPT ![item] = "ready"] /\ stage' = "registered"
  <2>1. row'[item] = "ready" /\ \A j \in Images \ {item} : row'[j] = row[j]
    BY <1>2, <1>5 DEF TypeOK
  <2>2. HomeOK'
    <3>1. cur \in 1..cur
      BY <1>2, BoundsAssumption DEF TypeOK, Tasks
    <3> QED  BY <1>1, <1>2, <2>1, <3>1 DEF HomeOK, ChosenHome, TypeOK
  <2>3. PromisedIsReadable'
    BY <1>1, <1>2, <2>1 DEF PromisedIsReadable, Readable
  <2>4. NoLeak'
    BY <1>1, <1>2, <2>1 DEF NoLeak, TypeOK
  <2>5. WorkOK'
    <3>1. stage' \in Busy \cap Calling /\ stage' = "registered"
      BY <1>5 DEF Busy, Calling
    <3> QED  BY <1>1, <1>2, <2>1, <3>1 DEF WorkOK, Readable, ChosenHome
  <2> QED  BY <1>3, <2>2, <2>3, <2>4, <2>5
<1> QED  BY <1>1, <1>4, <1>5

LEMMA SelectPreserves == ASSUME IInv, Select PROVE IInv'
<1> USE DEF IInv, taskVars, docVars, boundVars
<1>1. /\ stage = "registered" /\ stage' = "running" /\ item' = Nothing
      /\ \/ selected' = selected
         \/ selected' = selected \cup {item} /\ Cardinality(Chosen) < PerReply
      /\ UNCHANGED <<up, taskVars, base, aborted, attached, checking, file, row, home, outbox,
                     docVars, age, sentRecent, boundVars, lost>>
  BY DEF Select
<1>2. /\ up = "up" /\ cur \in Tasks /\ status[cur] \in Active /\ item \in Images
      /\ Readable(item) /\ home[item] = ChosenHome
  BY <1>1 DEF WorkOK, Busy, Calling, ChosenHome
<1>3. TypeOK'
  <2>1. Nothing \in 0..MaxImages
    BY BoundsAssumption DEF Nothing
  <2> QED  BY <1>1, <1>2, <2>1 DEF TypeOK
<1>4. WorkOK'
  BY <1>1, <1>2 DEF WorkOK, Busy, Calling
<1>5. HomeOK'
  <2>1. \A i \in selected' : row'[i] # "none"
    BY <1>1, <1>2 DEF HomeOK, Readable
  <2>2. ASSUME NEW h \in [task : 0..MaxTasks, revision : 0..MaxRevisions]
        PROVE  Cardinality({i \in selected' : home'[i] = h}) <= PerReply
    <3>1. CASE selected' = selected \/ h # ChosenHome
      <4>1. {i \in selected' : home'[i] = h} = {i \in selected : home[i] = h}
        BY <1>1, <1>2, <3>1
      <4> QED  BY <4>1 DEF HomeOK
    <3>2. CASE selected' = selected \cup {item} /\ Cardinality(Chosen) < PerReply /\ h = ChosenHome
      <4>1. {i \in selected' : home'[i] = h} = Chosen \cup {item}
        BY <1>1, <1>2, <3>2 DEF Chosen, Ours, ChosenHome
      <4>2. IsFiniteSet(Chosen)
        BY ImagesFinite, FS_Subset DEF Chosen, TypeOK
      <4>3. Cardinality(Chosen) \in Nat
        BY <4>2, FS_CardinalityType
      <4>4. Cardinality(Chosen \cup {item}) \in {Cardinality(Chosen), Cardinality(Chosen) + 1}
        <5>1. item \in Chosen => Chosen \cup {item} = Chosen
          OBVIOUS
        <5>2. item \notin Chosen => Cardinality(Chosen \cup {item}) = Cardinality(Chosen) + 1
          BY <4>2, FS_AddElement
        <5> QED  BY <5>1, <5>2
      <4>5. Cardinality(Chosen \cup {item}) <= PerReply
        BY <3>2, <4>3, <4>4, BoundsAssumption
      <4> QED  BY <4>1, <4>5
    <3> QED  BY <1>1, <3>1, <3>2
  <2>3. \A i \in Images : row'[i] # "none" => home'[i].task \in 1..cur'
    BY <1>1 DEF HomeOK
  <2> QED  BY <2>1, <2>2, <2>3 DEF HomeOK
<1>6. PromisedIsReadable' /\ NoLeak'
  BY <1>1, <1>2 DEF PromisedIsReadable, NoLeak, Readable
<1> QED  BY <1>3, <1>4, <1>5, <1>6

LEMMA ClearPreserves == ASSUME IInv, Clear PROVE IInv'
<1> USE DEF IInv, taskVars, docVars, boundVars, workVars
<1>1. /\ stage = "running" /\ selected' = selected \ Chosen
      /\ UNCHANGED <<up, taskVars, workVars, file, row, home, outbox, docVars, age, sentRecent,
                     boundVars, lost>>
  BY DEF Clear
<1>2. TypeOK'
  BY <1>1 DEF TypeOK
<1>3. WorkOK'
  BY <1>1 DEF WorkOK, Busy, Calling, Readable
<1>4. HomeOK'
  <2>1. ASSUME NEW h \in [task : 0..MaxTasks, revision : 0..MaxRevisions]
        PROVE  Cardinality({i \in selected' : home'[i] = h}) <= PerReply
    <3> DEFINE old == {i \in selected : home[i] = h}
               new == {i \in selected' : home'[i] = h}
    <3>1. new \subseteq old /\ old \subseteq Images
      BY <1>1 DEF TypeOK
    <3>2. Cardinality(old) <= PerReply
      BY DEF HomeOK
    <3> HIDE DEF old, new
    <3>3. IsFiniteSet(old)
      BY <3>1, ImagesFinite, FS_Subset
    <3>4. Cardinality(new) <= Cardinality(old) /\ Cardinality(new) \in Nat /\ Cardinality(old) \in Nat
      BY <3>1, <3>3, FS_Subset, FS_CardinalityType
    <3> QED  BY <3>2, <3>4, BoundsAssumption DEF new
  <2> QED  BY <1>1, <2>1 DEF HomeOK
<1>5. PromisedIsReadable' /\ NoLeak'
  BY <1>1 DEF PromisedIsReadable, NoLeak, Readable
<1> QED  BY <1>2, <1>3, <1>4, <1>5

-----------------------------------------------------------------------------
(* Review, settlement and delivery.                                         *)

LEMMA RunReturnsPreserves == ASSUME IInv, RunReturns PROVE IInv'
<1> USE DEF imageVars, docVars, boundVars, taskVars
<1>1. stage = "running"
  BY DEF RunReturns
<1>2. CASE Settle("PAUSED")
  BY <1>1, <1>2, SettlePreserves
<1>3. CASE /\ attached' = Chosen /\ stage' = "loading"
           /\ UNCHANGED <<up, taskVars, item, base, aborted, checking, imageVars, outbox, docVars,
                          age, sentRecent, boundVars, lost>>
  <2>1. up = "up" /\ cur \in Tasks /\ status[cur] \in Active
    BY <1>1 DEF IInv, WorkOK, Busy
  <2>2. Cardinality(Chosen) <= PerReply /\ Chosen \subseteq Images /\ Chosen' = Chosen
    BY <1>3, <2>1, ChosenFits DEF IInv, TypeOK, Chosen, Ours
  <2>3. TypeOK'
    BY <1>3, <2>2 DEF IInv, TypeOK
  <2>4. WorkOK'
    BY <1>3, <2>1, <2>2 DEF IInv, WorkOK, Busy, Calling
  <2>5. Quiet
    BY <1>1, <1>3, TasksStay DEF IInv, Quiet
  <2> QED  BY <2>3, <2>4, <2>5, QuietPreserves
<1> QED  BY <1>2, <1>3 DEF RunReturns

LEMMA LoadedPreserves == ASSUME IInv, Loaded \/ ReviewRejects PROVE IInv'
<1> USE DEF imageVars, docVars, boundVars
<1>1. stage \in {"loading", "reviewing"}
  BY DEF Loaded, ReviewRejects
<1>2. CASE \E s \in {"QUEUED", "WAITING", "PAUSED"} : Settle(s)
  BY <1>1, <1>2, SettlePreserves
<1>3. CASE /\ status[cur] = "RUNNING" /\ SetTask("REVIEWING") /\ stage' = "reviewing"
           /\ UNCHANGED <<up, revision, cur, item, base, aborted, attached, checking, imageVars,
                          outbox, docVars, age, sentRecent, boundVars, lost>>
  <2>1. up = "up" /\ cur \in Tasks /\ cur \in Nat /\ 1..cur \subseteq Tasks
    BY <1>1, BoundsAssumption DEF IInv, WorkOK, Tasks
  <2>2. /\ status' \in [Tasks -> Statuses] /\ recent' \subseteq Tasks
        /\ status'[cur] = "REVIEWING" /\ \A t \in Tasks \ {cur} : status'[t] = status[t]
    BY <1>3, <2>1, TaskEffect DEF IInv, Statuses, Active
  <2>3. TypeOK'
    BY <1>3, <2>2 DEF IInv, TypeOK
  <2>4. Chosen' = Chosen
    BY <1>3 DEF Chosen, Ours
  <2>5. WorkOK'
    BY <1>1, <1>3, <2>1, <2>2, <2>4 DEF IInv, WorkOK, Busy, Calling, Active
  <2>6. TasksGrow
    BY <1>3, <2>1, <2>2 DEF TasksGrow, Over
  <2>7. Quiet
    BY <1>1, <1>3, <2>6 DEF Quiet
  <2> QED  BY <2>3, <2>5, <2>7, QuietPreserves
<1> QED  BY <1>2, <1>3 DEF Loaded, ReviewRejects

\* What the publication of a result says of its images.
LEMMA ApproveEffect ==
    ASSUME IInv, ReviewApproves
    PROVE  /\ stage = "reviewing" /\ cur \in Tasks /\ up = "up" /\ Release /\ TasksGrow
           /\ status' \in [Tasks -> Statuses] /\ recent' \subseteq Tasks
           /\ UNCHANGED <<up, revision, cur, imageVars, docVars, age, sentRecent, boundVars, lost>>
           /\ \/ outbox' = outbox
              \/ /\ \A i \in Images : outbox'[i] = IF i \in attached THEN "PENDING" ELSE outbox[i]
                 /\ outbox' \in [Images -> {"none", "PENDING", "SENT", "DEAD_LETTER"}]
                 /\ \A i \in attached : Readable(i)
                 /\ status'[cur] = "COMPLETED"
                 /\ attached \subseteq Chosen /\ Cardinality(attached) <= PerReply
                 /\ revision[cur] = base
<1>1. /\ stage = "reviewing" /\ Release
      /\ UNCHANGED <<up, revision, cur, imageVars, docVars, age, sentRecent, boundVars, lost>>
  BY DEF ReviewApproves
<1>2. /\ cur \in Tasks /\ up = "up" /\ status[cur] \in Active
      /\ attached \subseteq Chosen /\ Cardinality(attached) <= PerReply
  BY <1>1 DEF IInv, WorkOK, Busy
<1>3. CASE /\ Settled("COMPLETED") = "COMPLETED" /\ \A i \in attached : row[i] = "ready" /\ i \in selected
           /\ SetTask("COMPLETED")
           /\ outbox' = [i \in Images |-> IF i \in attached THEN "PENDING" ELSE outbox[i]]
  <2>1. "COMPLETED" \in Statuses
    BY DEF Statuses, Over
  <2>2. /\ status' \in [Tasks -> Statuses] /\ recent' \subseteq Tasks
        /\ status'[cur] = "COMPLETED" /\ TasksGrow
    BY <1>1, <1>2, <1>3, <2>1, SettledEffect
  <2>3. revision[cur] = base
    BY <1>2, <1>3 DEF Settled, OfRevision, Active
  <2>4. \A i \in attached : Readable(i)
    <3>1. \A i \in attached : i \in Images /\ i \in selected /\ home[i].task = cur
      BY <1>2 DEF IInv, TypeOK, Chosen, Ours
    <3>2. status[cur] \notin Over
      BY <1>2 DEF Active, Over
    <3> QED  BY <3>1, <3>2 DEF IInv, PromisedIsReadable
  <2>5. outbox' \in [Images -> {"none", "PENDING", "SENT", "DEAD_LETTER"}]
    BY <1>3 DEF IInv, TypeOK
  <2>6. \A i \in Images : outbox'[i] = IF i \in attached THEN "PENDING" ELSE outbox[i]
    BY <1>3
  <2> QED  BY <1>1, <1>2, <2>2, <2>3, <2>4, <2>5, <2>6
<1>4. CASE SetTask(Settled("PAUSED")) /\ outbox' = outbox
  <2>1. "PAUSED" \in Statuses
    BY DEF Statuses
  <2>2. status' \in [Tasks -> Statuses] /\ recent' \subseteq Tasks /\ TasksGrow
    BY <1>1, <1>2, <1>4, <2>1, SettledEffect
  <2> QED  BY <1>1, <1>2, <1>4, <2>2
<1> QED  BY <1>3, <1>4 DEF ReviewApproves

LEMMA ApprovePreserves == ASSUME IInv, ReviewApproves PROVE IInv'
<1> USE DEF IInv, imageVars, docVars, boundVars
<1>1. TypeOK'
  BY ApproveEffect, ReleaseTypes DEF TypeOK
<1>2. WorkOK'
  BY ApproveEffect, ReleaseTypes DEF WorkOK, Busy, Calling
<1>3. HomeOK' /\ NoLeak'
  BY ApproveEffect DEF HomeOK, NoLeak
<1>4. PromisedIsReadable'
  <2>1. UNCHANGED <<file, row, home, selected, blob, doc>> /\ TasksGrow
    BY ApproveEffect
  <2>2. \A i \in Images : outbox'[i] \in {"PENDING", "DEAD_LETTER"} => Readable(i)
    BY ApproveEffect DEF PromisedIsReadable
  <2>3. \A i \in selected : status[home[i].task] \in Over => status'[home[i].task] \in Over
    BY <2>1 DEF TasksGrow, HomeOK, TypeOK
  <2> QED  BY <2>1, <2>2, <2>3 DEF PromisedIsReadable, Readable
<1> QED  BY <1>1, <1>2, <1>3, <1>4

LEMMA DeliverPreserves == ASSUME IInv, NEW i \in Images, Deliver(i) PROVE IInv'
<1> USE DEF IInv, imageVars, docVars, boundVars, taskVars, workVars
<1>1. /\ outbox[i] = "PENDING"
      /\ outbox' \in {[outbox EXCEPT ![i] = "SENT"], [outbox EXCEPT ![i] = "DEAD_LETTER"]}
      /\ sentRecent' \in {sentRecent, sentRecent \cup {i}}
      /\ UNCHANGED <<up, taskVars, workVars, imageVars, docVars, age, boundVars, lost>>
  BY DEF Deliver
<1>2. TypeOK'
  <2>1. outbox' \in [Images -> {"none", "PENDING", "SENT", "DEAD_LETTER"}] /\ sentRecent' \subseteq Images
    BY <1>1 DEF TypeOK
  <2> QED  BY <1>1, <2>1 DEF TypeOK
<1>3. WorkOK'
  <2>1. Chosen' = Chosen
    BY <1>1 DEF Chosen, Ours
  <2> QED  BY <1>1, <2>1 DEF WorkOK, Busy, Calling, Readable, NextDocument
<1>4. Quiet
  BY <1>1, TasksStay DEF Quiet, TypeOK
<1> QED  BY <1>2, <1>3, <1>4, QuietPreserves

-----------------------------------------------------------------------------
(* Time, crashes and the cleanup at startup.                                *)

LEMMA TimePreserves == ASSUME IInv, TimePasses PROVE IInv'
<1> USE DEF IInv, imageVars, docVars, workVars
<1>1. /\ lapses' = lapses + 1
      /\ UNCHANGED <<up, status, revision, cur, workVars, imageVars, outbox, docVars, restarts,
                     faults, lost>>
  BY DEF TimePasses
<1>2. age' \in [Images -> 0..2] /\ recent' \subseteq Tasks /\ sentRecent' \subseteq Images
  BY DEF TimePasses, TypeOK
<1>3. TypeOK'
  BY <1>1, <1>2 DEF TypeOK
<1>4. WorkOK'
  <2>1. Chosen' = Chosen
    BY <1>1 DEF Chosen, Ours
  <2> QED  BY <1>1, <2>1 DEF WorkOK, Busy, Calling, Readable, NextDocument
<1>5. Quiet
  BY <1>1, TasksStay DEF Quiet
<1> QED  BY <1>3, <1>4, <1>5, QuietPreserves

LEMMA CrashPreserves == ASSUME IInv, Crash PROVE IInv'
<1> USE DEF IInv, imageVars, docVars, taskVars
<1>1. /\ up' = "down" /\ restarts' = restarts + 1 /\ Release
      /\ lost' = {i \in file : row[i] # "ready"}
      /\ UNCHANGED <<taskVars, imageVars, outbox, docVars, age, sentRecent, lapses, faults>>
  BY DEF Crash
<1>2. TypeOK'
  BY <1>1, ReleaseTypes DEF TypeOK
<1>3. WorkOK'
  BY <1>1, ReleaseTypes DEF WorkOK, Busy, Calling
<1>4. HomeOK' /\ PromisedIsReadable' /\ NoLeak'
  BY <1>1 DEF HomeOK, PromisedIsReadable, Readable, NoLeak
<1> QED  BY <1>2, <1>3, <1>4

\* The phases of the startup follow each other; the live task is over before the first.
LEMMA StartPreserves == ASSUME IInv, Boot \/ Swept \/ CleanupFails \/ Serve PROVE IInv'
<1> USE DEF IInv, imageVars, docVars, boundVars, workVars
<1>1. /\ up # "up" /\ up' \in {"sweeping", "cleaning", "up"} /\ (up' = "up" => stage' = "idle")
      /\ faults' \in {faults, faults + 1}
      /\ UNCHANGED <<stage, item>> \/ (stage' = "idle" /\ item' = Nothing)
      /\ UNCHANGED <<revision, cur, base, aborted, attached, checking, imageVars, outbox, docVars,
                     age, sentRecent, lapses, restarts, lost>>
  BY DEF Boot, Swept, CleanupFails, Serve, Fault, taskVars
<1>2. status' \in [Tasks -> Statuses] /\ recent' \subseteq Tasks /\ TasksGrow
  <2>1. CASE Live /\ SetTask("CANCELLED")
    <3>1. cur \in Tasks /\ cur \in Nat /\ 1..cur \subseteq Tasks
      BY <2>1, LiveTask, BoundsAssumption DEF Tasks
    <3> QED  BY <1>1, <2>1, <3>1, TaskEffect DEF Statuses, Over, TasksGrow
  <2>2. CASE UNCHANGED <<status, recent>>
    BY <1>1, <2>2, TasksStay DEF TypeOK
  <2> QED  BY <2>1, <2>2 DEF Boot, Swept, CleanupFails, Serve, taskVars
<1>3. TypeOK'
  <2>1. Nothing \in 0..MaxImages
    BY BoundsAssumption DEF Nothing
  <2> QED  BY <1>1, <1>2, <2>1 DEF TypeOK
<1>4. stage \in {"idle", "expiring"}
  BY <1>1 DEF WorkOK
<1>5. WorkOK'
  BY <1>1, <1>4 DEF WorkOK, Busy, Calling
<1>6. Quiet
  BY <1>1, <1>2, <1>4 DEF Quiet
<1> QED  BY <1>3, <1>5, <1>6, QuietPreserves

LEMMA SweepPreserves == ASSUME IInv, NEW i \in Images, Sweep(i) PROVE IInv'
<1> USE DEF IInv, docVars, boundVars, taskVars, workVars
<1>1. /\ up = "sweeping" /\ row[i] # "ready"
      /\ file' = file \ {i} /\ lost' = lost \ {i}
      /\ UNCHANGED <<up, taskVars, workVars, row, home, selected, outbox, docVars, age, sentRecent,
                     boundVars>>
  BY DEF Sweep, Orphans
<1>2. TypeOK'
  BY <1>1 DEF TypeOK
<1>3. WorkOK'
  BY <1>1 DEF WorkOK, Busy, Calling
<1>4. HomeOK' /\ PromisedIsReadable' /\ NoLeak'
  BY <1>1 DEF HomeOK, PromisedIsReadable, Readable, NoLeak
<1> QED  BY <1>2, <1>3, <1>4

\* What has expired is promised to nobody.
LEMMA ExpirePreserves == ASSUME IInv, NEW i \in Images, ExpireFile(i) PROVE IInv'
<1> USE DEF IInv, docVars, boundVars, taskVars
<1>1. /\ up = "cleaning" /\ stage = "idle" /\ i \in Expired
      /\ file' = file \ {i} /\ stage' = "expiring" /\ item' = i
      /\ UNCHANGED <<up, taskVars, base, aborted, attached, checking, row, home, selected, outbox,
                     docVars, age, sentRecent, boundVars, lost>>
  BY DEF ExpireFile
<1>2. TypeOK'
  <2>1. i \in 0..MaxImages
    BY BoundsAssumption DEF Images
  <2> QED  BY <1>1, <2>1 DEF TypeOK
<1>3. WorkOK'
  BY <1>1 DEF WorkOK, Busy, Calling, Expired
<1>4. outbox[i] \notin {"PENDING", "DEAD_LETTER"} /\ status[home[i].task] \in Over
  BY <1>1 DEF Expired, Protected
<1>5. HomeOK' /\ NoLeak'
  BY <1>1 DEF HomeOK, NoLeak
<1>6. PromisedIsReadable'
  BY <1>1, <1>4 DEF PromisedIsReadable, Readable
<1> QED  BY <1>2, <1>3, <1>5, <1>6

LEMMA ExpireRowPreserves == ASSUME IInv, ExpireRow PROVE IInv'
<1> USE DEF IInv, docVars, boundVars, taskVars
<1>1. /\ stage = "expiring" /\ row' = [row EXCEPT ![item] = "deleted"]
      /\ stage' = "idle" /\ item' = Nothing
      /\ UNCHANGED <<up, taskVars, base, aborted, attached, checking, file, home, selected, outbox,
                     docVars, age, sentRecent, boundVars, lost>>
  BY DEF ExpireRow
<1>2. item \in Images /\ item \notin file
  BY <1>1 DEF WorkOK
<1>3. row'[item] = "deleted" /\ \A i \in Images \ {item} : row'[i] = row[i]
  BY <1>1, <1>2 DEF TypeOK
<1>4. TypeOK'
  <2>1. Nothing \in 0..MaxImages
    BY BoundsAssumption DEF Nothing
  <2>2. row' \in [Images -> {"none", "ready", "deleted"}]
    BY <1>1 DEF TypeOK
  <2> QED  BY <1>1, <2>1, <2>2 DEF TypeOK
<1>5. WorkOK'
  BY <1>1 DEF WorkOK, Busy, Calling
<1>6. row[item] # "none"
  BY <1>1, <1>2 DEF WorkOK
<1>7. HomeOK'
  BY <1>1, <1>2, <1>3, <1>6 DEF HomeOK
<1>8. PromisedIsReadable' /\ NoLeak'
  BY <1>1, <1>2, <1>3 DEF PromisedIsReadable, Readable, NoLeak, TypeOK
<1> QED  BY <1>4, <1>5, <1>7, <1>8

-----------------------------------------------------------------------------
(* Theorems.                                                                *)

LEMMA StepPreserves == IInv /\ [Next]_vars => IInv'
<1> SUFFICES ASSUME IInv, [Next]_vars PROVE IInv'
  OBVIOUS
<1>1. CASE UserStep
  BY <1>1, InputPreserves, ControlPreserves DEF UserStep
<1>2. CASE DocumentStep
  BY <1>2, ClaimPreserves, BeginPreserves, CheckPreserves, StorePreserves DEF DocumentStep
<1>3. CASE ToolStep
  BY <1>3, CallToolPreserves, CallEndsPreserves, SavePreserves, RegisterPreserves, SelectPreserves,
     ClearPreserves DEF ToolStep
<1>4. CASE ReviewStep
  BY <1>4, RunReturnsPreserves, LoadedPreserves, ApprovePreserves DEF ReviewStep
<1>5. CASE StartStep
  BY <1>5, StartPreserves, SweepPreserves, ExpirePreserves, ExpireRowPreserves DEF StartStep
<1>6. CASE UNCHANGED vars
  <2>1. UNCHANGED <<up, status, revision, cur, recent, stage, item, base, aborted, attached, checking,
                    file, row, home, selected, outbox, blob, doc, age, sentRecent, lapses, restarts,
                    faults, lost>>
    BY <1>6 DEF vars, taskVars, workVars, imageVars, docVars, boundVars
  <2>2. Chosen' = Chosen
    BY <2>1 DEF Chosen, Ours
  <2>3. TypeOK'
    BY <2>1 DEF IInv, TypeOK
  <2>4. WorkOK'
    BY <2>1, <2>2 DEF IInv, WorkOK, Busy, Calling, Readable, NextDocument
  <2>5. HomeOK' /\ PromisedIsReadable' /\ NoLeak'
    BY <2>1 DEF IInv, HomeOK, PromisedIsReadable, Readable, NoLeak
  <2> QED  BY <2>3, <2>4, <2>5 DEF IInv
<1> QED  BY <1>1, <1>2, <1>3, <1>4, <1>5, <1>6, TimePreserves, CrashPreserves, DeliverPreserves DEF Next

\* The invariant that the others follow from, for every value of the constants: rows, files,
\* selections and the turn worker agree, whatever crashes or fails in between.
THEOREM ArtifactInvariance == Spec => []IInv
<1>1. Init => IInv
  BY Initially
<1>2. IInv /\ [Next]_vars => IInv'
  BY StepPreserves
<1> QED  BY <1>1, <1>2, PTL DEF Spec

\* Tables, directories and the turn worker are type correct.
THEOREM ArtifactTypes == Spec => []TypeOK
<1>1. IInv => TypeOK
  BY DEF IInv
<1> QED  BY <1>1, ArtifactInvariance, PTL

\* cleanup and deliver-reply.ts: neither expiry nor a crash takes the file of an image that is
\* to be sent, is in the dead letters or is chosen for a task that goes on; a document that
\* a row calls ready is there.
THEOREM Promised == Spec => []PromisedIsReadable
<1>1. IInv => PromisedIsReadable
  BY DEF IInv
<1> QED  BY <1>1, ArtifactInvariance, PTL

\* prepare: no abort and no full quota leaves a file that no row speaks of.
THEOREM NothingLeaks == Spec => []NoLeak
<1>1. IInv => NoLeak
  BY DEF IInv
<1> QED  BY <1>1, ArtifactInvariance, PTL

LEMMA SentStep ==
    ASSUME IInv, [Next]_vars, NEW i \in Images, outbox[i] = "none", outbox'[i] # "none"
    PROVE  /\ status'[cur] = "COMPLETED" /\ home[i] = [task |-> cur, revision |-> revision[cur]]
           /\ i \in attached /\ Cardinality(attached) <= PerReply
<1>1. ReviewApproves
  <2>1. CASE UserStep
    BY <2>1 DEF UserStep, Input, Control, Resume
  <2>2. CASE DocumentStep
    BY <2>2 DEF DocumentStep, Claim, Begin, CheckDocument, StoreDocument, NoteDocument
  <2>3. CASE ToolStep
    BY <2>3 DEF ToolStep, CallTool, ToolFails, SaveSnapshot, Register, Discard, Select, Clear
  <2>4. CASE RunReturns \/ Loaded \/ ReviewRejects
    BY <2>4 DEF RunReturns, Loaded, ReviewRejects, Settle
  <2>5. CASE StartStep
    BY <2>5 DEF StartStep, Boot, Swept, Sweep, ExpireFile, ExpireRow, CleanupFails, Serve
  <2>6. CASE \E j \in Images : Deliver(j)
    BY <2>6 DEF Deliver, IInv, TypeOK
  <2>7. CASE TimePasses \/ Crash \/ UNCHANGED vars
    BY <2>7 DEF TimePasses, Crash, vars
  <2> QED  BY <2>1, <2>2, <2>3, <2>4, <2>5, <2>6, <2>7 DEF Next, ReviewStep
<1>2. i \in attached /\ attached \subseteq Chosen /\ revision[cur] = base
  BY <1>1, ApproveEffect
<1> QED  BY <1>1, <1>2, ApproveEffect DEF Chosen, Ours

\* completeTurn: images go out only with the completion of the task and revision that they
\* were chosen for, all of them reviewed and no more than a reply takes.
THEOREM ImagesAsReviewed == Spec => SentAsReviewed
<1>1. IInv /\ [Next]_vars =>
        \A i \in Images :
         outbox[i] = "none" /\ outbox'[i] # "none" =>
             /\ status'[cur] = "COMPLETED" /\ home[i] = [task |-> cur, revision |-> revision[cur]]
             /\ i \in attached /\ Cardinality(attached) <= PerReply
  BY SentStep
<1> QED  BY <1>1, ArtifactInvariance, PTL DEF Spec, SentAsReviewed
=============================================================================
