-------------------------- MODULE PermissionGrants --------------------------
(***************************************************************************)
(* The grants of one user: requests and their confirmation, revocations    *)
(* that arrive while a run is calling tools, one-use grants, conversations *)
(* that end, and the tool processes that run under what was granted.       *)
(*                                                                         *)
(* request, status, lapsed, revision, policy and the receipts are tables   *)
(* of permissions.db, queue, place and session of app.db; the rest is      *)
(* lost with the process.  The tool processes of a crashed one go on, but  *)
(* the next one does not know them and they are out of the model.          *)
(***************************************************************************)
EXTENDS Integers, Sequences

CONSTANTS
    MaxMessages,     \* bound: messages of the user
    MaxRequests,     \* bound: permission requests
    MaxTools,        \* bound: tools that run at a time
    Changes,         \* what may be asked for
    AgentLifetimes,  \* bound: the lifetimes the agent asks for; commands ask for "persistent"
    Operations,      \* what tools do
    Kinds,           \* the menu of messages
    MaxSessions,     \* bound: conversations
    MaxRestarts,     \* bound: ends of the process
    Redelivery,      \* BOOLEAN: may the channel deliver a message again?
    MaxFaults        \* bound: transactions of permissions.db that fail

ASSUME MenuAssumption ==
    /\ Kinds \subseteq {"text", "new", "request", "confirm", "revoke", "reset"}
    /\ Changes \subseteq {"full-access", "shell", "read", "write", "network"}
    /\ AgentLifetimes \subseteq {"persistent", "session", "once"}
    /\ Operations \subseteq {"bash", "read", "list", "write", "http"}
ASSUME BoundsAssumption ==
    /\ MaxMessages \in Nat /\ MaxRequests \in Nat /\ MaxTools \in Nat
    /\ MaxSessions \in Nat \ {0} /\ MaxRestarts \in Nat
    /\ Redelivery \in BOOLEAN /\ MaxFaults \in Nat

Messages == 1..MaxMessages      \* numbered as they come
Requests == 1..MaxRequests
Sessions == 1..MaxSessions
Tools == 1..MaxTools
NoMessage == 0
Lifetimes == {"persistent", "session", "once"}
NoCommand == [kind |-> "none"]
Commands ==
    [kind : {"text", "new", "reset"}] \cup [kind : {"request"}, change : Changes]
        \cup [kind : {"confirm", "revoke"}, of : Requests]

VARIABLES
    up,                            \* "down", "recovering" or "up"
    request, status, lapsed,       \* permission_requests, and those past their expiry
    revision, policy,              \* permission_policies
    heard, parted, sealed,         \* permission_receipts: commands, /new, ended sessions
    refused,                       \* the commands whose receipt says they failed
    command, place, queue,         \* messages, the session of each one's turn, queued turns
    session, last,                 \* the live session (0: none) and the newest one
    run, driver, runRevision,      \* the run under way: its phase, message, snapshot
    aborted, stopping,             \* its signal; whether the prompt was told
    uses,                          \* the requests that each running tool works with
    counted, served, mixed, reply,   \* history, see below
    restarts, faults               \* the bounds

grantVars == <<request, status, lapsed, revision, policy, heard, parted, sealed, refused>>
queueVars == <<command, place, queue, session, last>>
runVars == <<run, driver, runRevision, aborted, stopping>>
historyVars == <<counted, served, mixed, reply>>
vars == <<up, grantVars, queueVars, runVars, uses, historyVars, restarts, faults>>

\* counted: effects of each message; served: tools that had each one-use grant; mixed: a tool
\* of the run under way saw another revision than its snapshot; reply: what the latest run
\* was published with, a notice being a text of the task manager about a run that failed.

NoRequest == [change |-> "none", life |-> "none", home |-> 0, base |-> 0]

\* Types of the tables, the run and the tool processes.
TypeOK ==
    /\ up \in {"down", "recovering", "up"}
    /\ request \in [Requests -> [change : Changes \cup {"none"}, life : Lifetimes \cup {"none"},
                                 home : 0..MaxSessions, base : Nat]]
    /\ status \in [Requests -> {"none", "pending", "approved", "revoked", "consumed"}]
    /\ lapsed \subseteq Requests /\ revision \in Nat /\ policy \subseteq Changes
    /\ heard \subseteq Messages /\ parted \subseteq Messages /\ refused \subseteq Messages
    /\ sealed \subseteq Sessions
    /\ command \in [Messages -> Commands \cup {NoCommand}]
    /\ place \in [Messages -> 0..MaxSessions] /\ queue \in Seq(Messages)
    /\ session \in 0..MaxSessions /\ last \in 0..MaxSessions
    /\ run \in {"idle", "starting", "ready", "working", "selecting", "reviewing"}
    /\ driver \in Messages \cup {NoMessage} /\ runRevision \in Nat /\ aborted \in BOOLEAN
    /\ stopping \in BOOLEAN
    /\ uses \in [Tools -> SUBSET Requests]
    /\ counted \in [Messages -> Nat] /\ served \in [Requests -> Nat]
    /\ mixed \in BOOLEAN /\ reply \in {"none", "notice", "unreviewed", "reviewed"}
    /\ restarts \in Nat /\ faults \in Nat

Init ==
    /\ up = "up"
    /\ request = [r \in Requests |-> NoRequest] /\ status = [r \in Requests |-> "none"]
    /\ lapsed = {} /\ revision = 0 /\ policy = {}
    /\ heard = {} /\ parted = {} /\ sealed = {} /\ refused = {}
    /\ command = [m \in Messages |-> NoCommand] /\ place = [m \in Messages |-> 0]
    /\ queue = <<>> /\ session = 0 /\ last = 0
    /\ run = "idle" /\ driver = NoMessage /\ runRevision = 0
    /\ aborted = FALSE /\ stopping = FALSE
    /\ uses = [t \in Tools |-> {}]
    /\ counted = [m \in Messages |-> 0] /\ served = [r \in Requests |-> 0]
    /\ mixed = FALSE /\ reply = "none" /\ restarts = 0 /\ faults = 0

\* The end of a run, or of its process.
RunOver ==
    /\ run' = "idle" /\ driver' = NoMessage /\ runRevision' = 0
    /\ aborted' = FALSE /\ stopping' = FALSE /\ mixed' = FALSE

-----------------------------------------------------------------------------
(* The permission service.                                                  *)

\* bump: what the approved persistent requests add up to, under a new revision.
Persistent(st) ==
    {request[r].change : r \in {x \in Requests : st[x] = "approved" /\ request[x].life = "persistent"}}

\* The executor's revoke and close: every tool process is cancelled.
Killed == [t \in Tools |-> {}]

\* Mutant: tools and runs are told only when the stored policy differs.
AnnounceIfPolicyChanged(st) ==
    IF Persistent(st) = policy
    THEN UNCHANGED <<uses, aborted, stopping>>
    ELSE uses' = Killed /\ aborted' = (run # "idle") /\ stopping' = (run = "working")

\* Mutant: the task manager's runs are not told, only the tools and the agent's session.
AnnounceSparesRuns(st) ==
    uses' = Killed /\ stopping' = (run = "working") /\ UNCHANGED aborted

\* onChange: the subject's tool processes are killed and its runs aborted; the agent's
\* session takes an abort only while it prompts.
Announce(st) ==
    uses' = Killed /\ aborted' = (run # "idle") /\ stopping' = (run = "working")

Revise(st) ==
    /\ status' = st
    /\ revision' = revision + 1
    /\ policy' = Persistent(st)
    /\ Announce(st)

Untouched == UNCHANGED <<request, status, lapsed, revision, policy, uses, aborted, stopping>>

\* A transaction fails and is rolled back.
Fault == faults < MaxFaults /\ faults' = faults + 1 /\ Untouched

\* createRequest.  Its duplicate check compares the message that asks, and each call of the
\* tool asks under an id of its own; a command asks once, by its receipt.
Create(change, life, s) ==
    /\ \E r \in Requests :
           /\ status[r] = "none" /\ \A x \in Requests : x < r => status[x] # "none"
           /\ request' = [request EXCEPT ![r] =
                  [change |-> change, life |-> life, home |-> s, base |-> revision]]
           /\ status' = [status EXCEPT ![r] = "pending"]
    /\ UNCHANGED <<lapsed, revision, policy, uses, aborted, stopping>>

\* normalize may find fault with a folder or a host that is asked for, and again with a folder
\* that is confirmed, which may be gone by then.
MayReject(kind, change) ==
    change \in {"read", "write"} \/ (change = "network" /\ kind = "request")

Confirmable(r, s) ==
    /\ request[r].home = s /\ status[r] = "pending" /\ r \notin lapsed
    /\ request[r].base = revision

\* The part of command that changes something; each one is a transaction.
Applies(c, s) ==
    \/ /\ c.kind = "confirm" /\ Confirmable(c.of, s)
       /\ Revise([status EXCEPT ![c.of] = "approved"])
       /\ UNCHANGED <<request, lapsed>>
    \/ /\ c.kind = "revoke"
       /\ Revise([status EXCEPT ![c.of] = "revoked"])
       /\ UNCHANGED <<request, lapsed>>
    \/ /\ c.kind = "reset"
       /\ Revise([r \in Requests |->
              IF status[r] \in {"approved", "pending"} THEN "revoked" ELSE status[r]])
       /\ UNCHANGED <<request, lapsed>>

Refuses(c, s) ==
    \/ c.kind = "confirm" /\ (~Confirmable(c.of, s) \/ MayReject(c.kind, request[c.of].change))
    \/ c.kind = "request" /\ MayReject(c.kind, c.change)

\* Mutant: the receipt of a command is not looked up.
HeardNothing(m) == FALSE

Heard(m) == m \in heard

IsPermissionCommand(c) == c.kind \in {"request", "confirm", "revoke", "reset"}

\* handleMessage: applied, refused with a receipt that says so, or, when the receipt cannot
\* be written either, thrown.
Handle(m, c, s) ==
    IF ~IsPermissionCommand(c) \/ Heard(m)
    THEN Untouched /\ UNCHANGED <<heard, refused, counted, faults>>
    ELSE \/ /\ Applies(c, s)
            /\ heard' = heard \cup {m} /\ counted' = [counted EXCEPT ![m] = @ + 1]
            /\ UNCHANGED <<refused, faults>>
         \/ /\ c.kind = "request" /\ Create(c.change, "persistent", s)
            /\ heard' = heard \cup {m}
            /\ UNCHANGED <<refused, counted, faults>>
         \/ /\ Refuses(c, s)
            /\ heard' = heard \cup {m} /\ refused' = refused \cup {m}
            /\ Untouched /\ UNCHANGED <<counted, faults>>
         \/ /\ Fault
            /\ \/ heard' = heard \cup {m} /\ refused' = refused \cup {m}
               \/ UNCHANGED <<heard, refused>>
            /\ UNCHANGED counted

\* Mutant: the requests of an ended session get a status that no reader knows.
PartedAsEnded(s) ==
    [r \in Requests |->
        IF request[r].home = s /\ status[r] \in {"pending", "approved"} THEN "ended" ELSE status[r]]

\* What endSession leaves of the requests of a session.
Parted(s) ==
    [r \in Requests |->
        IF request[r].home = s /\ (status[r] = "pending"
               \/ (status[r] = "approved" /\ request[r].life # "persistent"))
        THEN "revoked" ELSE status[r]]

\* endSession under the receipt of a message, or thrown.
Part(m, s) ==
    IF m \in parted
    THEN Untouched /\ UNCHANGED <<parted, counted, faults>>
    ELSE \/ /\ Revise(Parted(s))
            /\ parted' = parted \cup {m} /\ counted' = [counted EXCEPT ![m] = @ + 1]
            /\ UNCHANGED <<request, lapsed, faults>>
         \/ Fault /\ UNCHANGED <<parted, counted>>

\* endSession under the receipt of the session: EndSession.cleanup, whose failure is caught.
Cleanup(s) ==
    \/ /\ s \notin sealed
       /\ Revise(Parted(s))
       /\ sealed' = sealed \cup {s}
       /\ UNCHANGED <<request, lapsed, faults>>
    \/ s \notin sealed /\ Fault /\ UNCHANGED sealed
    \/ s \in sealed /\ Untouched /\ UNCHANGED <<sealed, faults>>

-----------------------------------------------------------------------------
(* Messages and their turns.                                                *)

MaySend(c) ==
    /\ c.kind \in Kinds
    /\ c.kind \in {"confirm", "revoke"} => status[c.of] # "none"

\* ingestBatch: the message is stored with its turn in the live session.
Store(m, c) ==
    /\ command[m] = NoCommand /\ (\A k \in Messages : k < m => command[k] # NoCommand)
    /\ MaySend(c)
    /\ session = 0 => last < MaxSessions
    /\ session' = IF session = 0 THEN last + 1 ELSE session
    /\ last' = IF session = 0 THEN last + 1 ELSE last
    /\ command' = [command EXCEPT ![m] = c]
    /\ place' = [place EXCEPT ![m] = session']
    /\ queue' = Append(queue, m)

\* IngestMessage after the batch is stored: permission controls, and the end of the
\* session's grants at /new.
Hear(m, c, s) ==
    IF c.kind = "new"
    THEN Part(m, s) /\ UNCHANGED <<heard, sealed, refused>>
    ELSE Handle(m, c, s) /\ UNCHANGED <<parted, sealed>>

Ingest(m) ==
    /\ up = "up"
    /\ \E c \in Commands : Store(m, c) /\ Hear(m, c, session')
    /\ UNCHANGED <<up, run, driver, runRevision, served, mixed, reply, restarts>>

\* The process dies between the batch's transaction and the controls.
IngestCrashes(m) ==
    /\ up = "up" /\ restarts < MaxRestarts
    /\ \E c \in Commands : Store(m, c)
    /\ up' = "down" /\ restarts' = restarts + 1
    /\ RunOver /\ uses' = Killed
    /\ UNCHANGED <<grantVars, counted, served, reply, faults>>

\* The channel delivers a message again: the batch drops it, the controls are applied again,
\* in the session where its turn is now.
Redeliver(m) ==
    /\ up = "up" /\ Redelivery /\ command[m] # NoCommand
    /\ Hear(m, command[m], place[m])
    /\ UNCHANGED <<up, queueVars, run, driver, runRevision, served, mixed, reply, restarts>>

\* endSession of the control plane at /new: what is queued behind it moves on.
Archive(rest) ==
    IF rest = <<>>
    THEN session' = 0 /\ UNCHANGED <<place, last>>
    ELSE /\ last < MaxSessions /\ last' = last + 1 /\ session' = last + 1
         /\ place' = [m \in Messages |->
                IF \E i \in DOMAIN rest : rest[i] = m THEN last + 1 ELSE place[m]]

\* A control's own turn: it finds the receipt of ingress, or makes up for it.
ClaimCommand ==
    /\ up = "up" /\ run = "idle" /\ queue # <<>>
    /\ LET m == Head(queue) IN
        /\ IsPermissionCommand(command[m])
        /\ Handle(m, command[m], place[m])
    /\ queue' = Tail(queue)
    /\ UNCHANGED <<up, parted, sealed, command, place, session, last, run, driver, runRevision,
                   served, mixed, reply, restarts>>

ClaimNew ==
    /\ up = "up" /\ run = "idle" /\ queue # <<>> /\ command[Head(queue)].kind = "new"
    /\ Archive(Tail(queue))
    /\ Cleanup(place[Head(queue)])
    /\ queue' = Tail(queue)
    /\ UNCHANGED <<up, heard, parted, refused, command, run, driver, runRevision, historyVars,
                   restarts>>

ClaimText ==
    /\ up = "up" /\ run = "idle" /\ queue # <<>> /\ command[Head(queue)].kind = "text"
    /\ run' = "starting" /\ driver' = Head(queue)
    /\ queue' = Tail(queue) /\ reply' = "none"
    /\ UNCHANGED <<up, grantVars, command, place, session, last, runRevision, aborted, stopping,
                   uses, counted, served, mixed, restarts, faults>>

-----------------------------------------------------------------------------
(* The run and its tools.                                                   *)

\* The catch of execute: a notice that the task pauses, unless newer input made it stale.
Caught == RunOver /\ (reply' = "notice" \/ UNCHANGED reply)

\* runBoundTurn takes the snapshot; a run aborted before is refused.
StartRun ==
    /\ up = "up" /\ run = "starting"
    /\ \/ aborted /\ Caught
       \/ /\ ~aborted /\ run' = "ready" /\ runRevision' = revision
          /\ UNCHANGED <<driver, aborted, stopping, mixed, reply>>
    /\ UNCHANGED <<up, grantVars, queueVars, uses, counted, served, restarts, faults>>

\* session.prompt, after the context, the skills and the images were loaded; an abort that
\* came meanwhile has met no prompt, and the run goes on.
Prompt ==
    /\ up = "up" /\ run = "ready"
    /\ run' = "working"
    /\ UNCHANGED <<up, grantVars, queueVars, driver, runRevision, aborted, stopping, uses,
                   historyVars, restarts, faults>>

\* matchesOperation, for operations on the folder or host asked for; "bash" can exercise any
\* grant.
Matches(change, op) ==
    \/ change = "full-access" \/ op = "bash"
    \/ change = "network" /\ op = "http"
    \/ change = "read" /\ op \in {"read", "list"}
    \/ change = "write" /\ op \in {"read", "list", "write"}

Applicable(op, s) ==
    {r \in Requests :
        /\ status[r] = "approved" /\ r \notin lapsed
        /\ request[r].life = "persistent" \/ request[r].home = s
        /\ request[r].life = "once" => Matches(request[r].change, op)}

Spent(rs) ==
    [r \in Requests |-> IF r \in rs /\ request[r].life = "once" THEN "consumed" ELSE status[r]]

\* executeTool up to the spawn: one-use grants are spent even when it comes to nothing. The
\* tools of a run that missed its abort see the grants as they are now. A tool that needs no
\* grant is not told from a free slot.
CallTool(t, op) ==
    /\ up = "up" /\ run = "working"
    /\ uses[t] = {} /\ (\A x \in Tools : x < t => uses[x] # {})
    /\ LET rs == Applicable(op, place[driver]) IN
        /\ status' = Spent(rs)
        /\ (~stopping /\ uses' = [uses EXCEPT ![t] = rs]) \/ UNCHANGED uses
        /\ served' = [r \in Requests |-> IF r \in rs /\ request[r].life = "once"
                                         THEN served[r] + 1 ELSE served[r]]
    /\ mixed' = (mixed \/ revision # runRevision)
    /\ UNCHANGED <<up, request, lapsed, revision, policy, heard, parted, sealed, refused,
                   queueVars, runVars, counted, reply, restarts, faults>>

\* Exit, timeout or too much output.
ToolEnds(t) ==
    /\ uses[t] # {}
    /\ uses' = [uses EXCEPT ![t] = {}]
    /\ UNCHANGED <<up, grantVars, queueVars, runVars, historyVars, restarts, faults>>

\* The tool permissions_request.
AskFor(change, life) ==
    /\ up = "up" /\ run = "working"
    /\ Create(change, life, place[driver])
    /\ UNCHANGED <<up, heard, parted, sealed, refused, queueVars, run, driver, runRevision,
                   historyVars, restarts, faults>>

\* The prompt returns: the run passes when no permission changed since its snapshot and it was
\* not aborted, and the images that its task selected are read.
RunEnds ==
    /\ up = "up" /\ run = "working" /\ \A t \in Tools : uses[t] = {}
    /\ \/ run' = "selecting" /\ ~aborted /\ revision = runRevision
          /\ UNCHANGED <<driver, aborted, stopping, runRevision, mixed, reply>>
       \/ Caught
    /\ UNCHANGED <<up, grantVars, queueVars, uses, counted, served, restarts, faults>>

\* The outcome is read when the images were: a question or a spent budget is replied at once,
\* a continuation is silent, only a completion is reviewed.  Nobody looks at the signal or the
\* permissions again.
OutcomeIsRead ==
    /\ up = "up" /\ run = "selecting"
    /\ \/ run' = "reviewing"
          /\ UNCHANGED <<driver, aborted, stopping, runRevision, mixed, reply>>
       \/ RunOver /\ (reply' = "unreviewed" \/ UNCHANGED reply)
       \/ Caught
    /\ UNCHANGED <<up, grantVars, queueVars, uses, counted, served, restarts, faults>>

\* The reviewer answers: its decision counts unless the task manager was told to abort.
ReviewEnds ==
    /\ up = "up" /\ run = "reviewing"
    /\ \/ ~aborted /\ RunOver /\ (reply' = "reviewed" \/ UNCHANGED reply)
       \/ Caught
    /\ UNCHANGED <<up, grantVars, queueVars, uses, counted, served, restarts, faults>>

-----------------------------------------------------------------------------
(* Time, sessions and the process.                                          *)

\* Ten minutes pass; persistent and session grants have no end.
Lapses(r) ==
    /\ r \notin lapsed
    /\ status[r] = "pending" \/ (status[r] = "approved" /\ request[r].life = "once")
    /\ lapsed' = lapsed \cup {r}
    /\ UNCHANGED <<up, request, status, revision, policy, heard, parted, sealed, refused,
                   queueVars, runVars, uses, historyVars, restarts, faults>>

\* ExpireIdleSessions: only when no turn waits or runs.
IdleEnd ==
    /\ up = "up" /\ session # 0 /\ queue = <<>> /\ run = "idle"
    /\ session' = 0
    /\ Cleanup(session)
    /\ UNCHANGED <<up, heard, parted, refused, command, place, queue, last, run, driver,
                   runRevision, historyVars, restarts>>

\* repairCleanup, at startup and by the idle loop.
Repair(s) ==
    /\ up \in {"up", "recovering"} /\ s <= last /\ s # session /\ s \notin sealed
    /\ Cleanup(s)
    /\ UNCHANGED <<up, heard, parted, refused, queueVars, run, driver, runRevision, historyVars,
                   restarts>>

Crash ==
    /\ up # "down" /\ restarts < MaxRestarts
    /\ up' = "down" /\ restarts' = restarts + 1
    /\ RunOver /\ uses' = Killed
    /\ UNCHANGED <<grantVars, queueVars, counted, served, reply, faults>>

\* close after the loops have stopped: sessions end, the executor kills what still runs.
Stop ==
    /\ up = "up" /\ run = "idle" /\ restarts < MaxRestarts
    /\ up' = "down" /\ restarts' = restarts + 1
    /\ session' = 0 /\ queue' = <<>>
    /\ IF session # 0 THEN Cleanup(session) ELSE Untouched /\ UNCHANGED <<sealed, faults>>
    /\ UNCHANGED <<heard, parted, refused, command, place, last, run, driver, runRevision,
                   historyVars>>

\* EndSession.all at startup: the session left over ends, its turns are cancelled.
Boot ==
    /\ up = "down" /\ up' = "recovering"
    /\ session' = 0 /\ queue' = <<>>
    /\ UNCHANGED <<grantVars, command, place, last, runVars, uses, historyVars,
                   restarts, faults>>

\* The service starts when every cleanup was tried.
Serve ==
    /\ up = "recovering" /\ up' = "up"
    /\ \A s \in Sessions : s <= last /\ s \notin sealed => faults = MaxFaults
    /\ UNCHANGED <<grantVars, queueVars, runVars, uses, historyVars, restarts, faults>>

UserStep == \E m \in Messages : Ingest(m) \/ IngestCrashes(m) \/ Redeliver(m)
TurnStep ==
    \/ ClaimCommand \/ ClaimNew \/ ClaimText
    \/ StartRun \/ Prompt \/ RunEnds \/ OutcomeIsRead \/ ReviewEnds
ToolStep ==
    \/ \E t \in Tools : ToolEnds(t) \/ (\E op \in Operations : CallTool(t, op))
    \/ \E change \in Changes, life \in AgentLifetimes : AskFor(change, life)
TimeStep == IdleEnd \/ (\E r \in Requests : Lapses(r)) \/ (\E s \in Sessions : Repair(s))
ProcessStep == Crash \/ Stop \/ Boot \/ Serve

Next == UserStep \/ TurnStep \/ ToolStep \/ TimeStep \/ ProcessStep

Spec == Init /\ [][Next]_vars

-----------------------------------------------------------------------------
(* Properties.                                                              *)

\* What a tool of the service runs with is granted as long as it runs, however commands,
\* ends of sessions and other tools come between, and a one-use grant never serves a second.
ToolsWithinGrants ==
    /\ \A t \in Tools : \A r \in uses[t] :
           status[r] = IF request[r].life = "once" THEN "consumed" ELSE "approved"
    /\ \A r \in Requests : served[r] <= 1

\* A message changes the permissions once, whether it is met at ingress, in its turn, in
\* both, after a crash between them or delivered again; never when it was answered as failed.
CommandsCountOnce ==
    \A m \in Messages : counted[m] <= 1 /\ (m \in refused => counted[m] = 0)

\* What a run says was made under a single revision of the permissions: its tools all saw its
\* snapshot's.  A reviewed answer is also published under that revision.  A question or the word
\* that the budget is spent may follow a change that came while images were read, and a notice
\* of the catch says nothing of the run.
ReplyUnderOneRevision ==
    [][reply' # reply =>
           /\ reply' \in {"unreviewed", "reviewed"} => ~mixed
           /\ reply' = "reviewed" => revision = runRevision]_vars
=============================================================================
