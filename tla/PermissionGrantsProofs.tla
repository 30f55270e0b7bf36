----------------------- MODULE PermissionGrantsProofs -----------------------
(***************************************************************************)
(* Theorems about PermissionGrants for every value of its constants: any   *)
(* number of messages, requests, tools, conversations, restarts and        *)
(* failing transactions, and any menu of commands.                         *)
(***************************************************************************)
EXTENDS PermissionGrants, TLAPS

-----------------------------------------------------------------------------
(* The inductive invariant, in the parts that steps touch.                  *)

ReqStatus == {"none", "pending", "approved", "revoked", "consumed"}

GrantTypes ==
    /\ request \in [Requests -> [change : Changes \cup {"none"}, life : Lifetimes \cup {"none"},
                                 home : 0..MaxSessions, base : Nat]]
    /\ status \in [Requests -> ReqStatus]
    /\ lapsed \subseteq Requests /\ revision \in Nat /\ policy \subseteq Changes
    /\ aborted \in BOOLEAN /\ stopping \in BOOLEAN
    /\ uses \in [Tools -> SUBSET Requests] /\ served \in [Requests -> Nat]

\* A message that was stored has its turn in a conversation.
QueueOK ==
    /\ command \in [Messages -> Commands \cup {NoCommand}]
    /\ place \in [Messages -> 0..MaxSessions] /\ queue \in Seq(Messages)
    /\ session \in 0..MaxSessions /\ last \in 0..MaxSessions
    /\ \A m \in Messages : command[m] # NoCommand => place[m] \in Sessions

RunTypes ==
    /\ run \in {"idle", "starting", "ready", "working", "selecting", "reviewing"}
    /\ driver \in Messages \cup {NoMessage} /\ runRevision \in Nat /\ mixed \in BOOLEAN

CountTypes ==
    /\ heard \subseteq Messages /\ parted \subseteq Messages /\ refused \subseteq Messages
    /\ counted \in [Messages -> Nat]

ServiceTypes ==
    /\ up \in {"down", "recovering", "up"} /\ sealed \subseteq Sessions
    /\ reply \in {"none", "notice", "unreviewed", "reviewed"}
    /\ restarts \in Nat /\ faults \in Nat

\* What may still be granted asks for something.  What was served once is spent for good.
GrantOK ==
    /\ GrantTypes /\ ToolsWithinGrants
    /\ \A r \in Requests :
          /\ status[r] \in {"pending", "approved"} => request[r].change \in Changes
          /\ served[r] > 0 => status[r] \in {"consumed", "revoked"}

\* The snapshot of a run is not ahead of the table, and behind it when a tool has seen another
\* revision.  A run that passed has had one revision alone, which is still the table's unless
\* the run was told to abort since.
RunOK ==
    /\ RunTypes
    /\ run # "idle" => driver \in Messages
    /\ run \in {"idle", "starting", "selecting", "reviewing"} => ~mixed
    /\ run \in {"ready", "working", "selecting", "reviewing"} =>
          runRevision <= revision /\ (mixed => runRevision < revision)
    /\ run \in {"selecting", "reviewing"} /\ ~aborted => runRevision = revision

\* Receipts belong to messages of their kind, and nothing counts without one.
CountOK ==
    /\ CountTypes
    /\ \A m \in heard : IsPermissionCommand(command[m])
    /\ \A m \in parted : command[m].kind = "new"
    /\ refused \subseteq heard
    /\ \A m \in Messages : /\ counted[m] <= 1
                           /\ m \in refused \/ m \notin heard \cup parted => counted[m] = 0

IInv == GrantOK /\ QueueOK /\ RunOK /\ CountOK /\ ServiceTypes

LEMMA InvImpliesTypes == IInv => TypeOK
BY DEF IInv, GrantOK, QueueOK, RunOK, CountOK, ServiceTypes, GrantTypes, RunTypes, CountTypes,
       ReqStatus, TypeOK

LEMMA CommandParts ==
    ASSUME NEW c \in Commands \cup {NoCommand}
    PROVE  /\ c.kind = "request" => c.change \in Changes
           /\ c.kind \in {"confirm", "revoke"} => c.of \in Requests
BY DEF Commands, NoCommand

LEMMA Initially == Init => IInv
<1> SUFFICES ASSUME Init PROVE IInv
  OBVIOUS
<1>1. GrantOK
  <2>1. NoRequest \in [change : Changes \cup {"none"}, life : Lifetimes \cup {"none"},
                       home : 0..MaxSessions, base : Nat]
    BY BoundsAssumption DEF NoRequest
  <2>2. GrantTypes
    BY <2>1 DEF Init, GrantTypes, ReqStatus
  <2> QED  BY <2>2 DEF Init, GrantOK, ToolsWithinGrants
<1>2. QueueOK
  BY BoundsAssumption DEF Init, QueueOK
<1>3. RunOK
  BY DEF Init, RunOK, RunTypes
<1>4. CountOK /\ ServiceTypes
  BY DEF Init, CountOK, CountTypes, ServiceTypes
<1> QED  BY <1>1, <1>2, <1>3, <1>4 DEF IInv

-----------------------------------------------------------------------------
(* What the permission service may do to the grants.                        *)

\* A status changes to revoked, or from pending to approved.
Legal(st) ==
    /\ st \in [Requests -> ReqStatus]
    /\ \A r \in Requests : \/ st[r] = status[r] \/ st[r] = "revoked"
                           \/ status[r] = "pending" /\ st[r] = "approved"

Changed == \E st : Legal(st) /\ Revise(st) /\ UNCHANGED <<request, lapsed>>
Asked ==
    \E change \in Changes, life \in Lifetimes, s \in 0..MaxSessions : Create(change, life, s)
Effect == Untouched \/ Changed \/ Asked

LEMMA ChangedGrants == ASSUME IInv, Changed, UNCHANGED served PROVE GrantOK'
<1> USE DEF IInv, GrantOK, GrantTypes
<1>1. PICK st : Legal(st) /\ Revise(st) /\ UNCHANGED <<request, lapsed>>
  BY DEF Changed
<1>2. /\ status' = st /\ revision' = revision + 1 /\ policy' = Persistent(st)
      /\ uses' = [t \in Tools |-> {}] /\ aborted' = (run # "idle") /\ stopping' = (run = "working")
  BY <1>1 DEF Revise, Announce, Killed
<1>3. \A r \in Requests : st[r] \in {"pending", "approved"} => request[r].change \in Changes
  BY <1>1 DEF Legal
<1>4. Persistent(st) \subseteq Changes
  BY <1>3 DEF Persistent
<1>5. GrantTypes'
  BY <1>1, <1>2, <1>4 DEF Legal
<1>6. \A r \in Requests :
          /\ status'[r] \in {"pending", "approved"} => request'[r].change \in Changes
          /\ served'[r] > 0 => status'[r] \in {"consumed", "revoked"}
  BY <1>1, <1>2, <1>3 DEF Legal
<1>7. ToolsWithinGrants'
  BY <1>2 DEF ToolsWithinGrants
<1> QED  BY <1>5, <1>6, <1>7

LEMMA AskedGrants == ASSUME IInv, Asked, UNCHANGED served PROVE GrantOK'
<1> USE DEF IInv, GrantOK
<1>1. PICK change \in Changes, life \in Lifetimes, s \in 0..MaxSessions : Create(change, life, s)
  BY DEF Asked
<1>2. PICK r \in Requests :
          /\ status[r] = "none"
          /\ request' = [request EXCEPT ![r] =
                [change |-> change, life |-> life, home |-> s, base |-> revision]]
          /\ status' = [status EXCEPT ![r] = "pending"]
          /\ UNCHANGED <<lapsed, revision, policy, uses, aborted, stopping>>
  BY <1>1 DEF Create
<1>3. GrantTypes'
  <2>1. request' \in [Requests -> [change : Changes \cup {"none"}, life : Lifetimes \cup {"none"},
                                   home : 0..MaxSessions, base : Nat]]
    BY <1>2 DEF GrantTypes
  <2> QED  BY <1>2, <2>1 DEF GrantTypes, ReqStatus
<1>4. \A x \in Requests : x # r => request'[x] = request[x] /\ status'[x] = status[x]
  BY <1>2 DEF GrantTypes
<1>5. request'[r].change = change /\ status'[r] = "pending"
  BY <1>2 DEF GrantTypes
<1>6. \A x \in Requests :
          /\ status'[x] \in {"pending", "approved"} => request'[x].change \in Changes
          /\ served'[x] > 0 => status'[x] \in {"consumed", "revoked"}
  BY <1>2, <1>4, <1>5
<1>7. ToolsWithinGrants'
  <2>1. \A t \in Tools : r \notin uses[t]
    BY <1>2 DEF ToolsWithinGrants
  <2> QED  BY <1>2, <1>4, <2>1 DEF ToolsWithinGrants, GrantTypes
<1> QED  BY <1>3, <1>6, <1>7

LEMMA EffectGrants == ASSUME IInv, Effect, UNCHANGED served PROVE GrantOK'
<1>1. CASE Untouched
  BY <1>1 DEF IInv, GrantOK, GrantTypes, ToolsWithinGrants, Untouched
<1> QED  BY <1>1, ChangedGrants, AskedGrants DEF Effect

\* A run under way is told of every new revision.
LEMMA EffectRun ==
    ASSUME IInv, Effect, UNCHANGED <<run, driver, runRevision, mixed>>
    PROVE  RunOK'
<1>1. CASE UNCHANGED <<revision, aborted>>
  BY <1>1 DEF IInv, RunOK, RunTypes
<1>2. CASE Changed
  <2>1. revision' = revision + 1 /\ (run # "idle" => aborted')
    BY <1>2 DEF Changed, Revise, Announce, Killed
  <2> QED  BY <2>1 DEF IInv, RunOK, RunTypes, GrantOK, GrantTypes
<1> QED  BY <1>1, <1>2 DEF Effect, Untouched, Asked, Create

-----------------------------------------------------------------------------
(* Commands and their receipts.                                             *)

LEMMA AppliesEffect ==
    ASSUME IInv, NEW c \in Commands \cup {NoCommand}, NEW s, Applies(c, s) PROVE Changed
<1> USE DEF IInv, GrantOK, GrantTypes, Legal, ReqStatus
<1>1. CASE c.kind = "confirm" /\ Confirmable(c.of, s)
  <2> DEFINE st == [status EXCEPT ![c.of] = "approved"]
  <2>1. Legal(st)
    BY <1>1, CommandParts DEF Confirmable
  <2> QED  BY <1>1, <2>1 DEF Applies, Changed
<1>2. CASE c.kind = "revoke"
  <2> DEFINE st == [status EXCEPT ![c.of] = "revoked"]
  <2>1. Legal(st)
    OBVIOUS
  <2> QED  BY <1>2, <2>1 DEF Applies, Changed
<1>3. CASE c.kind = "reset"
  <2> DEFINE st == [r \in Requests |->
                       IF status[r] \in {"approved", "pending"} THEN "revoked" ELSE status[r]]
  <2>1. Legal(st)
    OBVIOUS
  <2> QED  BY <1>3, <2>1 DEF Applies, Changed
<1> QED  BY <1>1, <1>2, <1>3 DEF Applies

LEMMA PartedLegal == ASSUME IInv, NEW s PROVE Legal(Parted(s))
BY DEF IInv, GrantOK, GrantTypes, Legal, ReqStatus, Parted

LEMMA FaultEffect == ASSUME IInv, Fault PROVE Effect /\ faults' \in Nat
BY DEF IInv, ServiceTypes, Fault, Effect

\* What a command does: nothing, or it gets its receipt, is counted or refused, or is dropped
\* with its transaction.
LEMMA HandleStep ==
    ASSUME IInv, NEW m \in Messages, NEW c \in Commands \cup {NoCommand},
           NEW s \in 0..MaxSessions, Handle(m, c, s)
    PROVE  /\ Effect /\ faults' \in Nat
           /\ \/ UNCHANGED <<heard, refused, counted>>
              \/ /\ IsPermissionCommand(c) /\ m \notin heard /\ heard' = heard \cup {m}
                 /\ \/ counted' = [counted EXCEPT ![m] = @ + 1] /\ refused' = refused
                    \/ counted' = counted /\ refused' \in {refused, refused \cup {m}}
<1>1. faults \in Nat /\ (faults' = faults => faults' \in Nat)
  BY DEF IInv, ServiceTypes
<1>2. CASE ~IsPermissionCommand(c) \/ Heard(m)
  BY <1>1, <1>2 DEF Handle, Effect
<1>3. CASE IsPermissionCommand(c) /\ ~Heard(m)
  <2>1. CASE /\ Applies(c, s)
             /\ heard' = heard \cup {m} /\ counted' = [counted EXCEPT ![m] = @ + 1]
             /\ UNCHANGED <<refused, faults>>
    BY <1>1, <1>3, <2>1, AppliesEffect DEF Heard, Effect
  <2>2. CASE /\ c.kind = "request" /\ Create(c.change, "persistent", s)
             /\ heard' = heard \cup {m} /\ UNCHANGED <<refused, counted, faults>>
    <3>1. Asked
      BY <2>2, CommandParts DEF Asked, Lifetimes
    <3> QED  BY <1>1, <1>3, <2>2, <3>1 DEF Heard, Effect
  <2>3. CASE /\ Refuses(c, s) /\ heard' = heard \cup {m} /\ refused' = refused \cup {m}
             /\ Untouched /\ UNCHANGED <<counted, faults>>
    BY <1>1, <1>3, <2>3 DEF Heard, Effect
  <2>4. CASE /\ Fault /\ UNCHANGED counted
             /\ \/ heard' = heard \cup {m} /\ refused' = refused \cup {m}
                \/ UNCHANGED <<heard, refused>>
    BY <1>3, <2>4, FaultEffect DEF Heard
  <2> QED  BY <1>3, <2>1, <2>2, <2>3, <2>4 DEF Handle
<1> QED  BY <1>2, <1>3

\* The end of a session's grants under the receipt of a message.
LEMMA PartStep ==
    ASSUME IInv, NEW m \in Messages, NEW s, Part(m, s)
    PROVE  /\ Effect /\ faults' \in Nat
           /\ \/ UNCHANGED <<parted, counted>>
              \/ /\ m \notin parted /\ parted' = parted \cup {m}
                 /\ counted' = [counted EXCEPT ![m] = @ + 1]
<1>1. faults \in Nat
  BY DEF IInv, ServiceTypes
<1> QED  BY <1>1, PartedLegal, FaultEffect DEF Part, Effect, Changed

\* The end of a session's grants under the receipt of the session.
LEMMA CleanupStep ==
    ASSUME IInv, NEW s \in 0..MaxSessions, Cleanup(s), s \in Sessions
    PROVE  Effect /\ faults' \in Nat /\ sealed' \subseteq Sessions
<1>1. faults \in Nat /\ sealed \subseteq Sessions
  BY DEF IInv, ServiceTypes
<1> QED  BY <1>1, PartedLegal, FaultEffect DEF Cleanup, Effect, Changed

\* A message that is heard was stored before, or is stored with this step.
LEMMA HearStep ==
    ASSUME IInv, NEW m \in Messages, NEW c \in Commands, NEW s \in 0..MaxSessions,
           Hear(m, c, s), command[m] \in {c, NoCommand}, command'[m] = c,
           \A k \in Messages \ {m} : command'[k] = command[k]
    PROVE  Effect /\ faults' \in Nat /\ CountOK' /\ UNCHANGED sealed
<1> USE DEF IInv, CountOK, CountTypes
<1>1. CASE c.kind = "new"
  <2>1. Part(m, s) /\ UNCHANGED <<heard, sealed, refused>>
    BY <1>1 DEF Hear
  <2>2. m \notin heard
    BY <1>1 DEF IsPermissionCommand, NoCommand
  <2>3. ASSUME UNCHANGED <<parted, counted>> PROVE CountOK'
    <3>1. \A k \in parted : command'[k].kind = "new"
      BY <1>1
    <3>2. \A k \in heard : IsPermissionCommand(command'[k])
      BY <2>2 DEF IsPermissionCommand
    <3> QED  BY <2>1, <2>3, <3>1, <3>2
  <2>4. ASSUME m \notin parted, parted' = parted \cup {m}, counted' = [counted EXCEPT ![m] = @ + 1]
        PROVE  CountOK'
    <3>1. counted[m] = 0 /\ m \notin refused
      BY <2>2, <2>4
    <3>2. /\ \A k \in parted' : command'[k].kind = "new"
          /\ \A k \in heard' : IsPermissionCommand(command'[k])
      BY <1>1, <2>1, <2>2, <2>4
    <3>3. parted' \subseteq Messages /\ counted' \in [Messages -> Nat]
      BY <2>4
    <3>4. ASSUME NEW k \in Messages
          PROVE  /\ counted'[k] <= 1
                 /\ k \in refused \/ k \notin heard \cup parted' => counted'[k] = 0
      BY <2>4, <3>1
    <3> QED  BY <2>1, <3>2, <3>3, <3>4
  <2> QED  BY <2>1, <2>3, <2>4, PartStep
<1>2. CASE c.kind # "new"
  <2>1. Handle(m, c, s) /\ UNCHANGED <<parted, sealed>>
    BY <1>2 DEF Hear
  <2>2. m \notin parted
    BY <1>2 DEF NoCommand
  <2>3. \A k \in parted : command'[k].kind = "new"
    BY <2>2
  <2>4. ASSUME UNCHANGED <<heard, refused, counted>> PROVE CountOK'
    <3>1. \A k \in heard : IsPermissionCommand(command'[k])
      BY DEF IsPermissionCommand, NoCommand
    <3> QED  BY <2>1, <2>3, <2>4, <3>1
  <2>5. ASSUME IsPermissionCommand(c), m \notin heard, heard' = heard \cup {m},
               \/ counted' = [counted EXCEPT ![m] = @ + 1] /\ refused' = refused
               \/ counted' = counted /\ refused' \in {refused, refused \cup {m}}
        PROVE  CountOK'
    <3>1. counted[m] = 0 /\ m \notin refused
      BY <2>2, <2>5
    <3>2. \A k \in heard' : IsPermissionCommand(command'[k])
      BY <2>5
    <3>3. heard' \subseteq Messages /\ refused' \subseteq heard' /\ counted' \in [Messages -> Nat]
      BY <2>5
    <3>4. ASSUME NEW k \in Messages
          PROVE  /\ counted'[k] <= 1
                 /\ k \in refused' \/ k \notin heard' \cup parted' => counted'[k] = 0
      BY <2>1, <2>5, <3>1
    <3> QED  BY <2>1, <2>3, <3>2, <3>3, <3>4
  <2> QED  BY <2>1, <2>4, <2>5, HandleStep
<1> QED  BY <1>1, <1>2

-----------------------------------------------------------------------------
(* Messages and their turns.                                                *)

\* Steps that leave the receipts alone.
LEMMA CountKept == ASSUME IInv, UNCHANGED <<heard, parted, refused, command, counted>> PROVE CountOK'
BY DEF IInv, CountOK, CountTypes

LEMMA StoreTypes ==
    ASSUME IInv, NEW m \in Messages, NEW c \in Commands, Store(m, c)
    PROVE  /\ QueueOK' /\ session' \in 0..MaxSessions
           /\ command[m] = NoCommand /\ command'[m] = c
           /\ \A k \in Messages \ {m} : command'[k] = command[k]
<1>1. /\ session' \in 0..MaxSessions /\ session' \in Sessions /\ last' \in 0..MaxSessions
      /\ command' = [command EXCEPT ![m] = c] /\ place' = [place EXCEPT ![m] = session']
      /\ queue' = Append(queue, m) /\ command[m] = NoCommand
  BY BoundsAssumption DEF Store, IInv, QueueOK, Sessions
<1> QED  BY <1>1 DEF IInv, QueueOK

LEMMA IngestPreserves == ASSUME IInv, NEW m \in Messages, Ingest(m) PROVE IInv'
<1>1. PICK c \in Commands : Store(m, c) /\ Hear(m, c, session')
  BY DEF Ingest
<1>2. QueueOK' /\ Effect /\ faults' \in Nat /\ CountOK' /\ UNCHANGED sealed
  BY <1>1, StoreTypes, HearStep
<1>3. UNCHANGED <<up, run, driver, runRevision, served, mixed, reply, restarts>>
  BY DEF Ingest
<1>4. GrantOK' /\ RunOK'
  BY <1>2, <1>3, EffectGrants, EffectRun
<1>5. ServiceTypes'
  BY <1>2, <1>3 DEF IInv, ServiceTypes
<1> QED  BY <1>2, <1>4, <1>5 DEF IInv

\* The end of the process: no run, no tools.
LEMMA OverPreserves ==
    ASSUME IInv, RunOver, uses' = [t \in Tools |-> {}],
           UNCHANGED <<grantVars, counted, served>>
    PROVE  GrantOK' /\ RunOK'
<1>1. GrantOK'
  BY DEF IInv, GrantOK, GrantTypes, ToolsWithinGrants, RunOver, grantVars
<1>2. RunOK'
  BY DEF RunOver, RunOK, RunTypes
<1> QED  BY <1>1, <1>2

LEMMA IngestCrashesPreserves == ASSUME IInv, NEW m \in Messages, IngestCrashes(m) PROVE IInv'
<1>1. PICK c \in Commands : Store(m, c)
  BY DEF IngestCrashes
<1>2. /\ RunOver /\ uses' = [t \in Tools |-> {}] /\ up' = "down" /\ restarts' = restarts + 1
      /\ UNCHANGED <<grantVars, counted, served, reply, faults>>
  BY DEF Killed, IngestCrashes
<1>3. /\ QueueOK' /\ command[m] = NoCommand
      /\ \A k \in Messages \ {m} : command'[k] = command[k]
  BY <1>1, StoreTypes
<1>4. m \notin heard /\ m \notin parted
  BY <1>3 DEF IInv, CountOK, IsPermissionCommand, NoCommand
<1>5. CountOK'
  <2>1. \A k \in heard : IsPermissionCommand(command'[k])
    BY <1>3, <1>4 DEF IInv, CountOK, CountTypes
  <2>2. \A k \in parted : command'[k].kind = "new"
    BY <1>3, <1>4 DEF IInv, CountOK, CountTypes
  <2> QED  BY <1>2, <2>1, <2>2 DEF IInv, CountOK, CountTypes, grantVars
<1>6. ServiceTypes'
  BY <1>2 DEF IInv, ServiceTypes, grantVars
<1> QED  BY <1>2, <1>3, <1>5, <1>6, OverPreserves DEF IInv

LEMMA RedeliverPreserves == ASSUME IInv, NEW m \in Messages, Redeliver(m) PROVE IInv'
<1>1. /\ Hear(m, command[m], place[m]) /\ command[m] \in Commands /\ place[m] \in 0..MaxSessions
      /\ UNCHANGED <<up, queueVars, run, driver, runRevision, served, mixed, reply, restarts>>
  BY DEF Redeliver, IInv, QueueOK
<1>2. Effect /\ faults' \in Nat /\ CountOK' /\ UNCHANGED sealed
  BY <1>1, HearStep DEF queueVars
<1>3. GrantOK' /\ RunOK'
  BY <1>1, <1>2, EffectGrants, EffectRun
<1>4. QueueOK' /\ ServiceTypes'
  BY <1>1, <1>2 DEF IInv, QueueOK, ServiceTypes, queueVars
<1> QED  BY <1>2, <1>3, <1>4 DEF IInv

LEMMA NextTurn ==
    ASSUME IInv, queue # <<>>
    PROVE  /\ Head(queue) \in Messages /\ Tail(queue) \in Seq(Messages)
           /\ command[Head(queue)] \in Commands \cup {NoCommand}
           /\ place[Head(queue)] \in 0..MaxSessions
<1>1. Head(queue) \in Messages /\ Tail(queue) \in Seq(Messages)
  BY DEF IInv, QueueOK
<1> QED  BY <1>1 DEF IInv, QueueOK

LEMMA ClaimCommandPreserves == ASSUME IInv, ClaimCommand PROVE IInv'
<1> DEFINE m == Head(queue)
<1>1. /\ queue # <<>> /\ IsPermissionCommand(command[m]) /\ Handle(m, command[m], place[m])
      /\ queue' = Tail(queue)
      /\ UNCHANGED <<up, parted, sealed, command, place, session, last, run, driver, runRevision,
                     served, mixed, reply, restarts>>
  BY DEF ClaimCommand
<1>2. m \in Messages /\ command[m] \in Commands /\ place[m] \in 0..MaxSessions
  BY <1>1, NextTurn DEF IsPermissionCommand, NoCommand
<1>3. Hear(m, command[m], place[m])
  BY <1>1 DEF Hear, IsPermissionCommand
<1>4. Effect /\ faults' \in Nat /\ CountOK'
  BY <1>1, <1>2, <1>3, HearStep
<1>5. GrantOK' /\ RunOK'
  BY <1>1, <1>4, EffectGrants, EffectRun
<1>6. QueueOK'
  BY <1>1, NextTurn DEF IInv, QueueOK
<1>7. ServiceTypes'
  BY <1>1, <1>4 DEF IInv, ServiceTypes
<1> QED  BY <1>4, <1>5, <1>6, <1>7 DEF IInv

LEMMA ArchiveTypes ==
    ASSUME IInv, NEW rest \in Seq(Messages), Archive(rest)
    PROVE  /\ place' \in [Messages -> 0..MaxSessions]
           /\ session' \in 0..MaxSessions /\ last' \in 0..MaxSessions
           /\ \A m \in Messages : place'[m] = place[m] \/ place'[m] \in Sessions
<1>1. CASE rest = <<>>
  BY <1>1, BoundsAssumption DEF Archive, IInv, QueueOK
<1>2. CASE rest # <<>>
  <2>1. last + 1 \in 0..MaxSessions /\ last + 1 \in Sessions
    BY <1>2, BoundsAssumption DEF Archive, IInv, QueueOK, Sessions
  <2> QED  BY <1>2, <2>1 DEF Archive, IInv, QueueOK
<1> QED  BY <1>1, <1>2

LEMMA ClaimNewPreserves == ASSUME IInv, ClaimNew PROVE IInv'
<1> DEFINE m == Head(queue)
<1>1. /\ queue # <<>> /\ command[m].kind = "new" /\ Archive(Tail(queue)) /\ Cleanup(place[m])
      /\ queue' = Tail(queue)
      /\ UNCHANGED <<up, heard, parted, refused, command, run, driver, runRevision, historyVars,
                     restarts>>
  BY DEF ClaimNew
<1>2. m \in Messages /\ place[m] \in Sessions /\ Sessions \subseteq 0..MaxSessions
  BY <1>1, NextTurn DEF IInv, QueueOK, NoCommand, Sessions
<1>3. Effect /\ faults' \in Nat /\ sealed' \subseteq Sessions
  BY <1>1, <1>2, CleanupStep
<1>4. GrantOK' /\ RunOK' /\ CountOK'
  BY <1>1, <1>3, EffectGrants, EffectRun, CountKept DEF historyVars
<1>5. QueueOK'
  BY <1>1, NextTurn, ArchiveTypes DEF IInv, QueueOK
<1>6. ServiceTypes'
  BY <1>1, <1>3 DEF IInv, ServiceTypes, historyVars
<1> QED  BY <1>4, <1>5, <1>6 DEF IInv

LEMMA ClaimTextPreserves == ASSUME IInv, ClaimText PROVE IInv'
<1>1. Head(queue) \in Messages /\ Tail(queue) \in Seq(Messages)
  BY NextTurn DEF ClaimText
<1>2. GrantOK'
  BY DEF ClaimText, IInv, GrantOK, GrantTypes, ToolsWithinGrants, grantVars, historyVars
<1>3. RunOK'
  BY <1>1 DEF ClaimText, IInv, RunOK, RunTypes, grantVars, historyVars
<1>4. CountOK'
  BY CountKept DEF ClaimText, grantVars, historyVars
<1>5. QueueOK' /\ ServiceTypes'
  BY <1>1 DEF ClaimText, IInv, QueueOK, ServiceTypes, grantVars, historyVars
<1> QED  BY <1>2, <1>3, <1>4, <1>5 DEF IInv

-----------------------------------------------------------------------------
(* The run, its tools, and time.                                            *)

\* Steps of the run alone.
LEMMA RunPreserves ==
    ASSUME IInv, StartRun \/ Prompt \/ RunEnds \/ OutcomeIsRead \/ ReviewEnds
    PROVE  IInv'
<1>1. UNCHANGED <<up, grantVars, queueVars, uses, counted, served, restarts, faults>>
  BY DEF StartRun, Prompt, RunEnds, OutcomeIsRead, ReviewEnds, historyVars
<1>2. GrantOK'
  <2>1. aborted' \in BOOLEAN /\ stopping' \in BOOLEAN
    BY DEF StartRun, Prompt, RunEnds, OutcomeIsRead, ReviewEnds, Caught, RunOver, IInv, GrantOK,
           GrantTypes
  <2> QED  BY <1>1, <2>1 DEF IInv, GrantOK, GrantTypes, ToolsWithinGrants, grantVars
<1>3. RunOK'
  <2>1. CASE RunOver
    BY <2>1 DEF RunOver, RunOK, RunTypes
  <2>2. CASE StartRun /\ ~RunOver
    BY <2>2 DEF StartRun, Caught, IInv, RunOK, RunTypes, GrantOK, GrantTypes, grantVars
  <2>3. CASE Prompt
    BY <2>3 DEF Prompt, IInv, RunOK, RunTypes, grantVars, historyVars
  <2>4. CASE RunEnds /\ ~RunOver
    BY <2>4 DEF RunEnds, Caught, IInv, RunOK, RunTypes, GrantOK, GrantTypes, grantVars
  <2>5. CASE OutcomeIsRead /\ ~RunOver
    BY <2>5 DEF OutcomeIsRead, Caught, IInv, RunOK, RunTypes, grantVars
  <2> QED  BY <2>1, <2>2, <2>3, <2>4, <2>5 DEF ReviewEnds, Caught
<1>4. CountOK'
  BY <1>1, CountKept DEF grantVars, queueVars
<1>5. QueueOK'
  BY <1>1 DEF IInv, QueueOK, queueVars
<1>6. ServiceTypes'
  <2>1. reply' \in {"none", "notice", "unreviewed", "reviewed"}
    BY DEF StartRun, Prompt, RunEnds, OutcomeIsRead, ReviewEnds, Caught, historyVars, IInv,
           ServiceTypes
  <2> QED  BY <1>1, <2>1 DEF IInv, ServiceTypes, grantVars
<1> QED  BY <1>2, <1>3, <1>4, <1>5, <1>6 DEF IInv

LEMMA CallToolPreserves ==
    ASSUME IInv, NEW t \in Tools, NEW op \in Operations, CallTool(t, op) PROVE IInv'
<1> DEFINE rs == Applicable(op, place[driver])
<1>1. /\ status' = Spent(rs) /\ (uses' = [uses EXCEPT ![t] = rs] \/ uses' = uses)
      /\ served' = [r \in Requests |-> IF r \in rs /\ request[r].life = "once"
                                       THEN served[r] + 1 ELSE served[r]]
      /\ mixed' = (mixed \/ revision # runRevision) /\ run = "working"
      /\ UNCHANGED <<up, request, lapsed, revision, policy, heard, parted, sealed, refused,
                     queueVars, runVars, counted, reply, restarts, faults>>
  BY DEF CallTool
<1>2. rs \subseteq Requests /\ \A r \in rs : status[r] = "approved"
  BY DEF Applicable
<1> HIDE DEF rs
<1>3. GrantTypes'
  <2>1. status' \in [Requests -> ReqStatus] /\ served' \in [Requests -> Nat]
    BY <1>1 DEF Spent, IInv, GrantOK, GrantTypes, ReqStatus
  <2>2. uses' \in [Tools -> SUBSET Requests]
    BY <1>1, <1>2 DEF IInv, GrantOK, GrantTypes
  <2> QED  BY <1>1, <2>1, <2>2 DEF IInv, GrantOK, GrantTypes, runVars
<1>4. \A r \in Requests :
          /\ status'[r] = IF r \in rs /\ request[r].life = "once" THEN "consumed" ELSE status[r]
          /\ served'[r] = IF r \in rs /\ request[r].life = "once" THEN served[r] + 1 ELSE served[r]
  BY <1>1 DEF Spent
<1>5. ASSUME NEW r \in Requests
      PROVE  /\ status'[r] \in {"pending", "approved"} => request'[r].change \in Changes
             /\ served'[r] > 0 => status'[r] \in {"consumed", "revoked"}
             /\ served'[r] <= 1
  <2>1. CASE r \in rs /\ request[r].life = "once"
    <3>1. served[r] = 0
      BY <1>2, <2>1 DEF IInv, GrantOK, GrantTypes
    <3> QED  BY <1>4, <2>1, <3>1
  <2>2. CASE ~(r \in rs /\ request[r].life = "once")
    BY <1>1, <1>4, <2>2 DEF IInv, GrantOK, ToolsWithinGrants
  <2> QED  BY <2>1, <2>2
<1>6. ASSUME NEW x \in Tools, NEW r \in uses'[x]
      PROVE  status'[r] = IF request'[r].life = "once" THEN "consumed" ELSE "approved"
  <2>1. r \in uses[x] \/ r \in rs
    BY <1>1, <1>6 DEF IInv, GrantOK, GrantTypes
  <2>2. CASE r \in rs
    BY <1>1, <1>2, <1>4, <2>2
  <2>3. CASE r \in uses[x] /\ r \notin rs
    BY <1>1, <1>4, <2>3 DEF IInv, GrantOK, GrantTypes, ToolsWithinGrants
  <2> QED  BY <2>1, <2>2, <2>3
<1>7. GrantOK'
  BY <1>3, <1>5, <1>6 DEF GrantOK, ToolsWithinGrants
<1>8. RunOK'
  <2>1. mixed' \in BOOLEAN /\ UNCHANGED <<run, driver, runRevision, revision, aborted>>
    BY <1>1 DEF runVars, IInv, RunOK, RunTypes
  <2>2. mixed' => runRevision < revision
    BY <1>1 DEF IInv, RunOK, RunTypes, GrantOK, GrantTypes
  <2> QED  BY <1>1, <2>1, <2>2 DEF IInv, RunOK, RunTypes
<1>9. CountOK'
  BY <1>1, CountKept DEF queueVars
<1>10. QueueOK' /\ ServiceTypes'
  BY <1>1 DEF IInv, QueueOK, ServiceTypes, queueVars
<1> QED  BY <1>7, <1>8, <1>9, <1>10 DEF IInv

LEMMA ToolEndsPreserves == ASSUME IInv, NEW t \in Tools, ToolEnds(t) PROVE IInv'
<1>1. /\ uses' = [uses EXCEPT ![t] = {}]
      /\ UNCHANGED <<up, grantVars, queueVars, runVars, historyVars, restarts, faults>>
  BY DEF ToolEnds
<1>2. GrantOK'
  BY <1>1 DEF IInv, GrantOK, GrantTypes, ToolsWithinGrants, grantVars, runVars, historyVars
<1>3. RunOK'
  BY <1>1 DEF IInv, RunOK, RunTypes, grantVars, runVars, historyVars
<1>4. CountOK'
  BY <1>1, CountKept DEF grantVars, queueVars, historyVars
<1>5. QueueOK' /\ ServiceTypes'
  BY <1>1 DEF IInv, QueueOK, ServiceTypes, grantVars, queueVars, historyVars
<1> QED  BY <1>2, <1>3, <1>4, <1>5 DEF IInv

LEMMA AskForPreserves ==
    ASSUME IInv, NEW change \in Changes, NEW life \in AgentLifetimes, AskFor(change, life)
    PROVE  IInv'
<1>1. /\ Create(change, life, place[driver]) /\ run = "working"
      /\ UNCHANGED <<up, heard, parted, sealed, refused, queueVars, run, driver, runRevision,
                     historyVars, restarts, faults>>
  BY DEF AskFor
<1>2. place[driver] \in 0..MaxSessions /\ life \in Lifetimes
  BY <1>1, MenuAssumption DEF IInv, RunOK, QueueOK, Lifetimes
<1>3. Effect
  BY <1>1, <1>2 DEF Effect, Asked
<1>4. GrantOK' /\ RunOK' /\ CountOK'
  BY <1>1, <1>3, EffectGrants, EffectRun, CountKept DEF queueVars, historyVars
<1>5. QueueOK' /\ ServiceTypes'
  BY <1>1 DEF IInv, QueueOK, ServiceTypes, queueVars, historyVars
<1> QED  BY <1>4, <1>5 DEF IInv

LEMMA LapsesPreserves == ASSUME IInv, NEW r \in Requests, Lapses(r) PROVE IInv'
<1>1. /\ lapsed' = lapsed \cup {r}
      /\ UNCHANGED <<up, request, status, revision, policy, heard, parted, sealed, refused,
                     queueVars, runVars, uses, historyVars, restarts, faults>>
  BY DEF Lapses
<1>2. GrantOK'
  BY <1>1 DEF IInv, GrantOK, GrantTypes, ToolsWithinGrants, runVars, historyVars
<1>3. RunOK'
  BY <1>1 DEF IInv, RunOK, RunTypes, runVars, historyVars
<1>4. CountOK'
  BY <1>1, CountKept DEF queueVars, historyVars
<1>5. QueueOK' /\ ServiceTypes'
  BY <1>1 DEF IInv, QueueOK, ServiceTypes, queueVars, historyVars
<1> QED  BY <1>2, <1>3, <1>4, <1>5 DEF IInv

-----------------------------------------------------------------------------
(* Sessions and the process.                                                *)

\* Steps that end conversations and tidy up behind them.
LEMMA TidyPreserves ==
    ASSUME IInv, Effect, CountOK', QueueOK', faults' \in Nat, sealed' \subseteq Sessions,
           up' \in {"down", "recovering", "up"}, restarts' \in Nat,
           UNCHANGED <<run, driver, runRevision, historyVars>>
    PROVE  IInv'
<1>1. GrantOK' /\ RunOK'
  BY EffectGrants, EffectRun DEF historyVars
<1>2. ServiceTypes'
  BY DEF IInv, ServiceTypes, historyVars
<1> QED  BY <1>1, <1>2 DEF IInv

LEMMA IdleEndPreserves == ASSUME IInv, IdleEnd PROVE IInv'
<1>1. /\ session' = 0 /\ Cleanup(session) /\ session \in Sessions
      /\ UNCHANGED <<up, heard, parted, refused, command, place, queue, last, run, driver,
                     runRevision, historyVars, restarts>>
  BY DEF IdleEnd, IInv, QueueOK, Sessions
<1>2. Effect /\ faults' \in Nat /\ sealed' \subseteq Sessions
  BY <1>1, CleanupStep DEF IInv, QueueOK
<1>3. QueueOK' /\ CountOK'
  BY <1>1, CountKept, BoundsAssumption DEF IInv, QueueOK, historyVars
<1> QED  BY <1>1, <1>2, <1>3, TidyPreserves DEF IInv, ServiceTypes

LEMMA RepairPreserves == ASSUME IInv, NEW s \in Sessions, Repair(s) PROVE IInv'
<1>1. /\ Cleanup(s) /\ s \in 0..MaxSessions
      /\ UNCHANGED <<up, heard, parted, refused, queueVars, run, driver, runRevision, historyVars,
                     restarts>>
  BY DEF Repair, Sessions
<1>2. Effect /\ faults' \in Nat /\ sealed' \subseteq Sessions
  BY <1>1, CleanupStep
<1>3. QueueOK' /\ CountOK'
  BY <1>1, CountKept DEF IInv, QueueOK, queueVars, historyVars
<1> QED  BY <1>1, <1>2, <1>3, TidyPreserves DEF IInv, ServiceTypes

LEMMA CrashPreserves == ASSUME IInv, Crash PROVE IInv'
<1>1. /\ RunOver /\ uses' = [t \in Tools |-> {}] /\ up' = "down" /\ restarts' = restarts + 1
      /\ UNCHANGED <<grantVars, queueVars, counted, served, reply, faults>>
  BY DEF Crash, Killed
<1>2. GrantOK' /\ RunOK' /\ CountOK'
  BY <1>1, OverPreserves, CountKept DEF grantVars, queueVars
<1>3. QueueOK' /\ ServiceTypes'
  BY <1>1 DEF IInv, QueueOK, ServiceTypes, grantVars, queueVars
<1> QED  BY <1>2, <1>3 DEF IInv

LEMMA StopPreserves == ASSUME IInv, Stop PROVE IInv'
<1>1. /\ up' = "down" /\ restarts' = restarts + 1 /\ session' = 0 /\ queue' = <<>>
      /\ IF session # 0 THEN Cleanup(session) ELSE Untouched /\ UNCHANGED <<sealed, faults>>
      /\ UNCHANGED <<heard, parted, refused, command, place, last, run, driver, runRevision,
                     historyVars>>
  BY DEF Stop
<1>2. Effect /\ faults' \in Nat /\ sealed' \subseteq Sessions
  <2>1. CASE session # 0
    <3>1. session \in Sessions
      BY <2>1 DEF IInv, QueueOK, Sessions
    <3> QED  BY <1>1, <2>1, <3>1, CleanupStep DEF IInv, QueueOK
  <2>2. CASE session = 0
    BY <1>1, <2>2 DEF Effect, IInv, ServiceTypes
  <2> QED  BY <2>1, <2>2
<1>3. QueueOK' /\ CountOK'
  BY <1>1, CountKept, BoundsAssumption DEF IInv, QueueOK, historyVars
<1>4. restarts' \in Nat
  BY <1>1 DEF IInv, ServiceTypes
<1> QED  BY <1>1, <1>2, <1>3, <1>4, TidyPreserves

LEMMA BootPreserves == ASSUME IInv, Boot PROVE IInv'
<1>1. /\ up' = "recovering" /\ session' = 0 /\ queue' = <<>>
      /\ UNCHANGED <<grantVars, command, place, last, runVars, uses, historyVars, restarts, faults>>
  BY DEF Boot
<1>2. Effect
  BY <1>1 DEF Effect, Untouched, grantVars, runVars
<1>3. QueueOK' /\ CountOK'
  BY <1>1, CountKept, BoundsAssumption DEF IInv, QueueOK, grantVars, historyVars
<1> QED  BY <1>1, <1>2, <1>3, TidyPreserves DEF IInv, ServiceTypes, grantVars, runVars

LEMMA ServePreserves == ASSUME IInv, Serve \/ UNCHANGED vars PROVE IInv'
<1>1. /\ up' \in {"down", "recovering", "up"}
      /\ UNCHANGED <<grantVars, queueVars, runVars, uses, historyVars, restarts, faults>>
  BY DEF Serve, vars, IInv, ServiceTypes
<1>2. Effect
  BY <1>1 DEF Effect, Untouched, grantVars, runVars
<1>3. QueueOK' /\ CountOK'
  BY <1>1, CountKept DEF IInv, QueueOK, grantVars, queueVars, historyVars
<1> QED  BY <1>1, <1>2, <1>3, TidyPreserves DEF IInv, ServiceTypes, grantVars, runVars

-----------------------------------------------------------------------------
(* The theorems.                                                            *)

LEMMA Inductive == IInv /\ [Next]_vars => IInv'
<1> SUFFICES ASSUME IInv, [Next]_vars PROVE IInv'
  OBVIOUS
<1>1. CASE UserStep
  BY <1>1, IngestPreserves, IngestCrashesPreserves, RedeliverPreserves DEF UserStep
<1>2. CASE TurnStep
  BY <1>2, ClaimCommandPreserves, ClaimNewPreserves, ClaimTextPreserves, RunPreserves DEF TurnStep
<1>3. CASE ToolStep
  BY <1>3, ToolEndsPreserves, CallToolPreserves, AskForPreserves DEF ToolStep
<1>4. CASE TimeStep
  BY <1>4, IdleEndPreserves, LapsesPreserves, RepairPreserves DEF TimeStep
<1>5. CASE ProcessStep
  BY <1>5, CrashPreserves, StopPreserves, BootPreserves, ServePreserves DEF ProcessStep
<1> QED  BY <1>1, <1>2, <1>3, <1>4, <1>5, ServePreserves DEF Next

\* The invariant holds in every reachable state.
THEOREM GrantInvariance == Spec => []IInv
BY Initially, Inductive, PTL DEF Spec

\* Tables, queue and run have their types.
THEOREM GrantsTyped == Spec => []TypeOK
BY GrantInvariance, InvImpliesTypes, PTL

\* No tool works with a request that is not granted now, and no one-use grant serves twice,
\* for any number of tools, commands and conversations.
THEOREM WithinGrants == Spec => []ToolsWithinGrants
<1>1. IInv => ToolsWithinGrants
  BY DEF IInv, GrantOK
<1> QED  BY <1>1, GrantInvariance, PTL

\* However often a message is met, it changes the permissions once at most, and not at all
\* when it was answered as failed.
THEOREM CountedOnce == Spec => []CommandsCountOnce
<1>1. IInv => CommandsCountOnce
  BY DEF IInv, CountOK, CommandsCountOnce
<1> QED  BY <1>1, GrantInvariance, PTL

\* Only the steps that end a run publish something, and only two of them what it said.
LEMMA RepliedByRun ==
    IInv /\ [Next]_vars =>
        (reply' # reply => /\ reply' \in {"unreviewed", "reviewed"} => ~mixed
                           /\ reply' = "reviewed" => revision = runRevision)
<1> SUFFICES ASSUME IInv, [Next]_vars, reply' # reply, reply' \in {"unreviewed", "reviewed"}
             PROVE  ~mixed /\ (reply' = "reviewed" => revision = runRevision)
  OBVIOUS
<1>1. ~UserStep
  BY DEF UserStep, Ingest, IngestCrashes, Redeliver
<1>2. ~ToolStep
  BY DEF ToolStep, ToolEnds, CallTool, AskFor, historyVars
<1>3. ~TimeStep
  BY DEF TimeStep, IdleEnd, Lapses, Repair, historyVars
<1>4. ~ProcessStep
  BY DEF ProcessStep, Crash, Stop, Boot, Serve, historyVars
<1>5. TurnStep
  BY <1>1, <1>2, <1>3, <1>4 DEF Next, vars, historyVars
<1>6. \/ OutcomeIsRead /\ reply' = "unreviewed"
      \/ ReviewEnds /\ ~aborted
  BY <1>5 DEF TurnStep, ClaimCommand, ClaimNew, ClaimText, StartRun, Prompt, RunEnds, OutcomeIsRead,
              ReviewEnds, Caught, historyVars
<1>7. CASE OutcomeIsRead /\ reply' = "unreviewed"
  BY <1>7 DEF OutcomeIsRead, IInv, RunOK
<1>8. CASE ReviewEnds /\ ~aborted
  BY <1>8 DEF ReviewEnds, IInv, RunOK
<1> QED  BY <1>6, <1>7, <1>8

\* pi-agent-gateway.ts and task-manager.ts: what a run says is published only when its tools
\* saw one revision of the permissions, and what a review decides only while that one is the
\* table's.  Without a review it may follow a change that came while images were read.
THEOREM OneRevision == Spec => ReplyUnderOneRevision
<1>1. IInv /\ [Next]_vars =>
          [reply' # reply => /\ reply' \in {"unreviewed", "reviewed"} => ~mixed
                             /\ reply' = "reviewed" => revision = runRevision]_vars
  BY RepliedByRun
<1> QED  BY <1>1, GrantInvariance, PTL DEF Spec, ReplyUnderOneRevision
=============================================================================
