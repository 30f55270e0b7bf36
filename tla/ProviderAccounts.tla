-------------------------- MODULE ProviderAccounts --------------------------
(***************************************************************************)
(* Shared provider accounts: requests of turns, reviews and memory tasks   *)
(* are bound to a provider and to the revision of its account, a login     *)
(* replaces the account, and the gate keeps the two apart.  Requests,      *)
(* logins, choices of the provider, crashes and restarts interleave at     *)
(* every await.                                                            *)
(*                                                                         *)
(* row, candidate, credRev, binding and selected are SQLite tables; cred   *)
(* is the credential file; everything else is lost with the process.       *)
(* The abort of a waiter is a step of the waiter.                          *)
(***************************************************************************)
EXTENDS Integers, FiniteSets

CONSTANTS
    Requests,     \* ids of model requests: a turn, a review, a memory task
    Logins,       \* ids of auth operations
    Providers,
    Accounts,     \* what a credential file may hold
    Choosers,     \* who changes the selection: a command, the admin page
    FirstProvider, FirstAccount,
    MaxChoices,   \* bound: changes of the selection
    MaxRestarts,  \* bound: stops, orderly or not, of the process
    MaxAttempts,  \* bound: attempts of one request
    Faults        \* BOOLEAN: may a commit, its journal or the refresh after it fail?

ASSUME ParticipantsAssumption ==
    /\ FirstProvider \in Providers /\ FirstAccount \in Accounts
    /\ Requests \cap Logins = {}
ASSUME BoundsAssumption ==
    MaxChoices \in Nat /\ MaxRestarts \in Nat /\ MaxAttempts \in Nat /\ Faults \in BOOLEAN

NotBound == [provider |-> FirstProvider, rev |-> -1, account |-> FirstAccount]
Unseen == -1

Over == {"SUCCEEDED", "FAILED", "CANCELLED", "EXPIRED"}      \* terminal
Cancellable == {"WAITING_LOCAL", "AUTHENTICATING", "WAITING_IDLE"}
RowStatus == Over \cup Cancellable \cup {"COMMITTING", "none"}

VARIABLES
    phase,                         \* the process: "down", "recovering", "up" or "closing"
    holders, blocked, quarantined, \* ProviderRequestGate
    asleep,                        \* wakeups: who waits at the gate for a change
    rpc, chosen, attempts,         \* requests, and the provider each one chose
    binding,                       \* turn_model_bindings, with the account it was made under
    cred, credRev,                 \* the accounts and their revisions
    row, candidate, provider,      \* provider_auth_operations
    view, opc, aborted,            \* the operations in memory
    selected, selRev, seen,        \* user_model_settings, and what the choosers saw
    restarts

gateVars == <<holders, blocked, quarantined, asleep>>
requestVars == <<rpc, chosen, attempts, binding>>
accountVars == <<cred, credRev>>
rowVars == <<row, candidate, provider>>
loginVars == <<view, opc, aborted>>
choiceVars == <<selected, selRev, seen>>
vars == <<phase, gateVars, requestVars, accountVars, rowVars, loginVars, choiceVars, restarts>>

Bindings == [provider : Providers, rev : Nat \cup {-1}, account : Accounts]

\* Types of the gate, the tables and the coroutines.
TypeOK ==
    /\ phase \in {"down", "recovering", "up", "closing"}
    /\ holders \in [Providers -> SUBSET Requests]
    /\ blocked \subseteq Providers /\ quarantined \subseteq Providers
    /\ asleep \subseteq Requests \cup Logins
    /\ rpc \in [Requests -> {"idle", "waiting", "entered", "running"}]
    /\ chosen \in [Requests -> Providers] /\ attempts \in [Requests -> Nat]
    /\ binding \in [Requests -> Bindings]
    /\ cred \in [Providers -> Accounts] /\ credRev \in [Providers -> Nat]
    /\ row \in [Logins -> RowStatus] /\ candidate \in [Logins -> Accounts]
    /\ provider \in [Logins -> Providers] /\ view \in [Logins -> RowStatus]
    /\ opc \in [Logins -> {"none", "preparing", "joining", "draining", "committing",
                           "committed", "refreshing", "thrown", "done"}]
    /\ aborted \subseteq Logins
    /\ selected \in Providers /\ selRev \in Nat /\ seen \in [Choosers -> Nat \cup {Unseen}]
    /\ restarts \in Nat

Init ==
    /\ phase = "up"
    /\ holders = [p \in Providers |-> {}] /\ blocked = {} /\ quarantined = {} /\ asleep = {}
    /\ rpc = [r \in Requests |-> "idle"] /\ chosen = [r \in Requests |-> FirstProvider]
    /\ attempts = [r \in Requests |-> 0] /\ binding = [r \in Requests |-> NotBound]
    /\ cred = [p \in Providers |-> FirstAccount] /\ credRev = [p \in Providers |-> 0]
    /\ row = [o \in Logins |-> "none"] /\ candidate = [o \in Logins |-> FirstAccount]
    /\ provider = [o \in Logins |-> FirstProvider]
    /\ view = [o \in Logins |-> "none"] /\ opc = [o \in Logins |-> "none"] /\ aborted = {}
    /\ selected = FirstProvider /\ selRev = 0 /\ seen = [c \in Choosers |-> Unseen]
    /\ restarts = 0

Alive == phase \in {"up", "closing"}

-----------------------------------------------------------------------------
(* Requests.                                                                *)

\* runTurn, review and withTask: an earlier binding, or else the current selection.
Choice(r) == IF binding[r] # NotBound THEN binding[r].provider ELSE selected

\* gate.enter up to its first await, and after each of them.
Enter(r, p) ==
    /\ p \notin quarantined
    /\ IF p \in blocked
       THEN /\ rpc' = [rpc EXCEPT ![r] = "waiting"]
            /\ asleep' = asleep \cup {r}
            /\ UNCHANGED holders
       ELSE /\ rpc' = [rpc EXCEPT ![r] = "entered"]
            /\ holders' = [holders EXCEPT ![p] = @ \cup {r}]
            /\ UNCHANGED asleep

Begin(r) ==
    /\ phase = "up" /\ rpc[r] = "idle" /\ attempts[r] < MaxAttempts
    /\ attempts' = [attempts EXCEPT ![r] = @ + 1]
    /\ chosen' = [chosen EXCEPT ![r] = Choice(r)]
    /\ Enter(r, Choice(r))
    /\ UNCHANGED <<phase, blocked, quarantined, binding, accountVars, rowVars, loginVars,
                   choiceVars, restarts>>

\* A woken waiter looks again; it fails when its provider was quarantined meanwhile.
Resume(r) ==
    /\ Alive /\ rpc[r] = "waiting" /\ r \notin asleep
    /\ \/ Enter(r, chosen[r])
       \/ /\ chosen[r] \in quarantined
          /\ rpc' = [rpc EXCEPT ![r] = "idle"]
          /\ UNCHANGED <<holders, asleep>>
    /\ UNCHANGED <<phase, blocked, quarantined, chosen, attempts, binding, accountVars, rowVars,
                   loginVars, choiceVars, restarts>>

\* The request's signal is aborted while it waits: it leaves no waker behind.
GiveUp(r) ==
    /\ Alive /\ rpc[r] = "waiting"
    /\ rpc' = [rpc EXCEPT ![r] = "idle"]
    /\ asleep' = asleep \ {r}
    /\ UNCHANGED <<phase, holders, blocked, quarantined, chosen, attempts, binding, accountVars,
                   rowVars, loginVars, choiceVars, restarts>>

\* The release of gate.enter: wake() resolves every waiter, whatever its provider.
Leave(r) ==
    /\ rpc' = [rpc EXCEPT ![r] = "idle"]
    /\ holders' = [holders EXCEPT ![chosen[r]] = @ \ {r}]
    /\ asleep' = {}

\* bind: INSERT OR IGNORE, so that the first attempt's binding stays.
Bound(r) ==
    IF binding[r] # NotBound THEN binding[r]
    ELSE [provider |-> chosen[r], rev |-> credRev[chosen[r]], account |-> cred[chosen[r]]]

\* The continuation of enter's caller runs after the catch clause of a login that threw.
Bind(r) ==
    /\ Alive /\ rpc[r] = "entered" /\ \A o \in Logins : opc[o] # "thrown"
    /\ binding' = [binding EXCEPT ![r] = Bound(r)]
    /\ IF Bound(r).rev = credRev[Bound(r).provider]
       THEN rpc' = [rpc EXCEPT ![r] = "running"] /\ UNCHANGED <<holders, asleep>>
       ELSE Leave(r)                                             \* ACCOUNT_CHANGED
    /\ UNCHANGED <<phase, blocked, quarantined, chosen, attempts, accountVars, rowVars,
                   loginVars, choiceVars, restarts>>

\* The run, the review or the memory task ends, in success or not.
Finish(r) ==
    /\ Alive /\ rpc[r] = "running"
    /\ Leave(r)
    /\ UNCHANGED <<phase, blocked, quarantined, chosen, attempts, binding, accountVars, rowVars,
                   loginVars, choiceVars, restarts>>

-----------------------------------------------------------------------------
(* Logins.                                                                  *)

SetStatus(o, s) ==
    /\ row' = [row EXCEPT ![o] = s]
    /\ view' = [view EXCEPT ![o] = s]

\* start: one operation of a provider at a time; asking again returns the one there is.
Start(o, p) ==
    /\ phase = "up" /\ row[o] = "none"
    /\ \A x \in Logins : provider[x] = p => view[x] \in Over \cup {"none"}
    /\ SetStatus(o, "WAITING_LOCAL")
    /\ provider' = [provider EXCEPT ![o] = p]
    /\ UNCHANGED <<phase, gateVars, requestVars, accountVars, candidate, opc, aborted,
                   choiceVars, restarts>>

\* begin: the owner chose a method on the admin page.
BeginLogin(o) ==
    /\ phase = "up" /\ view[o] = "WAITING_LOCAL"
    /\ SetStatus(o, "AUTHENTICATING")
    /\ opc' = [opc EXCEPT ![o] = "preparing"]
    /\ UNCHANGED <<phase, gateVars, requestVars, accountVars, candidate, provider, aborted,
                   choiceVars, restarts>>

\* Mutant: the provider is taken while requests still run.
CommenceAnyway(o) ==
    /\ \E a \in Accounts : candidate' = [candidate EXCEPT ![o] = a]
    /\ SetStatus(o, "COMMITTING")
    /\ blocked' = blocked \cup {provider[o]}
    /\ opc' = [opc EXCEPT ![o] = "committing"]
    /\ UNCHANGED asleep

\* The body of gate.exclusive once it has the block: drain, then journal the commit.
Drain(o) ==
    /\ blocked' = blocked \cup {provider[o]}
    /\ IF holders[provider[o]] = {}
       THEN /\ \E a \in Accounts : candidate' = [candidate EXCEPT ![o] = a]
            /\ SetStatus(o, "COMMITTING")
            /\ opc' = [opc EXCEPT ![o] = "committing"]
            /\ UNCHANGED asleep
       ELSE /\ opc' = [opc EXCEPT ![o] = "draining"]
            /\ asleep' = asleep \cup {o}
            /\ SetStatus(o, "WAITING_IDLE")
            /\ UNCHANGED candidate

\* gate.exclusive up to the block, for an operation not cancelled.
Exclude(o) ==
    IF provider[o] \in quarantined
    THEN /\ SetStatus(o, "FAILED")
         /\ opc' = [opc EXCEPT ![o] = "done"]
         /\ UNCHANGED <<blocked, asleep, candidate>>
    ELSE IF provider[o] \in blocked
    THEN /\ SetStatus(o, "WAITING_IDLE")
         /\ opc' = [opc EXCEPT ![o] = "joining"]
         /\ asleep' = asleep \cup {o}
         /\ UNCHANGED <<blocked, candidate>>
    ELSE Drain(o)

\* Mutant: a login that was cancelled while the credential was prepared goes on.
PreparedRegardless(o) == Exclude(o)

\* The catch clause finds the operation aborted: nothing is written.
Unwind(o) ==
    /\ opc' = [opc EXCEPT ![o] = "done"]
    /\ UNCHANGED <<row, view, candidate, blocked, asleep>>

Fail(o) ==
    /\ SetStatus(o, "FAILED")
    /\ opc' = [opc EXCEPT ![o] = "done"]
    /\ UNCHANGED <<candidate, blocked, asleep>>

\* backend.prepare returns, after any number of prompts.
AfterPrepare(o) == IF o \in aborted THEN Unwind(o) ELSE Exclude(o)

Prepared(o) ==
    /\ Alive /\ opc[o] = "preparing"
    /\ AfterPrepare(o) \/ (o \notin aborted /\ Fail(o))
    /\ UNCHANGED <<phase, holders, quarantined, requestVars, accountVars, provider, aborted,
                   choiceVars, restarts>>

\* A login that waits for its turn with the provider looks again.
Rejoin(o) ==
    /\ Alive /\ opc[o] = "joining" /\ o \notin asleep
    /\ IF o \in aborted THEN Unwind(o) ELSE Exclude(o)
    /\ UNCHANGED <<phase, holders, quarantined, requestVars, accountVars, provider, aborted,
                   choiceVars, restarts>>

\* Mutant: a login given up while it drains leaves the provider blocked.
KeepBlock(o) == UNCHANGED <<blocked, asleep>>

\* The finally clause of gate.exclusive.
Unblock(o) ==
    /\ blocked' = blocked \ {provider[o]}
    /\ asleep' = {}

\* A login that drains looks again; cancelled or quarantined, it gives the provider back.
Redrain(o) ==
    /\ Alive /\ opc[o] = "draining" /\ o \notin asleep
    /\ \/ /\ o \notin aborted /\ (holders[provider[o]] # {} \/ provider[o] \notin quarantined)
          /\ Drain(o)
       \/ /\ o \in aborted
          /\ Unblock(o)
          /\ opc' = [opc EXCEPT ![o] = "done"]
          /\ UNCHANGED <<row, view, candidate>>
       \/ /\ o \notin aborted /\ holders[provider[o]] = {} /\ provider[o] \in quarantined
          /\ Unblock(o)
          /\ SetStatus(o, "FAILED")
          /\ opc' = [opc EXCEPT ![o] = "done"]
          /\ UNCHANGED candidate
    /\ UNCHANGED <<phase, holders, quarantined, requestVars, accountVars, provider, aborted,
                   choiceVars, restarts>>

\* cancel, by the owner or by the ten-minute timer: not once the commit has begun.
Cancel(o) ==
    /\ phase = "up" /\ view[o] \in Cancellable
    /\ \E s \in {"CANCELLED", "EXPIRED"} : SetStatus(o, s)
    /\ aborted' = aborted \cup {o}
    /\ asleep' = asleep \ {o}
    /\ UNCHANGED <<phase, holders, blocked, quarantined, requestVars, accountVars, candidate,
                   provider, opc, choiceVars, restarts>>

\* credential.commit(): the file is replaced.
CommitFile(o) ==
    /\ Alive /\ opc[o] = "committing"
    /\ cred' = [cred EXCEPT ![provider[o]] = candidate[o]]
    /\ opc' = [opc EXCEPT ![o] = "committed"]
    /\ UNCHANGED <<phase, gateVars, requestVars, credRev, rowVars, view, aborted, choiceVars,
                   restarts>>

\* Mutant: the row ends with a status that no reader knows.
FinishAsDone(o) ==
    /\ row' = [row EXCEPT ![o] = "DONE"]
    /\ credRev' = [credRev EXCEPT ![provider[o]] = @ + 1]

\* finishCommit: row and revision in one transaction.
FinishRow(o) ==
    /\ row' = [row EXCEPT ![o] = "SUCCEEDED"]
    /\ credRev' = [credRev EXCEPT ![provider[o]] = @ + 1]

FinishCommit(o) ==
    /\ Alive /\ opc[o] = "committed"
    /\ FinishRow(o)
    /\ opc' = [opc EXCEPT ![o] = "refreshing"]
    /\ UNCHANGED <<phase, gateVars, requestVars, cred, candidate, provider, view, aborted,
                   choiceVars, restarts>>

Refreshed(o) ==
    /\ Alive /\ opc[o] = "refreshing"
    /\ view' = [view EXCEPT ![o] = "SUCCEEDED"]
    /\ opc' = [opc EXCEPT ![o] = "done"]
    /\ Unblock(o)
    /\ UNCHANGED <<phase, holders, quarantined, requestVars, accountVars, rowVars, aborted,
                   choiceVars, restarts>>

\* The commit, its journal or the refresh throws: the finally clause of gate.exclusive
\* runs, and only after it the catch clause of login.
Throw(o) ==
    /\ Faults /\ Alive /\ opc[o] \in {"committing", "committed", "refreshing"}
    /\ opc' = [opc EXCEPT ![o] = "thrown"]
    /\ Unblock(o)
    /\ UNCHANGED <<phase, holders, quarantined, requestVars, accountVars, rowVars, view,
                   aborted, choiceVars, restarts>>

Catch(o) ==
    /\ Alive /\ opc[o] = "thrown"
    /\ opc' = [opc EXCEPT ![o] = "done"]
    /\ quarantined' = quarantined \cup {provider[o]} /\ asleep' = {}
    /\ UNCHANGED <<phase, holders, blocked, requestVars, accountVars, rowVars, view, aborted,
                   choiceVars, restarts>>

-----------------------------------------------------------------------------
(* The choice of the provider.                                              *)

Look(c) ==
    /\ phase = "up" /\ seen[c] = Unseen
    /\ seen' = [seen EXCEPT ![c] = selRev]
    /\ UNCHANGED <<phase, gateVars, requestVars, accountVars, rowVars, loginVars, selected,
                   selRev, restarts>>

\* select: refused when the selection changed since it was looked at.
Choose(c, p) ==
    /\ phase = "up" /\ seen[c] # Unseen
    /\ seen' = [seen EXCEPT ![c] = Unseen]
    /\ IF seen[c] = selRev /\ p # selected /\ selRev < MaxChoices
       THEN selected' = p /\ selRev' = selRev + 1
       ELSE UNCHANGED <<selected, selRev>>
    /\ UNCHANGED <<phase, gateVars, requestVars, accountVars, rowVars, loginVars, restarts>>

-----------------------------------------------------------------------------
(* The process.                                                             *)

Forget ==
    /\ holders' = [p \in Providers |-> {}] /\ blocked' = {} /\ quarantined' = {}
    /\ asleep' = {}
    /\ rpc' = [r \in Requests |-> "idle"]
    /\ view' = [o \in Logins |-> "none"] /\ opc' = [o \in Logins |-> "none"] /\ aborted' = {}
    /\ seen' = [c \in Choosers |-> Unseen]
    /\ UNCHANGED <<chosen, attempts, binding, accountVars, rowVars, selected, selRev>>

Crash ==
    /\ phase \in {"up", "recovering", "closing"} /\ restarts < MaxRestarts
    /\ phase' = "down" /\ restarts' = restarts + 1
    /\ Forget

\* close: every operation is cancelled, a commit in progress is awaited.
Close ==
    /\ phase = "up" /\ restarts < MaxRestarts /\ \A r \in Requests : rpc[r] = "idle"
    /\ phase' = "closing" /\ restarts' = restarts + 1
    /\ LET ended == {o \in Logins : view[o] \in Cancellable}
           status == [o \in Logins |-> IF o \in ended THEN "CANCELLED" ELSE row[o]]
       IN  /\ row' = status
           /\ view' = [o \in Logins |-> IF o \in ended THEN "CANCELLED" ELSE view[o]]
           /\ aborted' = aborted \cup ended
           /\ asleep' = asleep \ ended
    /\ UNCHANGED <<holders, blocked, quarantined, requestVars, accountVars, candidate, provider,
                   opc, choiceVars>>

Exit ==
    /\ phase = "closing" /\ \A o \in Logins : opc[o] \in {"none", "done"}
    /\ phase' = "down" /\ Forget
    /\ UNCHANGED restarts

Boot ==
    /\ phase = "down" /\ phase' = "recovering"
    /\ UNCHANGED <<gateVars, requestVars, accountVars, rowVars, loginVars, choiceVars, restarts>>

Pending == {o \in Logins : row[o] \notin Over \cup {"none"}}

\* Mutant: recovery gives up every operation it finds unfinished.
RecoverAsFailed(o) == FALSE

\* The journalled candidate is what the credential file holds.
WasCommitted(o) == row[o] = "COMMITTING" /\ cred[provider[o]] = candidate[o]

RecoverRow(o) ==
    /\ phase = "recovering" /\ o \in Pending
    /\ IF WasCommitted(o) THEN FinishRow(o)
       ELSE row' = [row EXCEPT ![o] = "FAILED"] /\ UNCHANGED credRev
    /\ UNCHANGED <<phase, gateVars, requestVars, cred, candidate, provider, loginVars,
                   choiceVars, restarts>>

Serve ==
    /\ phase = "recovering" /\ Pending = {}
    /\ phase' = "up"
    /\ UNCHANGED <<gateVars, requestVars, accountVars, rowVars, loginVars, choiceVars, restarts>>

-----------------------------------------------------------------------------
RequestStep(r) == Begin(r) \/ Resume(r) \/ GiveUp(r) \/ Bind(r) \/ Finish(r)
Commit(o) ==
    CommitFile(o) \/ FinishCommit(o) \/ Refreshed(o) \/ Throw(o) \/ Catch(o)
LoginStep(o) == Prepared(o) \/ Rejoin(o) \/ Redrain(o) \/ Commit(o)
OwnerStep ==
    \/ \E o \in Logins : BeginLogin(o) \/ Cancel(o) \/ (\E p \in Providers : Start(o, p))
    \/ \E c \in Choosers : Look(c) \/ (\E p \in Providers : Choose(c, p))
ProcessStep == Crash \/ Close \/ Exit \/ Boot \/ Serve \/ (\E o \in Logins : RecoverRow(o))

Next ==
    \/ \E r \in Requests : RequestStep(r)
    \/ \E o \in Logins : LoginStep(o)
    \/ OwnerStep
    \/ ProcessStep

\* Promises resolve, requests and prepared logins end; owners and crashes need not come.
Fairness ==
    /\ \A r \in Requests : WF_vars(Resume(r)) /\ WF_vars(Bind(r)) /\ WF_vars(Finish(r))
    /\ \A o \in Logins : WF_vars(LoginStep(o))

Spec == Init /\ [][Next]_vars
FairSpec == Spec /\ Fairness

-----------------------------------------------------------------------------
(* Properties.                                                              *)

Commits == {"committing", "committed", "refreshing"}

\* While an account is replaced, nothing runs or is about to run on its provider: not a
\* turn bound before the selection changed, nor one that was admitted as the block came.
DrainedBeforeCommit ==
    \A o \in Logins, r \in Requests :
        opc[o] \in Commits /\ rpc[r] \in {"entered", "running"} => Bound(r).provider # provider[o]

\* A request runs with the account its first attempt was bound to, whatever logins,
\* crashes and recoveries came between the attempts, or else its provider is quarantined.
AccountKept ==
    \A r \in Requests :
        rpc[r] = "running" =>
            \/ cred[binding[r].provider] = binding[r].account
            \/ binding[r].provider \in quarantined

\* Once reported, the end of a login never changes, not by a late answer of the provider
\* nor by the next start, and one reported as given up has not replaced the account.
EndIsFinal ==
    [][\A o \in Logins :
         /\ row[o] \in Over => row'[o] = row[o]
         /\ row[o] \in Over => ~(opc[o] \notin Commits /\ opc'[o] \in Commits)]_vars

\* Nobody waits at the gate for ever: neither requests that find an account being replaced,
\* nor logins that wait for the requests under way.
WaitersProceed ==
    /\ \A r \in Requests : (rpc[r] = "waiting") ~> (rpc[r] # "waiting")
    /\ \A o \in Logins : (opc[o] \in {"joining", "draining"}) ~> (opc[o] \notin {"joining", "draining"})

\* No request runs on a provider whose account is in doubt (spec.md:61 and :94).
UncertainIsolated ==
    \A r \in Requests : rpc[r] = "running" => binding[r].provider \notin quarantined
=============================================================================
