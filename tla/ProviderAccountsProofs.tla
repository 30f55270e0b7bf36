----------------------- MODULE ProviderAccountsProofs -----------------------
(***************************************************************************)
(* Theorems about ProviderAccounts for every value of its constants: any   *)
(* number of requests, logins, providers and restarts.                     *)
(***************************************************************************)
EXTENDS ProviderAccounts, TLAPS

-----------------------------------------------------------------------------
(* The inductive invariant.                                                 *)

Underway == {"preparing", "joining", "draining"}
Blocking == {"draining", "committing", "committed", "refreshing"}
Admitted(r) == rpc[r] \in {"entered", "running"}

\* Who was admitted is counted at the gate.
GateOK == \A r \in Requests : Admitted(r) => r \in holders[chosen[r]]

\* A provider is blocked by one login, and nobody is admitted to it while its account is
\* replaced; after a commit that threw, nobody runs until the catch clause.
BlockOK ==
    /\ \A o \in Logins : opc[o] \in Blocking => provider[o] \in blocked
    /\ \A o, x \in Logins :
           opc[o] \in Blocking /\ opc[x] \in Blocking /\ provider[o] = provider[x] => o = x
    /\ \A o \in Logins, r \in Requests :
           opc[o] \in Commits /\ Admitted(r) => chosen[r] # provider[o]
    /\ \A o \in Logins, r \in Requests :
           opc[o] = "thrown" /\ rpc[r] = "running" => chosen[r] # provider[o]

\* Rows follow the logins in memory; a commit left unfinished has quarantined its provider.
RowOK ==
    \A o \in Logins :
        /\ row[o] = "none" => opc[o] = "none"
        /\ view[o] \in Cancellable => row[o] = view[o]
        /\ opc[o] \in Underway /\ o \notin aborted => view[o] \in Cancellable
        /\ opc[o] \in {"committing", "committed"} => row[o] = "COMMITTING"
        /\ row[o] = "COMMITTING" /\ Alive =>
               \/ opc[o] \in {"committing", "committed", "thrown"}
               \/ opc[o] = "done" /\ provider[o] \in quarantined

\* No binding is ahead of its account's revision; one of the current revision has the
\* account in the file, or the file holds what a commit without an end has put there.
BindOK ==
    \A r \in Requests :
        /\ binding[r] # NotBound /\ rpc[r] # "idle" => binding[r].provider = chosen[r]
        /\ binding[r].rev <= credRev[binding[r].provider]
        /\ rpc[r] = "running" =>
               binding[r] # NotBound /\ binding[r].rev = credRev[binding[r].provider]
        /\ binding[r].rev = credRev[binding[r].provider] =>
               \/ cred[binding[r].provider] = binding[r].account
               \/ \E o \in Logins : /\ provider[o] = binding[r].provider
                                    /\ row[o] = "COMMITTING"
                                    /\ cred[provider[o]] = candidate[o]

\* Only a process that is up has requests and logins.
DownOK ==
    ~Alive => /\ \A r \in Requests : rpc[r] = "idle"
              /\ \A o \in Logins : opc[o] = "none" /\ view[o] = "none"

IInv == TypeOK /\ GateOK /\ BlockOK /\ RowOK /\ BindOK /\ DownOK

LEMMA StartTyped == Init => TypeOK
<1> USE ParticipantsAssumption
<1> SUFFICES ASSUME Init PROVE TypeOK
  OBVIOUS
<1>1. NotBound \in Bindings
  BY DEF NotBound, Bindings
<1>2. binding \in [Requests -> Bindings]
  BY <1>1 DEF Init
<1> QED  BY <1>2 DEF Init, TypeOK, RowStatus, Over, Cancellable, Unseen

LEMMA Initially == Init => IInv
<1> SUFFICES ASSUME Init PROVE IInv
  OBVIOUS
<1>1. TypeOK
  BY StartTyped
<1>2. GateOK /\ BlockOK
  BY DEF Init, GateOK, BlockOK, Admitted, Blocking, Commits
<1>3. RowOK /\ DownOK
  BY DEF Init, RowOK, DownOK, Underway, Cancellable
<1>4. BindOK
  BY ParticipantsAssumption DEF Init, BindOK, NotBound
<1> QED  BY <1>1, <1>2, <1>3, <1>4 DEF IInv

-----------------------------------------------------------------------------
(* Requests.                                                                *)

\* What a step of a request leaves alone, and that it concerns one request only.
LoginsRest == UNCHANGED <<phase, blocked, quarantined, accountVars, rowVars, loginVars>>
Alone(r) ==
    /\ \A x \in Requests \ {r} : /\ rpc'[x] = rpc[x] /\ chosen'[x] = chosen[x]
                                 /\ binding'[x] = binding[x]
    /\ \A x \in Requests \ {r} : \A p \in Providers : x \in holders[p] => x \in holders'[p]

\* A step that binds nothing: a request asks, is admitted to a provider that nobody blocks,
\* waits or leaves.
Passes(r) ==
    /\ LoginsRest /\ Alone(r) /\ binding' = binding /\ Alive
    /\ chosen'[r] # chosen[r] => chosen'[r] = Choice(r)
    /\ rpc[r] = "idle" => chosen'[r] = Choice(r)
    /\ \/ rpc'[r] \in {"idle", "waiting"}
       \/ rpc'[r] = "entered" /\ chosen'[r] \notin blocked /\ r \in holders'[chosen'[r]]

LEMMA PassesPreserves == ASSUME IInv, NEW r \in Requests, Passes(r), TypeOK' PROVE IInv'
<1> USE DEF IInv, LoginsRest, Alone, accountVars, rowVars, loginVars
<1>1. GateOK'
  <2> SUFFICES ASSUME NEW x \in Requests, Admitted(x)' PROVE x \in holders'[chosen'[x]]
    BY DEF GateOK
  <2>1. CASE x = r
    BY <2>1 DEF Passes, Admitted
  <2>2. CASE x # r
    BY <2>2 DEF Passes, Admitted, GateOK, TypeOK
  <2> QED  BY <2>1, <2>2
<1>2. BlockOK'
  BY DEF Passes, BlockOK, Admitted, Blocking, Commits
<1>3. RowOK'
  BY DEF Passes, RowOK, Alive
<1>4. BindOK'
  BY DEF Passes, BindOK, Choice
<1>5. DownOK'
  BY DEF Passes, DownOK, Alive
<1> QED  BY <1>1, <1>2, <1>3, <1>4, <1>5

LEMMA EnterEffect ==
    ASSUME TypeOK, NEW r \in Requests, NEW p \in Providers, Enter(r, p)
    PROVE  /\ rpc' \in [Requests -> {"idle", "waiting", "entered", "running"}]
           /\ holders' \in [Providers -> SUBSET Requests]
           /\ asleep' \subseteq Requests \cup Logins
           /\ \A x \in Requests \ {r} : rpc'[x] = rpc[x]
           /\ \A x \in Requests, q \in Providers : x \in holders[q] => x \in holders'[q]
           /\ \/ rpc'[r] = "waiting"
              \/ rpc'[r] = "entered" /\ p \notin blocked /\ r \in holders'[p]
BY DEF Enter, TypeOK

LEMMA LeaveEffect ==
    ASSUME TypeOK, NEW r \in Requests, Leave(r)
    PROVE  /\ rpc' \in [Requests -> {"idle", "waiting", "entered", "running"}]
           /\ holders' \in [Providers -> SUBSET Requests]
           /\ asleep' \subseteq Requests \cup Logins
           /\ rpc'[r] = "idle"
           /\ \A x \in Requests \ {r} : rpc'[x] = rpc[x]
           /\ \A x \in Requests \ {r} : \A q \in Providers : x \in holders[q] => x \in holders'[q]
BY DEF Leave, TypeOK

LEMMA ChoiceType == ASSUME TypeOK, NEW r \in Requests PROVE Choice(r) \in Providers
BY DEF TypeOK, Choice, Bindings

LEMMA BeginPreserves == ASSUME IInv, NEW r \in Requests, Begin(r) PROVE IInv'
<1>1. /\ phase = "up" /\ rpc[r] = "idle" /\ Enter(r, Choice(r))
      /\ attempts' \in [Requests -> Nat] /\ chosen' = [chosen EXCEPT ![r] = Choice(r)]
      /\ UNCHANGED <<phase, blocked, quarantined, binding, accountVars, rowVars, loginVars,
                     choiceVars, restarts>>
  BY DEF Begin, IInv, TypeOK
<1>2. TypeOK'
  BY <1>1, EnterEffect, ChoiceType DEF IInv, TypeOK, accountVars, rowVars, loginVars, choiceVars
<1>3. Passes(r)
  BY <1>1, EnterEffect, ChoiceType DEF IInv, TypeOK, Passes, LoginsRest, Alone, Alive
<1> QED  BY <1>2, <1>3, PassesPreserves

LEMMA ResumePreserves == ASSUME IInv, NEW r \in Requests, Resume(r) PROVE IInv'
<1>1. /\ Alive /\ rpc[r] = "waiting"
      /\ \/ Enter(r, chosen[r])
         \/ rpc' = [rpc EXCEPT ![r] = "idle"] /\ UNCHANGED <<holders, asleep>>
      /\ UNCHANGED <<phase, blocked, quarantined, chosen, attempts, binding, accountVars, rowVars,
                     loginVars, choiceVars, restarts>>
  BY DEF Resume
<1>2. /\ rpc' \in [Requests -> {"idle", "waiting", "entered", "running"}]
      /\ holders' \in [Providers -> SUBSET Requests]
      /\ asleep' \subseteq Requests \cup Logins
      /\ \A x \in Requests \ {r} : rpc'[x] = rpc[x]
      /\ \A x \in Requests, q \in Providers : x \in holders[q] => x \in holders'[q]
      /\ \/ rpc'[r] \in {"idle", "waiting"}
         \/ rpc'[r] = "entered" /\ chosen[r] \notin blocked /\ r \in holders'[chosen[r]]
  <2>1. chosen[r] \in Providers
    BY DEF IInv, TypeOK
  <2>2. CASE Enter(r, chosen[r])
    BY <2>1, <2>2, EnterEffect DEF IInv
  <2>3. CASE rpc' = [rpc EXCEPT ![r] = "idle"] /\ UNCHANGED <<holders, asleep>>
    BY <2>3 DEF IInv, TypeOK
  <2> QED  BY <1>1, <2>2, <2>3
<1>3. TypeOK'
  BY <1>1, <1>2 DEF IInv, TypeOK, accountVars, rowVars, loginVars, choiceVars
<1>4. Passes(r)
  BY <1>1, <1>2 DEF Passes, LoginsRest, Alone
<1> QED  BY <1>3, <1>4, PassesPreserves

LEMMA GiveUpPreserves == ASSUME IInv, NEW r \in Requests, GiveUp(r) PROVE IInv'
<1>1. /\ Alive /\ rpc[r] = "waiting"
      /\ rpc' = [rpc EXCEPT ![r] = "idle"] /\ asleep' = asleep \ {r}
      /\ UNCHANGED <<phase, holders, blocked, quarantined, chosen, attempts, binding, accountVars,
                     rowVars, loginVars, choiceVars, restarts>>
  BY DEF GiveUp
<1>2. TypeOK'
  BY <1>1 DEF IInv, TypeOK, accountVars, rowVars, loginVars, choiceVars
<1>3. Passes(r)
  BY <1>1 DEF IInv, TypeOK, Passes, LoginsRest, Alone
<1> QED  BY <1>2, <1>3, PassesPreserves

LEMMA FinishPreserves == ASSUME IInv, NEW r \in Requests, Finish(r) PROVE IInv'
<1>1. /\ Alive /\ rpc[r] = "running" /\ Leave(r)
      /\ UNCHANGED <<phase, blocked, quarantined, chosen, attempts, binding, accountVars, rowVars,
                     loginVars, choiceVars, restarts>>
  BY DEF Finish
<1>2. TypeOK'
  BY <1>1, LeaveEffect DEF IInv, TypeOK, accountVars, rowVars, loginVars, choiceVars
<1>3. Passes(r)
  BY <1>1, LeaveEffect DEF IInv, Passes, LoginsRest, Alone
<1> QED  BY <1>2, <1>3, PassesPreserves

LEMMA BindPreserves == ASSUME IInv, NEW r \in Requests, Bind(r) PROVE IInv'
<1> USE DEF IInv
<1>1. /\ Alive /\ rpc[r] = "entered" /\ \A o \in Logins : opc[o] # "thrown"
      /\ binding' = [binding EXCEPT ![r] = Bound(r)]
      /\ UNCHANGED <<phase, blocked, quarantined, chosen, attempts, accountVars, rowVars,
                     loginVars, choiceVars, restarts>>
  BY DEF Bind
<1>2. /\ Bound(r) \in Bindings /\ Bound(r) # NotBound
      /\ Bound(r).provider = chosen[r] /\ Bound(r).rev <= credRev[Bound(r).provider]
      /\ binding[r] # NotBound => Bound(r) = binding[r]
      /\ binding[r] = NotBound => /\ Bound(r).rev = credRev[chosen[r]]
                                  /\ Bound(r).account = cred[chosen[r]]
  BY <1>1 DEF TypeOK, BindOK, Bound, Bindings, NotBound
<1>3. /\ rpc' \in [Requests -> {"idle", "waiting", "entered", "running"}]
      /\ holders' \in [Providers -> SUBSET Requests]
      /\ asleep' \subseteq Requests \cup Logins
      /\ \A x \in Requests \ {r} : rpc'[x] = rpc[x]
      /\ \A x \in Requests \ {r} : \A q \in Providers : x \in holders[q] => x \in holders'[q]
      /\ \/ rpc'[r] = "idle"
         \/ rpc'[r] = "running" /\ holders' = holders /\ Bound(r).rev = credRev[Bound(r).provider]
  <2>1. CASE Leave(r)
    BY <2>1, LeaveEffect
  <2>2. CASE /\ rpc' = [rpc EXCEPT ![r] = "running"] /\ UNCHANGED <<holders, asleep>>
             /\ Bound(r).rev = credRev[Bound(r).provider]
    BY <2>2 DEF TypeOK
  <2> QED  BY <2>1, <2>2 DEF Bind
<1> HIDE DEF IInv
<1> USE DEF IInv, accountVars, rowVars, loginVars, choiceVars
<1>4. TypeOK'
  BY <1>1, <1>2, <1>3 DEF TypeOK
<1>5. GateOK'
  <2> SUFFICES ASSUME NEW x \in Requests, Admitted(x)' PROVE x \in holders'[chosen'[x]]
    BY DEF GateOK
  <2> QED  BY <1>1, <1>3 DEF GateOK, Admitted, TypeOK
<1>6. BlockOK'
  BY <1>1, <1>3 DEF BlockOK, Admitted, Blocking, Commits
<1>7. RowOK'
  BY <1>1 DEF RowOK, Alive
<1>8. BindOK'
  <2> SUFFICES ASSUME NEW x \in Requests
               PROVE  BindOK!(x)'
    BY DEF BindOK
  <2>1. CASE x # r
    BY <2>1, <1>1, <1>3 DEF BindOK, TypeOK
  <2>2. CASE x = r
    <3>1. binding'[r] = Bound(r)
      BY <1>1 DEF TypeOK
    <3> QED  BY <2>2, <3>1, <1>1, <1>2, <1>3 DEF BindOK
  <2> QED  BY <2>1, <2>2
<1>9. DownOK'
  BY <1>1 DEF DownOK, Alive
<1> QED  BY <1>4, <1>5, <1>6, <1>7, <1>8, <1>9

LEMMA RequestPreserves == ASSUME IInv, NEW r \in Requests, RequestStep(r) PROVE IInv'
BY BeginPreserves, ResumePreserves, GiveUpPreserves, BindPreserves, FinishPreserves DEF RequestStep

-----------------------------------------------------------------------------
(* Logins.                                                                  *)

RequestsRest == UNCHANGED <<phase, holders, requestVars, accountVars, choiceVars, restarts>>
OthersRest(o) ==
    \A x \in Logins \ {o} : /\ row'[x] = row[x] /\ view'[x] = view[x] /\ opc'[x] = opc[x]
                            /\ candidate'[x] = candidate[x]

Unwinds(o) ==
    /\ opc'[o] = "done" /\ row'[o] = row[o] /\ view'[o] = view[o] /\ candidate'[o] = candidate[o]
    /\ blocked' = blocked \/ (opc[o] = "draining" /\ blocked' = blocked \ {provider[o]})
Gives(o) ==
    /\ opc'[o] = "done" /\ row'[o] = "FAILED" /\ view'[o] = "FAILED"
    /\ blocked' = blocked \/ (opc[o] = "draining" /\ blocked' = blocked \ {provider[o]})
Waits(o) ==
    /\ row'[o] = "WAITING_IDLE" /\ view'[o] = "WAITING_IDLE"
    /\ opc'[o] = "joining" /\ blocked' = blocked /\ opc[o] # "draining"
Takes(o) ==
    /\ provider[o] \notin blocked \/ opc[o] = "draining"
    /\ blocked' = blocked \cup {provider[o]}
    /\ \/ /\ opc'[o] = "draining" /\ row'[o] = "WAITING_IDLE" /\ view'[o] = "WAITING_IDLE"
       \/ /\ opc'[o] = "committing" /\ row'[o] = "COMMITTING" /\ view'[o] = "COMMITTING"
          /\ holders[provider[o]] = {}

\* A login moves on towards its commit, or ends.
Advances(o) ==
    /\ Alive /\ opc[o] \in Underway
    /\ RequestsRest /\ OthersRest(o) /\ UNCHANGED <<quarantined, provider, aborted>>
    /\ Unwinds(o) \/ (o \notin aborted /\ (Gives(o) \/ Waits(o) \/ Takes(o)))

LEMMA StatusEffect ==
    ASSUME TypeOK, NEW o \in Logins, NEW s \in RowStatus, SetStatus(o, s)
    PROVE  /\ row' \in [Logins -> RowStatus] /\ view' \in [Logins -> RowStatus]
           /\ row'[o] = s /\ view'[o] = s
           /\ \A x \in Logins \ {o} : row'[x] = row[x] /\ view'[x] = view[x]
BY DEF SetStatus, TypeOK

LoginTypes ==
    /\ row' \in [Logins -> RowStatus] /\ view' \in [Logins -> RowStatus]
    /\ candidate' \in [Logins -> Accounts]
    /\ opc' \in [Logins -> {"none", "preparing", "joining", "draining", "committing",
                            "committed", "refreshing", "thrown", "done"}]
    /\ asleep' \subseteq Requests \cup Logins /\ blocked' \subseteq Providers

LEMMA DrainEffect ==
    ASSUME TypeOK, NEW o \in Logins, Drain(o), provider[o] \notin blocked \/ opc[o] = "draining"
    PROVE  LoginTypes /\ OthersRest(o) /\ Takes(o)
<1>1. blocked' \subseteq Providers /\ blocked' = blocked \cup {provider[o]}
  BY DEF Drain, TypeOK
<1>2. CASE holders[provider[o]] = {}
  <2>1. /\ SetStatus(o, "COMMITTING") /\ asleep' = asleep
        /\ opc' = [opc EXCEPT ![o] = "committing"]
        /\ \E a \in Accounts : candidate' = [candidate EXCEPT ![o] = a]
    BY <1>2 DEF Drain
  <2>2. "COMMITTING" \in RowStatus
    BY DEF RowStatus
  <2> QED  BY <1>1, <1>2, <2>1, <2>2, StatusEffect DEF TypeOK, LoginTypes, OthersRest, Takes
<1>3. CASE holders[provider[o]] # {}
  <2>1. /\ SetStatus(o, "WAITING_IDLE") /\ asleep' = asleep \cup {o}
        /\ opc' = [opc EXCEPT ![o] = "draining"] /\ candidate' = candidate
    BY <1>3 DEF Drain
  <2>2. "WAITING_IDLE" \in RowStatus
    BY DEF RowStatus, Cancellable
  <2> QED  BY <1>1, <2>1, <2>2, StatusEffect DEF TypeOK, LoginTypes, OthersRest, Takes
<1> QED  BY <1>2, <1>3

LEMMA ExcludeEffect ==
    ASSUME TypeOK, NEW o \in Logins, Exclude(o), opc[o] \in {"preparing", "joining"}
    PROVE  LoginTypes /\ OthersRest(o) /\ (Gives(o) \/ Waits(o) \/ Takes(o))
<1>1. CASE provider[o] \in quarantined
  <2>1. /\ SetStatus(o, "FAILED") /\ opc' = [opc EXCEPT ![o] = "done"]
        /\ UNCHANGED <<blocked, asleep, candidate>>
    BY <1>1 DEF Exclude
  <2>2. "FAILED" \in RowStatus
    BY DEF RowStatus, Over
  <2> QED  BY <2>1, <2>2, StatusEffect DEF TypeOK, LoginTypes, OthersRest, Gives
<1>2. CASE provider[o] \notin quarantined /\ provider[o] \in blocked
  <2>1. /\ SetStatus(o, "WAITING_IDLE") /\ opc' = [opc EXCEPT ![o] = "joining"]
        /\ asleep' = asleep \cup {o} /\ UNCHANGED <<blocked, candidate>>
    BY <1>2 DEF Exclude
  <2>2. "WAITING_IDLE" \in RowStatus
    BY DEF RowStatus, Cancellable
  <2> QED  BY <2>1, <2>2, StatusEffect DEF TypeOK, LoginTypes, OthersRest, Waits
<1>3. CASE provider[o] \notin quarantined /\ provider[o] \notin blocked
  BY <1>3, DrainEffect DEF Exclude
<1> QED  BY <1>1, <1>2, <1>3

LEMMA UnwindEffect ==
    ASSUME TypeOK, NEW o \in Logins, Unwind(o)
    PROVE  LoginTypes /\ OthersRest(o) /\ Unwinds(o)
BY DEF Unwind, TypeOK, LoginTypes, OthersRest, Unwinds

LEMMA FailEffect ==
    ASSUME TypeOK, NEW o \in Logins, Fail(o)
    PROVE  LoginTypes /\ OthersRest(o) /\ Gives(o)
<1>1. "FAILED" \in RowStatus
  BY DEF RowStatus, Over
<1> QED  BY <1>1, StatusEffect DEF Fail, TypeOK, LoginTypes, OthersRest, Gives

LEMMA LoginTyped ==
    ASSUME TypeOK, LoginTypes, RequestsRest, provider' = provider, quarantined' = quarantined,
           aborted' = aborted
    PROVE  TypeOK'
BY DEF TypeOK, LoginTypes, RequestsRest, requestVars, accountVars, choiceVars

LEMMA PreparedAdvances == ASSUME TypeOK, NEW o \in Logins, Prepared(o) PROVE LoginTypes /\ Advances(o)
<1>1. /\ Alive /\ opc[o] = "preparing"
      /\ RequestsRest /\ UNCHANGED <<quarantined, provider, aborted>>
      /\ \/ o \in aborted /\ Unwind(o)
         \/ o \notin aborted /\ (Exclude(o) \/ Fail(o))
  BY DEF Prepared, AfterPrepare, RequestsRest
<1> QED  BY <1>1, ExcludeEffect, FailEffect, UnwindEffect DEF Advances, Underway

LEMMA RejoinAdvances == ASSUME TypeOK, NEW o \in Logins, Rejoin(o) PROVE LoginTypes /\ Advances(o)
<1>1. /\ Alive /\ opc[o] = "joining"
      /\ RequestsRest /\ UNCHANGED <<quarantined, provider, aborted>>
      /\ \/ o \in aborted /\ Unwind(o)
         \/ o \notin aborted /\ Exclude(o)
  BY DEF Rejoin, RequestsRest
<1> QED  BY <1>1, ExcludeEffect, UnwindEffect DEF Advances, Underway

LEMMA RedrainAdvances == ASSUME TypeOK, NEW o \in Logins, Redrain(o) PROVE LoginTypes /\ Advances(o)
<1>1. /\ Alive /\ opc[o] = "draining"
      /\ RequestsRest /\ UNCHANGED <<quarantined, provider, aborted>>
  BY DEF Redrain, RequestsRest
<1>2. \/ o \notin aborted /\ Drain(o)
      \/ /\ o \in aborted /\ Unblock(o) /\ opc' = [opc EXCEPT ![o] = "done"]
         /\ UNCHANGED <<row, view, candidate>>
      \/ /\ o \notin aborted /\ Unblock(o) /\ SetStatus(o, "FAILED")
         /\ opc' = [opc EXCEPT ![o] = "done"] /\ candidate' = candidate
  BY DEF Redrain
<1>3. CASE o \notin aborted /\ Drain(o)
  BY <1>1, <1>3, DrainEffect DEF Advances, Underway
<1>4. CASE /\ o \in aborted /\ Unblock(o) /\ opc' = [opc EXCEPT ![o] = "done"]
           /\ UNCHANGED <<row, view, candidate>>
  <2>1. LoginTypes /\ OthersRest(o) /\ Unwinds(o)
    BY <1>1, <1>4 DEF TypeOK, Unblock, LoginTypes, OthersRest, Unwinds
  <2> QED  BY <1>1, <2>1 DEF Advances, Underway
<1>5. CASE /\ o \notin aborted /\ Unblock(o) /\ SetStatus(o, "FAILED")
           /\ opc' = [opc EXCEPT ![o] = "done"] /\ candidate' = candidate
  <2>1. "FAILED" \in RowStatus
    BY DEF RowStatus, Over
  <2>2. LoginTypes /\ OthersRest(o) /\ Gives(o)
    BY <1>1, <1>5, <2>1, StatusEffect DEF TypeOK, Unblock, LoginTypes, OthersRest, Gives
  <2> QED  BY <1>1, <1>5, <2>2 DEF Advances, Underway
<1> QED  BY <1>2, <1>3, <1>4, <1>5

LEMMA AdvancePreserves ==
    ASSUME IInv, NEW o \in Logins, LoginTypes, Advances(o)
    PROVE  IInv'
<1> USE DEF IInv, RequestsRest, requestVars, accountVars
<1>1. TypeOK'
  BY LoginTyped DEF Advances
<1>2. GateOK'
  BY DEF Advances, GateOK, Admitted
<1>3. BlockOK'
  <2>1. \A x \in Logins : opc'[x] \in Blocking => provider'[x] \in blocked'
    BY DEF Advances, OthersRest, Unwinds, Gives, Waits, Takes, BlockOK, Blocking, TypeOK, Underway
  <2>2. \A x, y \in Logins : opc'[x] \in Blocking /\ opc'[y] \in Blocking
                                 /\ provider'[x] = provider'[y] => x = y
    BY DEF Advances, OthersRest, Unwinds, Gives, Waits, Takes, BlockOK, Blocking
  <2>3. \A x \in Logins, r \in Requests : opc'[x] \in Commits /\ Admitted(r)' => chosen'[r] # provider'[x]
    <3> SUFFICES ASSUME NEW x \in Logins, NEW r \in Requests, opc'[x] \in Commits, Admitted(r)'
                 PROVE  chosen'[r] # provider'[x]
      OBVIOUS
    <3>1. Admitted(r) /\ chosen' = chosen /\ provider' = provider /\ holders' = holders
      BY DEF Advances, Admitted
    <3>2. CASE x # o
      BY <3>1, <3>2 DEF Advances, OthersRest, BlockOK
    <3>3. CASE x = o
      <4>1. holders[provider[o]] = {}
        BY <3>3 DEF Advances, Unwinds, Gives, Waits, Takes, Commits
      <4> QED  BY <3>1, <3>3, <4>1 DEF GateOK
    <3> QED  BY <3>2, <3>3
  <2>4. \A x \in Logins, r \in Requests : opc'[x] = "thrown" /\ rpc'[r] = "running" => chosen'[r] # provider'[x]
    BY DEF Advances, OthersRest, Unwinds, Gives, Waits, Takes, BlockOK
  <2> QED  BY <2>1, <2>2, <2>3, <2>4 DEF BlockOK
<1>4. RowOK'
  <2> SUFFICES ASSUME NEW x \in Logins PROVE RowOK!(x)'
    BY DEF RowOK
  <2>1. CASE x # o
    BY <2>1 DEF Advances, OthersRest, RowOK, Alive
  <2>2. CASE x = o
    BY <2>2 DEF Advances, Unwinds, Gives, Waits, Takes, RowOK, Alive, Underway, Cancellable
  <2> QED  BY <2>1, <2>2
<1>5. BindOK'
  <2>1. row[o] # "COMMITTING"
    BY DEF Advances, RowOK, Underway
  <2>2. \A x \in Logins : row[x] = "COMMITTING" =>
            row'[x] = "COMMITTING" /\ candidate'[x] = candidate[x]
    BY <2>1 DEF Advances, OthersRest
  <2>3. UNCHANGED <<binding, rpc, chosen, cred, credRev, provider>>
    BY DEF Advances
  <2> HIDE DEF IInv
  <2>4. BindOK
    BY DEF IInv
  <2> QED  BY <2>2, <2>3, <2>4 DEF BindOK
<1>6. DownOK'
  BY DEF Advances, DownOK, Alive
<1> QED  BY <1>1, <1>2, <1>3, <1>4, <1>5, <1>6

\* A login's view, row and place change outside the gate; no commit is begun or ended.
Turns(o) ==
    /\ UNCHANGED <<phase, holders, blocked, quarantined, requestVars, accountVars, candidate,
                   choiceVars>>
    /\ Alive /\ row[o] # "COMMITTING" /\ row'[o] \notin {"none", "COMMITTING"}
    /\ \A x \in Logins \ {o} : /\ row'[x] = row[x] /\ view'[x] = view[x] /\ opc'[x] = opc[x]
                               /\ provider'[x] = provider[x] /\ (x \in aborted => x \in aborted')
    /\ \/ provider'[o] = provider[o]
       \/ opc'[o] = "none"
    /\ \/ opc'[o] = opc[o]
       \/ opc'[o] = "preparing"
    /\ view'[o] \in Cancellable => row'[o] = view'[o]
    /\ opc'[o] \in Underway /\ o \notin aborted' => view'[o] \in Cancellable

LEMMA TurnsPreserves == ASSUME IInv, NEW o \in Logins, Turns(o), TypeOK' PROVE IInv'
<1> USE DEF IInv, requestVars, accountVars
<1>1. GateOK'
  BY DEF Turns, GateOK, Admitted
<1>2. BlockOK'
  <2>1. \A x \in Logins : opc'[x] \in Blocking \/ opc'[x] = "thrown" =>
            opc'[x] = opc[x] /\ provider'[x] = provider[x]
    BY DEF Turns, Blocking
  <2>2. UNCHANGED <<rpc, chosen, blocked>>
    BY DEF Turns
  <2>3. BlockOK
    OBVIOUS
  <2> HIDE DEF IInv
  <2> QED  BY <2>1, <2>2, <2>3 DEF BlockOK, Admitted, Blocking, Commits
<1>3. RowOK'
  <2> SUFFICES ASSUME NEW x \in Logins PROVE RowOK!(x)'
    BY DEF RowOK
  <2>1. CASE x # o
    BY <2>1 DEF Turns, RowOK, Alive
  <2>2. CASE x = o
    BY <2>2 DEF Turns, RowOK, Alive, Cancellable
  <2> QED  BY <2>1, <2>2
<1>4. BindOK'
  <2>1. \A x \in Logins : row[x] = "COMMITTING" =>
            row'[x] = "COMMITTING" /\ provider'[x] = provider[x] /\ candidate'[x] = candidate[x]
    BY DEF Turns
  <2>2. UNCHANGED <<binding, rpc, chosen, cred, credRev>>
    BY DEF Turns
  <2>3. BindOK
    OBVIOUS
  <2> HIDE DEF IInv
  <2> QED  BY <2>1, <2>2, <2>3 DEF BindOK
<1>5. DownOK'
  BY DEF Turns, DownOK, Alive
<1> QED  BY <1>1, <1>2, <1>3, <1>4, <1>5

LEMMA StartPreserves ==
    ASSUME IInv, NEW o \in Logins, NEW p \in Providers, Start(o, p)
    PROVE  IInv' /\ row[o] = "none"
<1>1. /\ phase = "up" /\ row[o] = "none" /\ SetStatus(o, "WAITING_LOCAL")
      /\ provider' = [provider EXCEPT ![o] = p]
      /\ UNCHANGED <<phase, gateVars, requestVars, accountVars, candidate, opc, aborted,
                     choiceVars, restarts>>
  BY DEF Start
<1>2. "WAITING_LOCAL" \in RowStatus
  BY DEF RowStatus, Cancellable
<1>3. TypeOK'
  BY <1>1, <1>2, StatusEffect DEF IInv, TypeOK, gateVars, requestVars, accountVars, choiceVars
<1>4. opc[o] = "none"
  BY <1>1 DEF IInv, RowOK
<1>5. Turns(o)
  BY <1>1, <1>2, <1>4, StatusEffect DEF IInv, TypeOK, Turns, Alive, Underway, gateVars
<1> QED  BY <1>1, <1>3, <1>5, TurnsPreserves

LEMMA BeginLoginPreserves ==
    ASSUME IInv, NEW o \in Logins, BeginLogin(o)
    PROVE  IInv' /\ row[o] \in Cancellable
<1>1. /\ phase = "up" /\ view[o] = "WAITING_LOCAL" /\ SetStatus(o, "AUTHENTICATING")
      /\ opc' = [opc EXCEPT ![o] = "preparing"]
      /\ UNCHANGED <<phase, gateVars, requestVars, accountVars, candidate, provider, aborted,
                     choiceVars, restarts>>
  BY DEF BeginLogin
<1>2. "AUTHENTICATING" \in RowStatus /\ "AUTHENTICATING" \in Cancellable
  BY DEF RowStatus, Cancellable
<1>3. TypeOK'
  BY <1>1, <1>2, StatusEffect DEF IInv, TypeOK, gateVars, requestVars, accountVars, choiceVars
<1>4. row[o] = "WAITING_LOCAL"
  BY <1>1 DEF IInv, RowOK, Cancellable
<1>5. Turns(o)
  BY <1>1, <1>2, <1>4, StatusEffect DEF IInv, TypeOK, Turns, Alive, gateVars
<1> QED  BY <1>3, <1>4, <1>5, TurnsPreserves DEF Cancellable

LEMMA CancelPreserves ==
    ASSUME IInv, NEW o \in Logins, Cancel(o)
    PROVE  IInv' /\ row[o] \in Cancellable
<1>1. PICK s \in {"CANCELLED", "EXPIRED"} : SetStatus(o, s)
  BY DEF Cancel
<1>2. /\ phase = "up" /\ view[o] \in Cancellable
      /\ aborted' = aborted \cup {o} /\ asleep' = asleep \ {o}
      /\ UNCHANGED <<phase, holders, blocked, quarantined, requestVars, accountVars, candidate,
                     provider, opc, choiceVars, restarts>>
  BY DEF Cancel
<1>3. s \in RowStatus /\ s \notin Cancellable \cup {"none", "COMMITTING"}
  BY DEF RowStatus, Over, Cancellable
<1>4. TypeOK'
  BY <1>1, <1>2, <1>3, StatusEffect DEF IInv, TypeOK, requestVars, accountVars, choiceVars
<1>5. row[o] \in Cancellable
  BY <1>2 DEF IInv, RowOK
<1>6. Turns(o)
  BY <1>1, <1>2, <1>3, <1>5, StatusEffect DEF IInv, TypeOK, Turns, Alive, Cancellable
<1> QED  BY <1>4, <1>5, <1>6, TurnsPreserves

-----------------------------------------------------------------------------
(* The commit.                                                              *)

LEMMA CommitFilePreserves == ASSUME IInv, NEW o \in Logins, CommitFile(o) PROVE IInv'
<1> USE DEF IInv, gateVars, requestVars, rowVars, choiceVars
<1>1. /\ Alive /\ opc[o] = "committing"
      /\ cred' = [cred EXCEPT ![provider[o]] = candidate[o]]
      /\ opc' = [opc EXCEPT ![o] = "committed"]
      /\ UNCHANGED <<phase, gateVars, requestVars, credRev, rowVars, view, aborted, choiceVars,
                     restarts>>
  BY DEF CommitFile
<1>2. TypeOK'
  BY <1>1 DEF TypeOK
<1>3. GateOK'
  BY <1>1 DEF GateOK, Admitted
<1>4. BlockOK'
  BY <1>1 DEF BlockOK, Admitted, Blocking, Commits, TypeOK
<1>5. RowOK'
  BY <1>1 DEF RowOK, Alive, Underway, TypeOK
<1>6. BindOK'
  <2> SUFFICES ASSUME NEW r \in Requests PROVE BindOK!(r)'
    BY DEF BindOK
  <2>1. binding[r].provider \in Providers
    BY DEF TypeOK, Bindings
  <2>2. UNCHANGED <<binding, rpc, chosen, credRev, row, provider, candidate>>
    BY <1>1
  <2>3. CASE binding[r].provider = provider[o]
    <3>1. row[o] = "COMMITTING" /\ cred'[provider[o]] = candidate[o]
      BY <1>1 DEF RowOK, TypeOK
    <3> QED  BY <2>2, <2>3, <3>1 DEF BindOK
  <2>4. CASE binding[r].provider # provider[o]
    <3>1. \A x \in Logins : provider[x] = binding[r].provider => cred'[provider[x]] = cred[provider[x]]
      BY <1>1, <2>4 DEF TypeOK
    <3>2. cred'[binding[r].provider] = cred[binding[r].provider]
      BY <1>1, <2>1, <2>4 DEF TypeOK
    <3> QED  BY <2>2, <3>1, <3>2 DEF BindOK
  <2> QED  BY <2>3, <2>4
<1>7. DownOK'
  BY <1>1 DEF DownOK, Alive
<1> QED  BY <1>2, <1>3, <1>4, <1>5, <1>6, <1>7

\* The end of a commit, by the login or by recovery: whatever was bound is outdated.
LEMMA FinishBindings ==
    ASSUME TypeOK, BindOK, NEW o \in Logins, FinishRow(o),
           \A r \in Requests : rpc[r] = "running" => chosen[r] # provider[o],
           UNCHANGED <<binding, rpc, chosen, cred, provider, candidate>>
    PROVE  BindOK' /\ row' \in [Logins -> RowStatus] /\ credRev' \in [Providers -> Nat]
<1>1. row' = [row EXCEPT ![o] = "SUCCEEDED"] /\ credRev' = [credRev EXCEPT ![provider[o]] = @ + 1]
  BY DEF FinishRow
<1>2. row' \in [Logins -> RowStatus] /\ credRev' \in [Providers -> Nat]
  BY <1>1 DEF TypeOK, RowStatus, Over
<1>3. ASSUME NEW r \in Requests PROVE BindOK!(r)'
  <2>1. binding[r].provider \in Providers /\ binding[r].rev \in Nat \cup {-1}
    BY DEF TypeOK, Bindings
  <2>2. CASE binding[r].provider = provider[o]
    <3>1. binding[r].rev < credRev'[binding[r].provider]
      BY <1>1, <2>1, <2>2 DEF TypeOK, BindOK
    <3>2. rpc[r] # "running"
      BY <2>2 DEF BindOK
    <3> QED  BY <1>2, <2>1, <3>1, <3>2 DEF BindOK
  <2>3. CASE binding[r].provider # provider[o]
    <3>1. credRev'[binding[r].provider] = credRev[binding[r].provider]
      BY <1>1, <2>1, <2>3 DEF TypeOK
    <3>2. \A x \in Logins : provider[x] = binding[r].provider => row'[x] = row[x]
      BY <1>1, <2>3 DEF TypeOK
    <3> QED  BY <3>1, <3>2 DEF BindOK
  <2> QED  BY <2>2, <2>3
<1> QED  BY <1>2, <1>3 DEF BindOK

LEMMA FinishCommitPreserves ==
    ASSUME IInv, NEW o \in Logins, FinishCommit(o)
    PROVE  IInv' /\ row[o] = "COMMITTING" /\ \A x \in Logins \ {o} : row'[x] = row[x]
<1> USE DEF IInv, gateVars, requestVars, choiceVars
<1>1. /\ Alive /\ opc[o] = "committed" /\ FinishRow(o)
      /\ opc' = [opc EXCEPT ![o] = "refreshing"]
      /\ UNCHANGED <<phase, gateVars, requestVars, cred, candidate, provider, view, aborted,
                     choiceVars, restarts>>
  BY DEF FinishCommit
<1>2. row[o] = "COMMITTING" /\ row'[o] = "SUCCEEDED" /\ \A x \in Logins \ {o} : row'[x] = row[x]
  BY <1>1 DEF RowOK, FinishRow, TypeOK
<1>3. \A r \in Requests : rpc[r] = "running" => chosen[r] # provider[o]
  BY <1>1 DEF BlockOK, Commits, Admitted
<1>4. BindOK' /\ row' \in [Logins -> RowStatus] /\ credRev' \in [Providers -> Nat]
  BY <1>1, <1>3, FinishBindings
<1>5. TypeOK'
  BY <1>1, <1>4 DEF TypeOK
<1>6. GateOK'
  BY <1>1 DEF GateOK, Admitted
<1>7. BlockOK'
  BY <1>1 DEF BlockOK, Admitted, Blocking, Commits, TypeOK
<1>8. view[o] \notin Cancellable
  BY <1>2 DEF RowOK, Cancellable
<1>9. RowOK'
  BY <1>1, <1>2, <1>8 DEF RowOK, Alive, Underway, TypeOK
<1>10. DownOK'
  BY <1>1 DEF DownOK, Alive
<1> QED  BY <1>2, <1>4, <1>5, <1>6, <1>7, <1>9, <1>10

\* A login gives its provider back: after the refresh, or because the commit threw.
LEMMA ReleasePreserves ==
    ASSUME IInv, NEW o \in Logins, Refreshed(o) \/ Throw(o)
    PROVE  IInv'
<1> USE DEF IInv, requestVars, accountVars, rowVars, choiceVars
<1>1. /\ Alive /\ opc[o] \in Commits /\ Unblock(o)
      /\ \/ opc[o] = "refreshing" /\ opc' = [opc EXCEPT ![o] = "done"]
            /\ view' = [view EXCEPT ![o] = "SUCCEEDED"]
         \/ opc' = [opc EXCEPT ![o] = "thrown"] /\ view' = view
      /\ UNCHANGED <<phase, holders, quarantined, requestVars, accountVars, rowVars, aborted,
                     choiceVars, restarts>>
  BY DEF Refreshed, Throw, Commits
<1>2. /\ opc'[o] \in {"done", "thrown"} /\ (opc'[o] = "done" => opc[o] = "refreshing")
      /\ \A x \in Logins \ {o} : opc'[x] = opc[x] /\ view'[x] = view[x]
      /\ view'[o] \in {view[o], "SUCCEEDED"}
  BY <1>1 DEF TypeOK
<1>3. TypeOK'
  <2>1. view' \in [Logins -> RowStatus]
    BY <1>1 DEF TypeOK, RowStatus, Over
  <2> QED  BY <1>1, <2>1 DEF TypeOK, Unblock
<1>4. GateOK'
  BY <1>1 DEF GateOK, Admitted
<1>5. BlockOK'
  <2>1. \A x \in Logins \ {o} : opc[x] \in Blocking => provider[x] # provider[o]
    BY <1>1 DEF BlockOK, Blocking, Commits
  <2>2. UNCHANGED <<rpc, chosen, provider>> /\ blocked' = blocked \ {provider[o]}
    BY <1>1 DEF Unblock
  <2>3. \A r \in Requests : rpc[r] = "running" => chosen[r] # provider[o]
    BY <1>1 DEF BlockOK, Admitted
  <2>4. BlockOK
    OBVIOUS
  <2> HIDE DEF IInv
  <2> QED  BY <1>2, <2>1, <2>2, <2>3, <2>4 DEF BlockOK, Admitted, Blocking, Commits
<1>6. RowOK'
  <2>1. opc[o] = "refreshing" => row[o] # "COMMITTING"
    BY <1>1 DEF RowOK
  <2> SUFFICES ASSUME NEW x \in Logins PROVE RowOK!(x)'
    BY DEF RowOK
  <2>2. CASE x = o
    BY <1>1, <1>2, <2>1, <2>2 DEF RowOK, Alive, Underway, Cancellable, Commits
  <2>3. CASE x # o
    BY <1>1, <1>2, <2>3 DEF RowOK, Alive
  <2> QED  BY <2>2, <2>3
<1>7. BindOK'
  BY <1>1 DEF BindOK
<1>8. DownOK'
  BY <1>1 DEF DownOK, Alive
<1> QED  BY <1>3, <1>4, <1>5, <1>6, <1>7, <1>8

LEMMA CatchPreserves == ASSUME IInv, NEW o \in Logins, Catch(o) PROVE IInv'
<1> USE DEF IInv, requestVars, accountVars, rowVars, choiceVars
<1>1. /\ Alive /\ opc[o] = "thrown"
      /\ opc' = [opc EXCEPT ![o] = "done"]
      /\ quarantined' = quarantined \cup {provider[o]} /\ asleep' = {}
      /\ UNCHANGED <<phase, holders, blocked, requestVars, accountVars, rowVars, view, aborted,
                     choiceVars, restarts>>
  BY DEF Catch
<1>2. TypeOK'
  BY <1>1 DEF TypeOK
<1>3. GateOK' /\ BindOK'
  BY <1>1 DEF GateOK, Admitted, BindOK
<1>4. BlockOK'
  BY <1>1 DEF BlockOK, Admitted, Blocking, Commits, TypeOK
<1>5. RowOK'
  BY <1>1 DEF RowOK, Alive, Underway, TypeOK
<1>6. DownOK'
  BY <1>1 DEF DownOK, Alive
<1> QED  BY <1>2, <1>3, <1>4, <1>5, <1>6

LEMMA CommitPreserves == ASSUME IInv, NEW o \in Logins, Commit(o) PROVE IInv'
BY CommitFilePreserves, FinishCommitPreserves, ReleasePreserves, CatchPreserves DEF Commit

-----------------------------------------------------------------------------
(* The selection and the process.                                           *)

LEMMA SelectionPreserves ==
    ASSUME IInv, NEW c \in Choosers, Look(c) \/ (\E p \in Providers : Choose(c, p))
    PROVE  IInv' /\ row' = row
<1> USE DEF IInv, gateVars, requestVars, accountVars, rowVars, loginVars
<1>1. /\ selected' \in Providers /\ selRev' \in Nat /\ seen' \in [Choosers -> Nat \cup {Unseen}]
      /\ UNCHANGED <<phase, gateVars, requestVars, accountVars, rowVars, loginVars, restarts>>
  BY DEF Look, Choose, TypeOK
<1>2. TypeOK'
  BY <1>1 DEF TypeOK
<1>3. GateOK' /\ BlockOK' /\ RowOK' /\ BindOK' /\ DownOK'
  BY <1>1 DEF GateOK, Admitted, BlockOK, RowOK, BindOK, DownOK, Alive
<1> QED  BY <1>1, <1>2, <1>3

LEMMA ForgetPreserves ==
    ASSUME IInv, Forget, phase' = "down", restarts' \in Nat
    PROVE  IInv'
<1> USE DEF IInv, Forget, accountVars, rowVars
<1>1. TypeOK'
  BY DEF TypeOK, RowStatus, Unseen
<1>2. GateOK' /\ BlockOK' /\ DownOK'
  BY DEF GateOK, Admitted, BlockOK, Blocking, Commits, DownOK
<1>3. RowOK'
  BY DEF RowOK, Alive, Underway, Cancellable
<1>4. BindOK'
  BY DEF BindOK
<1> QED  BY <1>1, <1>2, <1>3, <1>4

LEMMA ClosePreserves ==
    ASSUME IInv, Close
    PROVE  IInv' /\ \A o \in Logins : row[o] \in Over => row'[o] = row[o]
<1> USE DEF IInv, requestVars, accountVars, choiceVars
<1> DEFINE ended == {o \in Logins : view[o] \in Cancellable}
<1>1. /\ phase = "up" /\ phase' = "closing" /\ restarts' = restarts + 1
      /\ row' = [o \in Logins |-> IF o \in ended THEN "CANCELLED" ELSE row[o]]
      /\ view' = [o \in Logins |-> IF o \in ended THEN "CANCELLED" ELSE view[o]]
      /\ aborted' = aborted \cup ended /\ asleep' = asleep \ ended
      /\ UNCHANGED <<holders, blocked, quarantined, requestVars, accountVars, candidate, provider,
                     opc, choiceVars>>
  BY DEF Close
<1>2. ended \subseteq Logins /\ \A o \in Logins : o \in ended <=> view[o] \in Cancellable
  OBVIOUS
<1> HIDE DEF ended
<1>3. TypeOK'
  <2>1. row' \in [Logins -> RowStatus] /\ view' \in [Logins -> RowStatus]
    BY <1>1 DEF TypeOK, RowStatus, Over
  <2> QED  BY <1>1, <1>2, <2>1 DEF TypeOK
<1>4. GateOK' /\ BlockOK'
  BY <1>1 DEF GateOK, Admitted, BlockOK
<1>5. \A o \in ended : row[o] \in Cancellable
  BY <1>2 DEF RowOK
<1>6. RowOK'
  <2> SUFFICES ASSUME NEW o \in Logins PROVE RowOK!(o)'
    BY DEF RowOK
  <2> QED  BY <1>1, <1>2, <1>5 DEF RowOK, Alive, Cancellable
<1>7. BindOK'
  <2>1. \A o \in Logins : row[o] = "COMMITTING" => row'[o] = "COMMITTING"
    BY <1>1, <1>5 DEF Cancellable
  <2> QED  BY <1>1, <2>1 DEF BindOK
<1>8. DownOK'
  BY <1>1 DEF DownOK, Alive
<1>9. \A o \in Logins : row[o] \in Over => row'[o] = row[o]
  BY <1>1, <1>5 DEF Over, Cancellable
<1> QED  BY <1>3, <1>4, <1>6, <1>7, <1>8, <1>9

LEMMA BootPreserves == ASSUME IInv, Boot \/ Serve PROVE IInv' /\ row' = row
<1> USE DEF IInv, gateVars, requestVars, accountVars, rowVars, loginVars, choiceVars
<1>1. /\ phase \in {"down", "recovering"} /\ phase' \in {"recovering", "up"}
      /\ phase' = "up" => Pending = {}
      /\ UNCHANGED <<gateVars, requestVars, accountVars, rowVars, loginVars, choiceVars, restarts>>
  BY DEF Boot, Serve
<1>2. TypeOK'
  BY <1>1 DEF TypeOK
<1>3. GateOK' /\ BlockOK' /\ BindOK' /\ DownOK'
  BY <1>1 DEF GateOK, Admitted, BlockOK, BindOK, DownOK, Alive
<1>4. RowOK'
  BY <1>1 DEF RowOK, Alive, Pending, Over
<1> QED  BY <1>1, <1>2, <1>3, <1>4

LEMMA RecoverPreserves ==
    ASSUME IInv, NEW o \in Logins, RecoverRow(o)
    PROVE  IInv' /\ row[o] \notin Over /\ \A x \in Logins \ {o} : row'[x] = row[x]
<1> USE DEF IInv, gateVars, requestVars, loginVars, choiceVars
<1>1. /\ phase = "recovering" /\ row[o] \notin Over \cup {"none"}
      /\ \/ WasCommitted(o) /\ FinishRow(o)
         \/ ~WasCommitted(o) /\ row' = [row EXCEPT ![o] = "FAILED"] /\ credRev' = credRev
      /\ UNCHANGED <<phase, gateVars, requestVars, cred, candidate, provider, loginVars, choiceVars,
                     restarts>>
  BY DEF RecoverRow, Pending
<1>2. /\ \A r \in Requests : rpc[r] = "idle"
      /\ \A x \in Logins : opc[x] = "none" /\ view[x] = "none"
  BY <1>1 DEF DownOK, Alive
<1>3. /\ BindOK' /\ row' \in [Logins -> RowStatus] /\ credRev' \in [Providers -> Nat]
      /\ row'[o] \in {"SUCCEEDED", "FAILED"} /\ \A x \in Logins \ {o} : row'[x] = row[x]
  <2>1. CASE WasCommitted(o) /\ FinishRow(o)
    BY <1>1, <1>2, <2>1, FinishBindings DEF FinishRow, TypeOK
  <2>2. CASE ~WasCommitted(o) /\ row' = [row EXCEPT ![o] = "FAILED"] /\ credRev' = credRev
    <3>1. /\ row' \in [Logins -> RowStatus] /\ credRev' \in [Providers -> Nat]
          /\ row'[o] = "FAILED" /\ \A x \in Logins \ {o} : row'[x] = row[x]
      BY <2>2 DEF TypeOK, RowStatus, Over
    <3>2. \A x \in Logins : row[x] = "COMMITTING" /\ cred[provider[x]] = candidate[x] =>
              row'[x] = "COMMITTING"
      BY <2>2, <3>1 DEF WasCommitted
    <3>3. UNCHANGED <<binding, rpc, chosen, cred, credRev, provider, candidate>>
      BY <1>1, <2>2
    <3>4. BindOK'
      BY <3>2, <3>3 DEF BindOK
    <3> QED  BY <3>1, <3>4
  <2> QED  BY <1>1, <2>1, <2>2
<1>4. TypeOK'
  BY <1>1, <1>3 DEF TypeOK
<1>5. GateOK' /\ BlockOK' /\ DownOK'
  BY <1>1, <1>2 DEF GateOK, Admitted, BlockOK, DownOK, Alive
<1>6. RowOK'
  BY <1>1, <1>2, <1>3 DEF RowOK, Alive, Underway, Cancellable
<1> QED  BY <1>1, <1>3, <1>4, <1>5, <1>6

-----------------------------------------------------------------------------
(* Theorems.                                                                *)

LEMMA LoginPreserves == ASSUME IInv, NEW o \in Logins, LoginStep(o) PROVE IInv'
BY PreparedAdvances, RejoinAdvances, RedrainAdvances, AdvancePreserves, CommitPreserves
   DEF LoginStep, IInv

LEMMA StepPreserves == IInv /\ [Next]_vars => IInv'
<1> SUFFICES ASSUME IInv, [Next]_vars PROVE IInv'
  OBVIOUS
<1>1. CASE \E r \in Requests : RequestStep(r)
  BY <1>1, RequestPreserves
<1>2. CASE \E o \in Logins : LoginStep(o)
  BY <1>2, LoginPreserves
<1>3. CASE OwnerStep
  BY <1>3, StartPreserves, BeginLoginPreserves, CancelPreserves, SelectionPreserves DEF OwnerStep
<1>4. CASE ProcessStep
  <2>1. restarts \in Nat
    BY DEF IInv, TypeOK
  <2>2. CASE Crash
    BY <2>1, <2>2, ForgetPreserves DEF Crash
  <2>3. CASE Exit
    BY <2>1, <2>3, ForgetPreserves DEF Exit
  <2> QED  BY <1>4, <2>2, <2>3, ClosePreserves, BootPreserves, RecoverPreserves DEF ProcessStep
<1>5. CASE UNCHANGED vars
  BY <1>5 DEF IInv, TypeOK, GateOK, Admitted, BlockOK, RowOK, BindOK, DownOK, Alive, vars, gateVars,
              requestVars, accountVars, rowVars, loginVars, choiceVars
<1> QED  BY <1>1, <1>2, <1>3, <1>4, <1>5 DEF Next

\* The invariant that the others follow from, for every value of the constants: the gate, the
\* rows of logins and the bindings of requests agree, whatever fails or restarts.
THEOREM AccountInvariance == Spec => []IInv
<1>1. Init => IInv
  BY Initially
<1>2. IInv /\ [Next]_vars => IInv'
  BY StepPreserves
<1> QED  BY <1>1, <1>2, PTL DEF Spec

\* The gate, the tables and the coroutines of requests and logins are type correct.
THEOREM AccountTypes == Spec => []TypeOK
<1>1. IInv => TypeOK
  BY DEF IInv
<1> QED  BY <1>1, AccountInvariance, PTL

\* provider-request-gate.ts: nothing is admitted to a provider or runs on it while a login
\* replaces its account, for any number of requests and logins.
THEOREM Drained == Spec => []DrainedBeforeCommit
<1>1. IInv => DrainedBeforeCommit
  BY DEF IInv, BlockOK, BindOK, DrainedBeforeCommit, Admitted, Bound
<1> QED  BY <1>1, AccountInvariance, PTL

\* bind and recover: a request never runs with another account than the one it was bound to,
\* unless its provider is in quarantine, although recovery decides by the credential file
\* alone whether a commit took place.
THEOREM KeepsAccount == Spec => []AccountKept
<1>1. IInv => AccountKept
  <2> SUFFICES ASSUME IInv, NEW r \in Requests, rpc[r] = "running",
                      cred[binding[r].provider] # binding[r].account
               PROVE  binding[r].provider \in quarantined
    BY DEF AccountKept
  <2>1. PICK o \in Logins : provider[o] = binding[r].provider /\ row[o] = "COMMITTING"
    BY DEF IInv, BindOK
  <2>2. chosen[r] = provider[o]
    BY <2>1 DEF IInv, BindOK
  <2>3. opc[o] \notin {"committing", "committed", "thrown"}
    BY <2>2 DEF IInv, BlockOK, Commits, Admitted
  <2>4. Alive
    BY DEF IInv, DownOK
  <2> QED  BY <2>1, <2>3, <2>4 DEF IInv, RowOK
<1> QED  BY <1>1, AccountInvariance, PTL

LEMMA EndStep ==
    ASSUME IInv, [Next]_vars, NEW o \in Logins, row[o] \in Over
    PROVE  row'[o] = row[o] /\ ~(opc[o] \notin Commits /\ opc'[o] \in Commits)
<1> USE DEF IInv
<1>1. row[o] \notin Cancellable \cup {"none", "COMMITTING"}
  BY DEF Over, Cancellable
<1>2. CASE \E r \in Requests : RequestStep(r)
  BY <1>2 DEF RequestStep, Begin, Resume, GiveUp, Bind, Finish, rowVars, loginVars
<1>3. CASE \E x \in Logins : LoginStep(x)
  <2>1. PICK x \in Logins : LoginStep(x)
    BY <1>3
  <2>2. CASE Prepared(x) \/ Rejoin(x) \/ Redrain(x)
    <3>1. Advances(x)
      BY <2>2, PreparedAdvances, RejoinAdvances, RedrainAdvances
    <3>2. x # o \/ x \in aborted
      BY <1>1, <3>1 DEF Advances, RowOK
    <3> QED  BY <3>1, <3>2 DEF Advances, OthersRest, Unwinds, Commits
  <2>3. CASE CommitFile(x) \/ Refreshed(x) \/ Throw(x) \/ Catch(x)
    BY <2>3 DEF CommitFile, Refreshed, Throw, Catch, rowVars, Commits, TypeOK
  <2>4. CASE FinishCommit(x)
    <3>1. row[x] = "COMMITTING" /\ \A y \in Logins \ {x} : row'[y] = row[y]
      BY <2>4, FinishCommitPreserves
    <3> QED  BY <1>1, <2>4, <3>1 DEF FinishCommit, Commits, TypeOK
  <2> QED  BY <2>1, <2>2, <2>3, <2>4 DEF LoginStep, Commit
<1>4. CASE OwnerStep
  <2>1. ASSUME NEW x \in Logins, BeginLogin(x) \/ Cancel(x) \/ (\E p \in Providers : Start(x, p))
        PROVE  row'[o] = row[o] /\ (opc'[o] = opc[o] \/ opc'[o] = "preparing")
    <3>1. row[x] \in Cancellable \cup {"none"}
      BY <2>1, BeginLoginPreserves, CancelPreserves, StartPreserves
    <3>2. \A y \in Logins \ {x} : row'[y] = row[y]
      BY <2>1 DEF BeginLogin, Cancel, Start, SetStatus, TypeOK
    <3>3. opc'[o] = opc[o] \/ opc'[o] = "preparing"
      BY <2>1 DEF BeginLogin, Cancel, Start, TypeOK
    <3> QED  BY <1>1, <3>1, <3>2, <3>3
  <2>2. ASSUME NEW c \in Choosers, Look(c) \/ (\E p \in Providers : Choose(c, p))
        PROVE  row' = row /\ opc' = opc
    BY <2>2 DEF Look, Choose, rowVars, loginVars
  <2> QED  BY <1>4, <2>1, <2>2 DEF OwnerStep, Commits
<1>5. CASE ProcessStep
  <2>1. ASSUME Crash \/ Exit
        PROVE  row' = row /\ opc'[o] = "none"
    BY <2>1 DEF Crash, Exit, Forget, rowVars
  <2>2. ASSUME Boot \/ Serve
        PROVE  row' = row /\ opc' = opc
    BY <2>2 DEF Boot, Serve, rowVars, loginVars
  <2>3. ASSUME Close
        PROVE  row'[o] = row[o] /\ opc' = opc
    BY <2>3, ClosePreserves DEF Close
  <2>4. ASSUME NEW x \in Logins, RecoverRow(x)
        PROVE  row'[o] = row[o] /\ opc' = opc
    BY <2>4, RecoverPreserves DEF RecoverRow, loginVars
  <2> QED  BY <1>5, <2>1, <2>2, <2>3, <2>4 DEF ProcessStep, Commits
<1>6. CASE UNCHANGED vars
  BY <1>6 DEF vars, rowVars, loginVars
<1> QED  BY <1>2, <1>3, <1>4, <1>5, <1>6 DEF Next

\* login, cancel and recover: what an operation was reported to have come to stands, and one
\* reported as cancelled, expired or failed does not go on to replace the account.
THEOREM EndStays == Spec => EndIsFinal
<1>1. IInv /\ [Next]_vars =>
        \A o \in Logins :
          /\ row[o] \in Over => row'[o] = row[o]
          /\ row[o] \in Over => ~(opc[o] \notin Commits /\ opc'[o] \in Commits)
  BY EndStep
<1> QED  BY <1>1, AccountInvariance, PTL DEF Spec, EndIsFinal

-----------------------------------------------------------------------------
(* Waking up.                                                               *)

\* Whoever sleeps at the gate sleeps for somebody who will wake it: a request, or a login
\* that joins, for the login that has the provider; that login for a request that was
\* admitted to it; and a request that was admitted sleeps for nobody.
SleepersAwaited ==
    /\ \A r \in Requests \cap asleep :
          rpc[r] = "waiting" /\ \E o \in Logins : opc[o] \in Blocking /\ provider[o] = chosen[r]
    /\ \A o \in Logins \cap asleep :
          \/ /\ opc[o] = "joining"
             /\ \E x \in Logins \ {o} : opc[x] \in Blocking /\ provider[x] = provider[o]
          \/ opc[o] = "draining" /\ \E r \in Requests : Admitted(r) /\ chosen[r] = provider[o]

\* Only who was admitted is counted, and a block is some login's.
HoldersOK == \A p \in Providers : \A r \in holders[p] : Admitted(r) /\ chosen[r] = p
BlockersOK == \A p \in blocked : \E o \in Logins : opc[o] \in Blocking /\ provider[o] = p

\* A login that waits for its method to be chosen has not begun.
LocalOK == \A o \in Logins : view[o] = "WAITING_LOCAL" => opc[o] = "none"

WakeOK == SleepersAwaited /\ HoldersOK /\ BlockersOK /\ LocalOK
WInv == IInv /\ WakeOK

LEMMA WInitially == Init => WakeOK
BY DEF Init, WakeOK, SleepersAwaited, HoldersOK, BlockersOK, LocalOK

\* A request and a login are different sleepers, and what sleeps is at the gate.
LEMMA SleeperFacts ==
    ASSUME WInv
    PROVE  /\ \A r \in Requests, o \in Logins : r # o
           /\ \A o \in Logins : o \in asleep => opc[o] \in {"joining", "draining"}
           /\ \A r \in Requests : r \in asleep => rpc[r] = "waiting"
BY ParticipantsAssumption DEF WInv, WakeOK, SleepersAwaited

\* A request that falls asleep does so at a blocked provider; what it leaves wakes everyone.
LEMMA EnterWakes ==
    ASSUME WInv, TypeOK', NEW r \in Requests, NEW p \in Providers, Enter(r, p), ~Admitted(r),
           chosen' = [chosen EXCEPT ![r] = p], r \notin asleep, UNCHANGED <<blocked, loginVars, rowVars>>
    PROVE  WakeOK'
<1> USE DEF WInv, WakeOK, IInv, TypeOK
<1>1. /\ \A x \in Requests \ {r} : rpc'[x] = rpc[x] /\ chosen'[x] = chosen[x]
      /\ chosen'[r] = p /\ UNCHANGED <<blocked, opc, view, provider>>
  BY DEF Enter, loginVars, rowVars
<1>2. CASE p \in blocked
  <2>1. rpc'[r] = "waiting" /\ asleep' = asleep \cup {r} /\ holders' = holders
    BY <1>2 DEF Enter
  <2>2. SleepersAwaited'
    <3>1. ASSUME NEW x \in Requests, x \in asleep'
          PROVE  rpc'[x] = "waiting" /\ \E o \in Logins : opc[o] \in Blocking /\ provider[o] = chosen'[x]
      BY <1>1, <1>2, <2>1, <3>1 DEF BlockersOK, SleepersAwaited
    <3>2. ASSUME NEW o \in Logins, o \in asleep'
          PROVE  \/ /\ opc[o] = "joining"
                    /\ \E x \in Logins \ {o} : opc[x] \in Blocking /\ provider[x] = provider[o]
                 \/ /\ opc[o] = "draining"
                    /\ \E x \in Requests : Admitted(x)' /\ chosen'[x] = provider[o]
      <4>1. o \in asleep
        BY <2>1, <3>2, SleeperFacts
      <4>2. \A x \in Requests : Admitted(x) => Admitted(x)' /\ chosen'[x] = chosen[x]
        BY <1>1 DEF Admitted
      <4> QED  BY <4>1, <4>2 DEF SleepersAwaited
    <3> QED  BY <1>1, <3>1, <3>2 DEF SleepersAwaited
  <2> QED  BY <1>1, <2>1, <2>2 DEF HoldersOK, BlockersOK, LocalOK, Admitted
<1>3. CASE p \notin blocked
  <2>1. rpc'[r] = "entered" /\ asleep' = asleep /\ holders' = [holders EXCEPT ![p] = @ \cup {r}]
    BY <1>3 DEF Enter
  <2>2. SleepersAwaited'
    BY <1>1, <2>1 DEF SleepersAwaited, Admitted
  <2>3. HoldersOK'
    BY <1>1, <2>1 DEF HoldersOK, Admitted
  <2> QED  BY <1>1, <2>2, <2>3 DEF BlockersOK, LocalOK
<1> QED  BY <1>2, <1>3

LEMMA LeaveWakes ==
    ASSUME WInv, TypeOK', NEW r \in Requests, Leave(r), UNCHANGED <<chosen, blocked, loginVars, rowVars>>
    PROVE  WakeOK'
<1> USE DEF WInv, WakeOK, IInv, TypeOK
<1>1. /\ asleep' = {} /\ holders' = [holders EXCEPT ![chosen[r]] = @ \ {r}]
      /\ \A x \in Requests \ {r} : rpc'[x] = rpc[x]
      /\ UNCHANGED <<chosen, blocked, opc, view, provider>>
  BY DEF Leave, loginVars, rowVars
<1>2. HoldersOK'
  BY <1>1 DEF HoldersOK, Admitted
<1> QED  BY <1>1, <1>2 DEF SleepersAwaited, BlockersOK, LocalOK

LEMMA RequestWakes == ASSUME WInv, TypeOK', NEW r \in Requests, RequestStep(r) PROVE WakeOK'
<1>1. CASE Begin(r)
  <2>1. Choice(r) \in Providers
    BY ChoiceType DEF WInv, IInv
  <2> QED  BY <1>1, <2>1, EnterWakes, SleeperFacts DEF Begin, Admitted
<1>2. CASE Resume(r)
  <2>1. chosen[r] \in Providers /\ chosen' = [chosen EXCEPT ![r] = chosen[r]]
    BY <1>2 DEF Resume, WInv, IInv, TypeOK
  <2>2. CASE Enter(r, chosen[r])
    BY <1>2, <2>1, <2>2, EnterWakes DEF Resume, Admitted
  <2>3. CASE rpc' = [rpc EXCEPT ![r] = "idle"] /\ UNCHANGED <<holders, asleep>>
    BY <1>2, <2>3, SleeperFacts
    DEF Resume, WInv, WakeOK, IInv, TypeOK, SleepersAwaited, HoldersOK, BlockersOK, LocalOK, Admitted,
        loginVars, rowVars
  <2> QED  BY <1>2, <2>2, <2>3 DEF Resume
<1>3. CASE GiveUp(r)
  BY <1>3, SleeperFacts
  DEF GiveUp, WInv, WakeOK, IInv, TypeOK, SleepersAwaited, HoldersOK, BlockersOK, LocalOK, Admitted,
      loginVars, rowVars
<1>4. CASE Bind(r)
  <2>1. CASE Leave(r)
    BY <1>4, <2>1, LeaveWakes DEF Bind
  <2>2. CASE rpc' = [rpc EXCEPT ![r] = "running"] /\ UNCHANGED <<holders, asleep>>
    BY <1>4, <2>2, SleeperFacts
    DEF Bind, WInv, WakeOK, IInv, TypeOK, SleepersAwaited, HoldersOK, BlockersOK, LocalOK, Admitted,
        loginVars, rowVars
  <2> QED  BY <1>4, <2>1, <2>2 DEF Bind
<1>5. CASE Finish(r)
  BY <1>5, LeaveWakes DEF Finish
<1> QED  BY <1>1, <1>2, <1>3, <1>4, <1>5 DEF RequestStep

\* What a step of login o may do at the gate: falling asleep it has somebody to wait for,
\* letting go of the provider it wakes everyone, and a block it takes is its own.
OwnSleep(o) ==
    /\ provider'[o] = provider[o]
    /\ \/ opc'[o] = "joining" /\ opc[o] \notin Blocking /\ provider[o] \in blocked
       \/ opc'[o] = "draining" /\ holders[provider[o]] # {}
Handles(o) ==
    /\ UNCHANGED <<holders, rpc, chosen>>
    /\ \A x \in Logins \ {o} :
          opc'[x] = opc[x] /\ provider'[x] = provider[x] /\ view'[x] = view[x]
    /\ opc[o] \in Blocking \/ opc'[o] \in Blocking => provider'[o] = provider[o]
    /\ view'[o] = "WAITING_LOCAL" => opc'[o] = "none"
    /\ \A p \in blocked' : \/ opc'[o] \in Blocking /\ p = provider[o]
                           \/ p \in blocked /\ ~(opc[o] \in Blocking /\ p = provider[o])
    /\ \/ asleep' = {}
       \/ /\ opc[o] \in Blocking => opc'[o] \in Blocking
          /\ \A w \in asleep' : w \in asleep \ {o} \/ (w = o /\ OwnSleep(o))

LEMMA HandlesWakes == ASSUME WInv, NEW o \in Logins, Handles(o), TypeOK' PROVE WakeOK'
<1>1. HoldersOK'
  BY DEF Handles, WInv, WakeOK, HoldersOK, Admitted
<1>2. BlockersOK'
  <2> SUFFICES ASSUME NEW p \in blocked'
               PROVE  \E x \in Logins : opc'[x] \in Blocking /\ provider'[x] = p
    BY DEF BlockersOK
  <2>1. CASE opc'[o] \in Blocking /\ p = provider[o]
    BY <2>1 DEF Handles
  <2>2. CASE p \in blocked /\ ~(opc[o] \in Blocking /\ p = provider[o])
    <3>1. PICK x \in Logins : opc[x] \in Blocking /\ provider[x] = p
      BY <2>2 DEF WInv, WakeOK, BlockersOK
    <3> QED  BY <2>2, <3>1 DEF Handles
  <2> QED  BY <2>1, <2>2 DEF Handles
<1>3. LocalOK'
  BY DEF Handles, WInv, WakeOK, LocalOK
<1>4. SleepersAwaited'
  <2>1. CASE asleep' = {}
    BY <2>1 DEF SleepersAwaited
  <2>2. CASE /\ opc[o] \in Blocking => opc'[o] \in Blocking
             /\ \A w \in asleep' : w \in asleep \ {o} \/ (w = o /\ OwnSleep(o))
    <3>1. \A x \in Logins : opc[x] \in Blocking => opc'[x] \in Blocking /\ provider'[x] = provider[x]
      BY <2>2 DEF Handles
    <3>2. ASSUME NEW r \in Requests, r \in asleep'
          PROVE  rpc'[r] = "waiting" /\ \E x \in Logins : opc'[x] \in Blocking /\ provider'[x] = chosen'[r]
      <4>1. r \in asleep
        BY <2>2, <3>2, SleeperFacts
      <4> QED  BY <3>1, <4>1 DEF Handles, WInv, WakeOK, SleepersAwaited
    <3>3. ASSUME NEW x \in Logins, x \in asleep', x # o
          PROVE  \/ /\ opc'[x] = "joining"
                    /\ \E y \in Logins \ {x} : opc'[y] \in Blocking /\ provider'[y] = provider'[x]
                 \/ /\ opc'[x] = "draining"
                    /\ \E r \in Requests : Admitted(r)' /\ chosen'[r] = provider'[x]
      <4>1. x \in asleep /\ opc'[x] = opc[x] /\ provider'[x] = provider[x]
        BY <2>2, <3>3 DEF Handles
      <4> QED  BY <3>1, <4>1 DEF Handles, WInv, WakeOK, SleepersAwaited, Admitted
    <3>4. ASSUME o \in asleep'
          PROVE  \/ /\ opc'[o] = "joining"
                    /\ \E y \in Logins \ {o} : opc'[y] \in Blocking /\ provider'[y] = provider'[o]
                 \/ /\ opc'[o] = "draining"
                    /\ \E r \in Requests : Admitted(r)' /\ chosen'[r] = provider'[o]
      <4>1. OwnSleep(o)
        BY <2>2, <3>4
      <4>2. CASE opc'[o] = "joining" /\ opc[o] \notin Blocking /\ provider[o] \in blocked
        <5>1. PICK y \in Logins : opc[y] \in Blocking /\ provider[y] = provider[o]
          BY <4>2 DEF WInv, WakeOK, BlockersOK
        <5> QED  BY <3>1, <4>1, <4>2, <5>1 DEF OwnSleep
      <4>3. CASE opc'[o] = "draining" /\ holders[provider[o]] # {}
        <5>1. provider[o] \in Providers /\ holders[provider[o]] \subseteq Requests
          BY DEF WInv, IInv, TypeOK
        <5>2. PICK r \in Requests : r \in holders[provider[o]]
          BY <4>3, <5>1
        <5>3. Admitted(r) /\ chosen[r] = provider[o]
          BY <5>1, <5>2 DEF WInv, WakeOK, HoldersOK
        <5> QED  BY <4>1, <4>3, <5>3 DEF OwnSleep, Handles, Admitted
      <4> QED  BY <4>1, <4>2, <4>3 DEF OwnSleep
    <3> QED  BY <3>2, <3>3, <3>4 DEF SleepersAwaited
  <2> QED  BY <2>1, <2>2 DEF Handles
<1> QED  BY <1>1, <1>2, <1>3, <1>4 DEF WakeOK

\* A login on its way to the commit.
LEMMA AdvanceWakes ==
    ASSUME WInv, TypeOK', NEW o \in Logins, Prepared(o) \/ Rejoin(o) \/ Redrain(o)
    PROVE  WakeOK'
<1> DEFINE rest == UNCHANGED <<holders, rpc, chosen, provider>>
<1>1. /\ rest /\ opc[o] \in {"preparing", "joining", "draining"}
      /\ opc[o] \in {"joining", "draining"} => o \notin asleep
  BY DEF Prepared, Rejoin, Redrain, requestVars
<1>2. o \notin asleep /\ opc \in [Logins -> {"none", "preparing", "joining", "draining", "committing",
                            "committed", "refreshing", "thrown", "done"}]
      /\ view \in [Logins -> RowStatus]
  BY <1>1, SleeperFacts DEF WInv, IInv, TypeOK
<1>3. CASE Unwind(o) /\ opc[o] \in {"preparing", "joining"}
  <2>1. view'[o] # "WAITING_LOCAL"
    BY <1>1, <1>3 DEF Unwind, WInv, WakeOK, LocalOK
  <2>2. Handles(o)
    BY <1>1, <1>2, <1>3, <2>1 DEF Unwind, Handles, Blocking
  <2> QED  BY <2>2, HandlesWakes
<1>4. CASE Fail(o) /\ opc[o] \in {"preparing", "joining"}
  <2>1. Handles(o)
    BY <1>1, <1>2, <1>4 DEF Fail, SetStatus, Handles, Blocking
  <2> QED  BY <2>1, HandlesWakes
<1>5. ASSUME Drain(o), opc[o] = "draining" \/ provider[o] \notin blocked PROVE WakeOK'
  <2>1. CASE holders[provider[o]] = {}
    <3>1. Handles(o)
      BY <1>1, <1>2, <1>5, <2>1 DEF Drain, SetStatus, Handles, Blocking
    <3> QED  BY <3>1, HandlesWakes
  <2>2. CASE holders[provider[o]] # {}
    <3>1. Handles(o)
      BY <1>1, <1>2, <1>5, <2>2 DEF Drain, SetStatus, Handles, Blocking, OwnSleep
    <3> QED  BY <3>1, HandlesWakes
  <2> QED  BY <2>1, <2>2
<1>6. CASE Exclude(o) /\ opc[o] \in {"preparing", "joining"}
  <2>1. CASE provider[o] \in quarantined
    <3>1. Handles(o)
      BY <1>1, <1>2, <1>6, <2>1 DEF Exclude, SetStatus, Handles, Blocking
    <3> QED  BY <3>1, HandlesWakes
  <2>2. CASE provider[o] \notin quarantined /\ provider[o] \in blocked
    <3>1. Handles(o)
      BY <1>1, <1>2, <1>6, <2>2 DEF Exclude, SetStatus, Handles, Blocking, OwnSleep
    <3> QED  BY <3>1, HandlesWakes
  <2>3. CASE provider[o] \notin quarantined /\ provider[o] \notin blocked
    BY <1>5, <1>6, <2>3 DEF Exclude
  <2> QED  BY <2>1, <2>2, <2>3
<1>7. CASE Unblock(o) /\ opc[o] = "draining" /\ opc' = [opc EXCEPT ![o] = "done"]
           /\ (view' = view \/ SetStatus(o, "FAILED"))
  <2>1. view'[o] # "WAITING_LOCAL" /\ \A x \in Logins \ {o} : view'[x] = view[x]
    BY <1>2, <1>7 DEF SetStatus, WInv, WakeOK, LocalOK
  <2>2. Handles(o)
    BY <1>1, <1>2, <1>7, <2>1 DEF Unblock, Handles, Blocking
  <2> QED  BY <2>2, HandlesWakes
<1>8. CASE Prepared(o)
  BY <1>8, <1>3, <1>4, <1>6 DEF Prepared, AfterPrepare
<1>9. CASE Rejoin(o)
  BY <1>9, <1>3, <1>6 DEF Rejoin
<1>10. CASE Redrain(o)
  BY <1>10, <1>5, <1>7 DEF Redrain
<1> QED  BY <1>8, <1>9, <1>10

\* The other steps of logins: they are begun, cancelled or commit.
LEMMA OtherWakes ==
    ASSUME WInv, TypeOK', NEW o \in Logins,
           \/ \E p \in Providers : Start(o, p)
           \/ BeginLogin(o) \/ Cancel(o) \/ Commit(o)
    PROVE  WakeOK'
<1>1. /\ opc \in [Logins -> {"none", "preparing", "joining", "draining", "committing",
                             "committed", "refreshing", "thrown", "done"}]
      /\ view \in [Logins -> RowStatus] /\ provider \in [Logins -> Providers]
      /\ opc[o] \notin {"joining", "draining"} => o \notin asleep
  BY SleeperFacts DEF WInv, IInv, TypeOK
<1>2. CASE \E p \in Providers : Start(o, p)
  <2>1. opc[o] = "none"
    BY <1>2 DEF Start, WInv, IInv, RowOK
  <2>2. Handles(o)
    BY <1>1, <1>2, <2>1 DEF Start, SetStatus, Handles, Blocking, gateVars, requestVars
  <2> QED  BY <2>2, HandlesWakes
<1>3. CASE BeginLogin(o)
  <2>1. opc[o] = "none"
    BY <1>3 DEF BeginLogin, WInv, WakeOK, LocalOK
  <2>2. Handles(o)
    BY <1>1, <1>3, <2>1 DEF BeginLogin, SetStatus, Handles, Blocking, gateVars, requestVars
  <2> QED  BY <2>2, HandlesWakes
<1>4. CASE Cancel(o)
  <2>1. PICK s \in {"CANCELLED", "EXPIRED"} : SetStatus(o, s)
    BY <1>4 DEF Cancel
  <2>2. /\ UNCHANGED <<holders, rpc, chosen, opc, provider, blocked>> /\ asleep' = asleep \ {o}
    BY <1>4 DEF Cancel, requestVars
  <2>3. /\ view'[o] # "WAITING_LOCAL" /\ \A x \in Logins \ {o} : view'[x] = view[x]
    BY <1>1, <2>1 DEF SetStatus
  <2>4. SleepersAwaited'
    BY <2>2 DEF WInv, WakeOK, SleepersAwaited, Admitted
  <2>5. HoldersOK' /\ BlockersOK'
    BY <2>2 DEF WInv, WakeOK, HoldersOK, BlockersOK, Admitted
  <2>6. LocalOK'
    BY <2>2, <2>3 DEF WInv, WakeOK, LocalOK
  <2> QED  BY <2>4, <2>5, <2>6 DEF WakeOK
<1>5. CASE Commit(o)
  <2>1. opc[o] \in {"committing", "committed", "refreshing", "thrown"} /\ view[o] # "WAITING_LOCAL"
    BY <1>5 DEF Commit, CommitFile, FinishCommit, Refreshed, Throw, Catch, WInv, WakeOK, LocalOK
  <2>2. CASE CommitFile(o) \/ FinishCommit(o)
    <3>1. Handles(o)
      BY <1>1, <2>1, <2>2 DEF CommitFile, FinishCommit, Handles, Blocking, gateVars, requestVars, rowVars
    <3> QED  BY <3>1, HandlesWakes
  <2>3. CASE Refreshed(o) \/ Throw(o)
    <3>1. Handles(o)
      BY <1>1, <2>1, <2>3 DEF Refreshed, Throw, Unblock, Handles, Blocking, requestVars, rowVars
    <3> QED  BY <3>1, HandlesWakes
  <2>4. CASE Catch(o)
    <3>1. Handles(o)
      BY <1>1, <2>1, <2>4 DEF Catch, Handles, Blocking, requestVars, rowVars
    <3> QED  BY <3>1, HandlesWakes
  <2> QED  BY <1>5, <2>2, <2>3, <2>4 DEF Commit
<1> QED  BY <1>2, <1>3, <1>4, <1>5

\* The process: what is forgotten leaves nobody asleep, and an orderly stop wakes the logins.
LEMMA ProcessWakes == ASSUME WInv, TypeOK', ProcessStep PROVE WakeOK'
<1>1. CASE Crash \/ Exit
  BY <1>1 DEF Crash, Exit, Forget, WakeOK, SleepersAwaited, HoldersOK, BlockersOK, LocalOK
<1>2. CASE Close
  <2>1. /\ UNCHANGED <<holders, rpc, chosen, opc, provider, blocked>> /\ asleep' \subseteq asleep
    BY <1>2 DEF Close, requestVars
  <2>2. ASSUME NEW o \in Logins PROVE view'[o] = view[o] \/ view'[o] = "CANCELLED"
    BY <1>2 DEF Close
  <2>3. SleepersAwaited'
    BY <2>1 DEF WInv, WakeOK, SleepersAwaited, Admitted
  <2>4. HoldersOK' /\ BlockersOK' /\ LocalOK'
    BY <2>1, <2>2 DEF WInv, WakeOK, HoldersOK, BlockersOK, LocalOK, Admitted
  <2> QED  BY <2>3, <2>4 DEF WakeOK
<1>3. CASE Boot \/ Serve \/ \E o \in Logins : RecoverRow(o)
  <2>1. UNCHANGED <<holders, rpc, chosen, opc, provider, blocked, asleep, view>>
    BY <1>3 DEF Boot, Serve, RecoverRow, gateVars, requestVars, rowVars, loginVars
  <2> QED  BY <2>1 DEF WInv, WakeOK, SleepersAwaited, HoldersOK, BlockersOK, LocalOK, Admitted
<1> QED  BY <1>1, <1>2, <1>3 DEF ProcessStep

\* provider-request-gate.ts: nobody is left asleep at the gate with nobody to wake it, and the
\* waits have no cycle, whoever gives up, is cancelled or throws, for any number of requests
\* and logins.
THEOREM NobodyForgotten == Spec => []SleepersAwaited
<1>1. ASSUME WInv, [Next]_vars, IInv' PROVE WakeOK'
  <2>1. TypeOK'
    BY <1>1 DEF IInv
  <2>2. CASE \E r \in Requests : RequestStep(r)
    BY <1>1, <2>1, <2>2, RequestWakes
  <2>3. CASE \E o \in Logins : LoginStep(o)
    BY <1>1, <2>1, <2>3, AdvanceWakes, OtherWakes DEF LoginStep
  <2>4. CASE OwnerStep
    <3>1. CASE \E o \in Logins : BeginLogin(o) \/ Cancel(o) \/ (\E p \in Providers : Start(o, p))
      BY <1>1, <2>1, <3>1, OtherWakes
    <3>2. CASE \E c \in Choosers : Look(c) \/ (\E p \in Providers : Choose(c, p))
      <4>1. UNCHANGED <<holders, rpc, chosen, opc, provider, blocked, asleep, view>>
        BY <3>2 DEF Look, Choose, gateVars, requestVars, rowVars, loginVars
      <4> QED  BY <1>1, <4>1
               DEF WInv, WakeOK, SleepersAwaited, HoldersOK, BlockersOK, LocalOK, Admitted
    <3> QED  BY <2>4, <3>1, <3>2 DEF OwnerStep
  <2>5. CASE ProcessStep
    BY <1>1, <2>1, <2>5, ProcessWakes
  <2>6. CASE UNCHANGED vars
    BY <1>1, <2>6
    DEF vars, gateVars, requestVars, rowVars, loginVars, WInv, WakeOK, SleepersAwaited, HoldersOK,
        BlockersOK, LocalOK, Admitted
  <2> QED  BY <1>1, <2>2, <2>3, <2>4, <2>5, <2>6 DEF Next
<1>2. WakeOK => SleepersAwaited
  BY DEF WakeOK
<1> QED  BY WInitially, AccountInvariance, <1>1, <1>2, PTL DEF Spec, WInv
=============================================================================
