------------------------ MODULE OutboxDeliveryProofs ------------------------
(***************************************************************************)
(* Theorems about OutboxDelivery for every value of its constants: any     *)
(* number of turns, parts, attempts and incarnations of the service.       *)
(***************************************************************************)
EXTENDS OutboxDelivery, FiniteSetTheorems, TLAPS

-----------------------------------------------------------------------------
(* The inductive invariant.                                                 *)

Claimed == {"SENDING", "RETRY_WAIT", "SENT", "DEAD_LETTER"}

\* The rows of a reply are there from its publication on, and the turn says so.
RowsOK ==
    /\ \A r \in Parts : st[r] # "none" <=> Index(r) <= size[TurnOf(r)]
    /\ \A q \in Turns : tstat[q] # "none" <=> size[q] > 0

\* What has ever been claimed has only confirmed parts before it.
PrefixOK ==
    \A r, s \in Parts :
        TurnOf(s) = TurnOf(r) /\ Index(s) < Index(r) /\ st[r] \in Claimed => st[s] = "SENT"

\* A process works on a row that was claimed.
WorkOK == \A p \in Procs : pc[p] # "idle" => row[p] \in Parts /\ st[row[p]] \in Claimed

\* A part that reached the user, and whose sender waits for the answer, is still the latest
\* of its reply, as long as it is not settled.
ReachedOK ==
    \A p \in Procs :
        pc[p] = "sending" /\ reached[p] /\ st[row[p]] \in {"SENDING", "RETRY_WAIT"} =>
            last[TurnOf(row[p])] = Index(row[p])

IInv == TypeOK /\ RowsOK /\ PrefixOK /\ WorkOK /\ ReachedOK /\ UploadMatches /\ TurnTellsParts

-----------------------------------------------------------------------------
(* Parts as pairs.                                                          *)

LEMMA PartTypes ==
    ASSUME NEW r \in Parts
    PROVE  /\ TurnOf(r) \in Turns /\ Index(r) \in 1..MaxParts
           /\ r = <<TurnOf(r), Index(r)>>
BY DEF Parts, TurnOf, Index

LEMMA SamePart ==
    ASSUME NEW r \in Parts, NEW s \in Parts, TurnOf(r) = TurnOf(s), Index(r) = Index(s)
    PROVE  r = s
BY PartTypes

LEMMA Initially == Init => IInv
<1> SUFFICES ASSUME Init PROVE IInv
  OBVIOUS
<1> USE OutboxAssumption
<1>1. TypeOK
  BY DEF Init, TypeOK, RowStatus, NoRow
<1>2. RowsOK /\ PrefixOK /\ WorkOK /\ ReachedOK
  BY PartTypes DEF Init, RowsOK, PrefixOK, WorkOK, ReachedOK, Claimed
<1>3. UploadMatches /\ TurnTellsParts
  BY DEF Init, UploadMatches, TurnTellsParts
<1> QED  BY <1>1, <1>2, <1>3 DEF IInv

-----------------------------------------------------------------------------
(* Steps that confirm nothing, give nothing up and send nothing.            *)

\* A row may go from SENDING to RETRY_WAIT, a process may drop what it works on.
Calm ==
    /\ UNCHANGED <<size, texts, tstat, prepared, last>>
    /\ \A r \in Parts : st'[r] = st[r] \/ (st[r] = "SENDING" /\ st'[r] = "RETRY_WAIT")
    /\ \A p \in Procs : pc'[p] # "idle" =>
          /\ pc[p] # "idle" /\ row'[p] = row[p]
          /\ pc'[p] = "sending" => pc[p] = "sending" /\ reached'[p] = reached[p]
          /\ HoldsLease(p)' => HoldsLease(p)

LEMMA CalmPreserves == ASSUME IInv, Calm, TypeOK' PROVE IInv'
<1> USE DEF IInv
<1>1. RowsOK'
  BY PartTypes DEF Calm, RowsOK
<1>2. PrefixOK'
  BY DEF Calm, PrefixOK, Claimed
<1>3. WorkOK'
  BY DEF Calm, WorkOK, Claimed
<1>4. ReachedOK'
  BY DEF Calm, WorkOK, ReachedOK
<1>5. UploadMatches'
  BY DEF Calm, UploadMatches, IsImage
<1>6. TurnTellsParts'
  BY DEF Calm, TurnTellsParts
<1> QED  BY <1>1, <1>2, <1>3, <1>4, <1>5, <1>6

LEMMA TimePreserves == ASSUME IInv, NEW r \in Parts, LeaseExpires(r) \/ RetryDue(r) PROVE IInv'
<1>1. TypeOK'
  BY DEF LeaseExpires, RetryDue, IInv, TypeOK, procVars, workVars, userVars
<1>2. /\ UNCHANGED <<size, texts, tstat, st, attempts, owner, prepared, workVars, last>>
      /\ \A s \in Parts : fresh'[s] => fresh[s]
  BY DEF LeaseExpires, RetryDue, IInv, TypeOK, userVars
<1>3. Calm
  BY <1>2 DEF IInv, WorkOK, Calm, HoldsLease, workVars
<1> QED  BY <1>1, <1>3, CalmPreserves

LEMMA LoadedPreserves == ASSUME IInv, NEW p \in Procs, Loaded(p) PROVE IInv'
<1>1. TypeOK'
  BY DEF Loaded, IInv, TypeOK, rowVars, procVars, userVars
<1>2. Calm
  BY DEF Loaded, IInv, TypeOK, Calm, HoldsLease, rowVars, procVars, userVars
<1> QED  BY <1>1, <1>2, CalmPreserves

\* What Release leaves of the registers.
LEMMA ReleaseTypes ==
    ASSUME TypeOK, NEW p \in Procs, Release(p)
    PROVE  /\ pc' \in [Procs -> {"idle", "loading", "uploading", "sending"}]
           /\ row' \in [Procs -> Parts \cup {NoRow}] /\ try' \in [Procs -> Nat]
           /\ reached' \in [Procs -> BOOLEAN] /\ pc'[p] = "idle"
           /\ \A o \in Procs \ {p} : /\ pc'[o] = pc[o] /\ row'[o] = row[o] /\ try'[o] = try[o]
                                     /\ reached'[o] = reached[o]
BY DEF Release, TypeOK

LEMMA DropPreserves == ASSUME IInv, NEW p \in Procs, LosesLease(p) \/ Crash(p) PROVE IInv'
<1>1. Release(p) /\ UNCHANGED <<rowVars, starts, userVars>>
  BY DEF LosesLease, Crash, procVars
<1>2. TypeOK'
  <2>1. mode' \in [Procs -> {"down", "run", "stop", "abort"}] /\ holder' \in Procs \cup {NoProc}
    BY DEF LosesLease, Crash, Unlocked, IInv, TypeOK, procVars
  <2> QED  BY <1>1, <2>1, ReleaseTypes DEF IInv, TypeOK, rowVars, userVars
<1>3. Calm
  BY <1>1, ReleaseTypes DEF IInv, Calm, HoldsLease, rowVars, userVars
<1> QED  BY <1>2, <1>3, CalmPreserves

LEMMA StopPreserves ==
    ASSUME IInv, NEW p \in Procs, Stop(p) \/ Abort(p) \/ Exit(p) \/ LockLost(p)
    PROVE  IInv'
<1>1. /\ UNCHANGED <<rowVars, starts, workVars, userVars>>
      /\ mode' \in [Procs -> {"down", "run", "stop", "abort"}] /\ holder' \in Procs \cup {NoProc}
  BY DEF Stop, Abort, Exit, LockLost, Unlocked, IInv, TypeOK
<1>2. TypeOK'
  BY <1>1 DEF IInv, TypeOK, rowVars, workVars, userVars
<1>3. Calm
  BY <1>1 DEF IInv, Calm, HoldsLease, rowVars, workVars, userVars
<1> QED  BY <1>2, <1>3, CalmPreserves

LEMMA StartPreserves == ASSUME IInv, NEW p \in Procs, Start(p) PROVE IInv'
<1>1. TypeOK'
  <2>1. st' \in [Parts -> RowStatus]
    BY DEF Start, IInv, TypeOK, RowStatus
  <2>2. owner' \in [Parts -> Procs \cup {NoProc}] /\ fresh' \in [Parts -> BOOLEAN]
    BY DEF Start, IInv, TypeOK
  <2>3. /\ mode' \in [Procs -> {"down", "run", "stop", "abort"}]
        /\ holder' \in Procs \cup {NoProc} /\ starts' \in Nat
    BY DEF Start, IInv, TypeOK
  <2> QED  BY <2>1, <2>2, <2>3 DEF Start, IInv, TypeOK, workVars, userVars
<1>2. Calm
  BY DEF Start, Interrupted, IInv, TypeOK, Calm, WorkOK, HoldsLease, workVars, userVars
<1> QED  BY <1>1, <1>2, CalmPreserves

-----------------------------------------------------------------------------
(* A call that fails.                                                       *)

LEMMA FailsPreserves == ASSUME IInv, NEW p \in Procs, Fails(p) PROVE IInv'
<1> DEFINE r == row[p]
           q == TurnOf(r)
<1>1. /\ r \in Parts /\ q \in Turns /\ st[r] = "SENDING"
      /\ Index(r) \in 1..MaxParts /\ Index(r) <= size[q] /\ size[q] \in Nat
  BY PartTypes DEF Fails, HoldsLease, IInv, WorkOK, RowsOK, TypeOK
<1>2. /\ UNCHANGED <<size, texts, attempts, prepared, procVars, userVars>> /\ Release(p)
      /\ st' = [st EXCEPT ![r] = FailedRow(r)]
      /\ tstat' = [tstat EXCEPT ![q] = IF Exhausted(r) /\ @ = "REPLY_PENDING"
                                       THEN "DEAD_LETTER" ELSE @]
  BY DEF Fails
<1>3. TypeOK'
  <2>1. /\ st' \in [Parts -> RowStatus]
        /\ tstat' \in [Turns -> {"none", "REPLY_PENDING", "SUCCEEDED", "DEAD_LETTER"}]
    BY <1>1, <1>2 DEF IInv, TypeOK, FailedRow, RowStatus
  <2>2. /\ owner' \in [Parts -> Procs \cup {NoProc}] /\ fresh' \in [Parts -> BOOLEAN]
        /\ due' \in [Parts -> BOOLEAN]
    BY DEF Fails, IInv, TypeOK
  <2> QED  BY <1>2, <2>1, <2>2, ReleaseTypes DEF IInv, TypeOK, procVars, userVars
<1>4. CASE ~Exhausted(r)
  <2>1. Calm
    BY <1>1, <1>2, <1>4, ReleaseTypes
    DEF IInv, TypeOK, Calm, FailedRow, HoldsLease, Fails, procVars, userVars
  <2> QED  BY <1>3, <2>1, CalmPreserves
<1>5. CASE Exhausted(r)
  <2>1. /\ st' = [st EXCEPT ![r] = "DEAD_LETTER"] /\ st \in [Parts -> RowStatus]
        /\ tstat \in [Turns -> {"none", "REPLY_PENDING", "SUCCEEDED", "DEAD_LETTER"}]
    BY <1>2, <1>5 DEF FailedRow, IInv, TypeOK
  <2>2. tstat[q] = "REPLY_PENDING"
    <3>1. tstat[q] # "none" /\ tstat[q] # "SUCCEEDED"
      BY <1>1, <2>1 DEF IInv, RowsOK, TurnTellsParts
    <3>2. ASSUME NEW s \in Parts, TurnOf(s) = q, st[s] = "DEAD_LETTER" PROVE FALSE
      <4>1. Index(s) \in 1..MaxParts /\ Index(s) # Index(r)
        BY <1>1, <3>2, PartTypes, SamePart
      <4>2. Index(s) < Index(r) => st[s] = "SENT"
        BY <1>1, <3>2 DEF IInv, PrefixOK, Claimed
      <4>3. Index(r) < Index(s) => st[r] = "SENT"
        BY <1>1, <3>2 DEF IInv, PrefixOK, Claimed
      <4>4. Index(s) < Index(r) \/ Index(r) < Index(s)
        BY <1>1, <4>1
      <4> QED  BY <1>1, <3>2, <4>2, <4>3, <4>4
    <3> QED  BY <1>1, <2>1, <3>1, <3>2 DEF IInv, TurnTellsParts
  <2>3. tstat' = [tstat EXCEPT ![q] = "DEAD_LETTER"]
    BY <1>2, <1>5, <2>2
  <2>4. RowsOK'
    BY <1>1, <1>2, <2>1, <2>3, PartTypes DEF IInv, RowsOK
  <2>5. PrefixOK'
    BY <1>1, <2>1 DEF IInv, PrefixOK, Claimed
  <2>6. WorkOK' /\ ReachedOK'
    BY <1>1, <1>2, <2>1, ReleaseTypes DEF IInv, WorkOK, ReachedOK, Claimed, userVars
  <2>7. UploadMatches'
    BY <1>1, <1>2, <2>1, ReleaseTypes
    DEF IInv, WorkOK, UploadMatches, HoldsLease, IsImage, Fails, TypeOK
  <2>8. TurnTellsParts'
    BY <1>1, <1>2, <2>1, <2>3 DEF IInv, TurnTellsParts
  <2> QED  BY <1>3, <2>4, <2>5, <2>6, <2>7, <2>8 DEF IInv
<1> QED  BY <1>4, <1>5

-----------------------------------------------------------------------------
(* A call that succeeds.                                                    *)

LEMMA ConfirmedPreserves == ASSUME IInv, NEW p \in Procs, Confirmed(p) PROVE IInv'
<1> DEFINE r == row[p]
           q == TurnOf(r)
<1>1. /\ r \in Parts /\ q \in Turns /\ st[r] = "SENDING"
      /\ Index(r) \in 1..MaxParts /\ Index(r) <= size[q] /\ size[q] \in Nat
  BY PartTypes DEF Confirmed, Checks, HoldsLease, IInv, WorkOK, RowsOK, TypeOK
<1>2. /\ UNCHANGED <<size, texts, attempts, due, prepared, procVars, userVars>> /\ Release(p)
      /\ st' = [st EXCEPT ![r] = "SENT"]
      /\ tstat' = [tstat EXCEPT ![q] = IF TurnSent(q, r) /\ @ = "REPLY_PENDING"
                                       THEN "SUCCEEDED" ELSE @]
  BY DEF Confirmed
<1>3. /\ st \in [Parts -> RowStatus]
      /\ tstat \in [Turns -> {"none", "REPLY_PENDING", "SUCCEEDED", "DEAD_LETTER"}]
  BY DEF IInv, TypeOK
<1>4. TypeOK'
  <2>1. /\ st' \in [Parts -> RowStatus]
        /\ tstat' \in [Turns -> {"none", "REPLY_PENDING", "SUCCEEDED", "DEAD_LETTER"}]
    BY <1>1, <1>2, <1>3 DEF RowStatus
  <2>2. owner' \in [Parts -> Procs \cup {NoProc}] /\ fresh' \in [Parts -> BOOLEAN]
    BY DEF Confirmed, IInv, TypeOK
  <2> QED  BY <1>2, <2>1, <2>2, ReleaseTypes DEF IInv, TypeOK, procVars, userVars
<1>5. tstat[q] # "none" /\ tstat[q] # "SUCCEEDED"
  BY <1>1, <1>3 DEF IInv, RowsOK, TurnTellsParts
<1>6. RowsOK'
  BY <1>1, <1>2, <1>3, <1>5, PartTypes DEF IInv, RowsOK
<1>7. PrefixOK'
  BY <1>1, <1>2, <1>3 DEF IInv, PrefixOK, Claimed
<1>8. WorkOK' /\ ReachedOK'
  BY <1>1, <1>2, <1>3, ReleaseTypes DEF IInv, WorkOK, ReachedOK, Claimed, userVars
<1>9. UploadMatches'
  BY <1>1, <1>2, <1>3, ReleaseTypes
  DEF IInv, WorkOK, UploadMatches, HoldsLease, IsImage, Confirmed, TypeOK
<1>10. TurnTellsParts'
  <2> SUFFICES ASSUME NEW t \in Turns, size[t] > 0
               PROVE  LET own == {x \in Parts : TurnOf(x) = t /\ Index(x) <= size[t]}
                      IN  /\ tstat'[t] = "SUCCEEDED" <=> \A x \in own : st'[x] = "SENT"
                          /\ tstat'[t] = "DEAD_LETTER" <=> \E x \in own : st'[x] = "DEAD_LETTER"
    BY <1>2 DEF TurnTellsParts
  <2> DEFINE own == {x \in Parts : TurnOf(x) = t /\ Index(x) <= size[t]}
  <2>1. /\ tstat[t] = "SUCCEEDED" <=> \A x \in own : st[x] = "SENT"
        /\ tstat[t] = "DEAD_LETTER" <=> \E x \in own : st[x] = "DEAD_LETTER"
    BY DEF IInv, TurnTellsParts
  <2>2. CASE t # q
    BY <1>1, <1>2, <1>3, <2>1, <2>2
  <2>3. CASE t = q /\ TurnSent(q, r)
    <3>1. \A x \in own : st'[x] = "SENT"
      BY <1>1, <1>2, <1>3, <2>3 DEF TurnSent
    <3>2. r \in own /\ \A x \in own : st[x] # "DEAD_LETTER"
      BY <1>1, <2>3 DEF TurnSent
    <3>3. tstat'[t] = "SUCCEEDED"
      BY <1>1, <1>2, <1>3, <1>5, <2>1, <2>3, <3>2
    <3> QED  BY <3>1, <3>2, <3>3
  <2>4. CASE t = q /\ ~TurnSent(q, r)
    <3>1. tstat'[t] = tstat[t]
      BY <1>1, <1>2, <1>3, <2>4
    <3>2. PICK s \in own : s # r /\ st[s] # "SENT"
      BY <1>1, <2>4 DEF TurnSent
    <3>3. st'[s] # "SENT"
      BY <1>2, <1>3, <3>2
    <3> QED  BY <1>1, <1>2, <1>3, <1>5, <2>1, <2>4, <3>1, <3>2, <3>3
  <2> QED  BY <2>2, <2>3, <2>4
<1> QED  BY <1>4, <1>6, <1>7, <1>8, <1>9, <1>10 DEF IInv

-----------------------------------------------------------------------------
(* A request.                                                               *)

\* What Request says of the part and of the process that sends it.
LEMMA RequestEffect ==
    ASSUME TypeOK, NEW p \in Procs, NEW r \in Parts, Request(p, r)
    PROVE  /\ pc' = [pc EXCEPT ![p] = "sending"] /\ reached' \in [Procs -> BOOLEAN]
           /\ deliveries' \in [Parts -> Nat] /\ last' \in [Turns -> 0..MaxParts]
           /\ \A o \in Procs \ {p} : reached'[o] = reached[o]
           /\ reached'[p] => last'[TurnOf(r)] = Index(r)
           /\ \A t \in Turns :
                 last'[t] = last[t] \/ (t = TurnOf(r) /\ last'[t] = Index(r))
<1>1. PICK b \in BOOLEAN :
          /\ reached' = [reached EXCEPT ![p] = b]
          /\ deliveries' = [deliveries EXCEPT ![r] = @ + IF b THEN 1 ELSE 0]
          /\ last' = [last EXCEPT ![TurnOf(r)] = IF b THEN Index(r) ELSE @]
  BY DEF Request
<1>2. TurnOf(r) \in Turns /\ Index(r) \in 0..MaxParts
  BY PartTypes, OutboxAssumption
<1>3. reached' \in [Procs -> BOOLEAN] /\ \A o \in Procs \ {p} : reached'[o] = reached[o]
  BY <1>1 DEF TypeOK
<1>4. deliveries' \in [Parts -> Nat]
  BY <1>1 DEF TypeOK
<1>5. /\ last' \in [Turns -> 0..MaxParts]
      /\ \A t \in Turns : last'[t] = last[t] \/ (t = TurnOf(r) /\ last'[t] = Index(r))
  BY <1>1, <1>2 DEF TypeOK
<1>6. reached'[p] => last'[TurnOf(r)] = Index(r)
  BY <1>1, <1>2 DEF TypeOK
<1> QED  BY <1>3, <1>4, <1>5, <1>6 DEF Request

\* While a part is sent, no other part of its reply waits for an answer.
LEMMA RequestKeepsReached ==
    ASSUME IInv, PrefixOK', NEW p \in Procs, NEW r \in Parts, Request(p, r),
           row'[p] = r, \A o \in Procs \ {p} : row'[o] = row[o],
           st'[r] = "SENDING", \A x \in Parts \ {r} : st'[x] = st[x],
           st[r] \in {"PENDING", "RETRY_WAIT", "SENDING"}
    PROVE  ReachedOK'
<1> SUFFICES ASSUME NEW o \in Procs, pc'[o] = "sending", reached'[o],
                    st'[row'[o]] \in {"SENDING", "RETRY_WAIT"}
             PROVE  last'[TurnOf(row'[o])] = Index(row'[o])
  BY DEF ReachedOK
<1>1. CASE o = p
  BY <1>1, RequestEffect DEF IInv
<1>2. CASE o # p
  <2> DEFINE x == row[o]
  <2>1. pc[o] = "sending" /\ reached[o] /\ row'[o] = x /\ x \in Parts /\ st[x] \in Claimed
    BY <1>2, RequestEffect DEF IInv, TypeOK, WorkOK
  <2>2. st[x] \in {"SENDING", "RETRY_WAIT"}
    BY <1>2, <2>1 DEF Claimed
  <2>3. last[TurnOf(x)] = Index(x)
    BY <2>1, <2>2 DEF IInv, ReachedOK
  <2>4. CASE TurnOf(x) # TurnOf(r)
    BY <2>1, <2>3, <2>4, PartTypes, RequestEffect DEF IInv
  <2>5. CASE TurnOf(x) = TurnOf(r)
    <3>1. /\ Index(x) < Index(r) => st'[x] = "SENT"
          /\ Index(r) < Index(x) => st'[r] = "SENT"
      BY <1>2, <2>1, <2>2, <2>5 DEF PrefixOK, Claimed
    <3>2. x = r
      BY <1>2, <2>1, <2>2, <2>5, <3>1, PartTypes, SamePart
    <3> QED  BY <2>1, <2>3, <2>5, <3>2, PartTypes, RequestEffect DEF IInv
  <2> QED  BY <2>4, <2>5
<1> QED  BY <1>1, <1>2

LEMMA UploadedPreserves == ASSUME IInv, NEW p \in Procs, Uploaded(p) PROVE IInv'
<1> DEFINE r == row[p]
<1>1. r \in Parts /\ st[r] = "SENDING" /\ pc[p] = "uploading" /\ HoldsLease(p)
  BY DEF Uploaded, Checks, HoldsLease, IInv, WorkOK
<1>2. /\ Request(p, r) /\ prepared' = [prepared EXCEPT ![r] = Credentials[p]]
      /\ UNCHANGED <<size, texts, tstat, st, attempts, owner, fresh, due, procVars, row, try>>
  BY DEF Uploaded, SavePrepared, SendPreparedImage
<1>3. Credentials[p] \in Range(Credentials)
  BY OutboxAssumption DEF Range
<1>4. TypeOK'
  <2>1. prepared' \in [Parts -> Range(Credentials) \cup {NoScope}]
    BY <1>1, <1>2, <1>3 DEF IInv, TypeOK
  <2>2. pc' \in [Procs -> {"idle", "loading", "uploading", "sending"}]
    BY <1>1, <1>2, RequestEffect DEF IInv, TypeOK
  <2> QED  BY <1>1, <1>2, <2>1, <2>2, RequestEffect DEF IInv, TypeOK, procVars
<1>5. RowsOK' /\ PrefixOK' /\ TurnTellsParts'
  BY <1>2 DEF IInv, RowsOK, PrefixOK, TurnTellsParts
<1>6. WorkOK'
  BY <1>1, <1>2, RequestEffect DEF IInv, TypeOK, WorkOK
<1>7. ReachedOK'
  BY <1>1, <1>2, <1>5, RequestKeepsReached
<1>8. UploadMatches'
  BY <1>1, <1>2, RequestEffect DEF IInv, TypeOK, WorkOK, UploadMatches, HoldsLease, IsImage
<1> QED  BY <1>4, <1>5, <1>6, <1>7, <1>8 DEF IInv

\* The row that is claimed, and where the process goes with it.
LEMMA ClaimEffect ==
    ASSUME TypeOK, NEW p \in Procs, NEW r \in Parts, Claim(p, r)
    PROVE  /\ pc[p] = "idle" /\ st[r] \in {"PENDING", "RETRY_WAIT"}
           /\ \A x \in Parts : TurnOf(x) = TurnOf(r) /\ Index(x) < Index(r) => st[x] = "SENT"
           /\ st' \in [Parts -> RowStatus] /\ st'[r] = "SENDING"
           /\ owner' \in [Parts -> Procs \cup {NoProc}] /\ owner'[r] = p
           /\ attempts' \in [Parts -> Nat] /\ fresh' \in [Parts -> BOOLEAN]
           /\ \A x \in Parts \ {r} : /\ st'[x] = st[x] /\ owner'[x] = owner[x]
                                     /\ attempts'[x] = attempts[x] /\ fresh'[x] = fresh[x]
           /\ row' \in [Procs -> Parts \cup {NoRow}] /\ row'[p] = r /\ try' \in [Procs -> Nat]
           /\ \A o \in Procs \ {p} : row'[o] = row[o] /\ try'[o] = try[o]
           /\ UNCHANGED <<size, texts, tstat, due, prepared, procVars>>
<1>1. /\ st' = [st EXCEPT ![r] = "SENDING"] /\ owner' = [owner EXCEPT ![r] = p]
      /\ row' = [row EXCEPT ![p] = r] /\ try' = [try EXCEPT ![p] = attempts[r] + 1]
      /\ attempts' = [attempts EXCEPT ![r] = @ + 1] /\ fresh' = [fresh EXCEPT ![r] = TRUE]
      /\ UNCHANGED <<size, texts, tstat, due, prepared, procVars>>
      /\ pc[p] = "idle" /\ Claimable(r)
  BY DEF Claim
<1>2. /\ st' \in [Parts -> RowStatus] /\ st'[r] = "SENDING"
      /\ owner' \in [Parts -> Procs \cup {NoProc}] /\ owner'[r] = p
      /\ \A x \in Parts \ {r} : st'[x] = st[x] /\ owner'[x] = owner[x]
  BY <1>1 DEF TypeOK, RowStatus
<1>3. /\ attempts' \in [Parts -> Nat] /\ fresh' \in [Parts -> BOOLEAN]
      /\ \A x \in Parts \ {r} : attempts'[x] = attempts[x] /\ fresh'[x] = fresh[x]
  BY <1>1 DEF TypeOK
<1>4. /\ row' \in [Procs -> Parts \cup {NoRow}] /\ row'[p] = r /\ try' \in [Procs -> Nat]
      /\ \A o \in Procs \ {p} : row'[o] = row[o] /\ try'[o] = try[o]
  BY <1>1 DEF TypeOK
<1> QED  BY <1>1, <1>2, <1>3, <1>4 DEF Claimable

LEMMA ClaimPreserves == ASSUME IInv, NEW p \in Procs, NEW r \in Parts, Claim(p, r) PROVE IInv'
<1>1. /\ \/ Request(p, r) /\ (IsImage(r) => prepared[r] = Credentials[p])
         \/ pc' = [pc EXCEPT ![p] = "loading"] /\ UNCHANGED <<reached, userVars>>
      /\ pc' \in [Procs -> {"idle", "loading", "uploading", "sending"}]
      /\ pc'[p] \in {"loading", "sending"} /\ \A o \in Procs \ {p} : pc'[o] = pc[o]
  <2>1. \/ Request(p, r) /\ (IsImage(r) => prepared[r] = Credentials[p])
        \/ pc' = [pc EXCEPT ![p] = "loading"] /\ UNCHANGED <<reached, userVars>>
    BY DEF Claim, SendText, SendPreparedImage, IsPrepared
  <2>2. pc' = [pc EXCEPT ![p] = "sending"] \/ pc' = [pc EXCEPT ![p] = "loading"]
    BY <2>1 DEF Request
  <2> QED  BY <2>1, <2>2 DEF IInv, TypeOK
<1>2. /\ pc[p] = "idle" /\ st[r] \in {"PENDING", "RETRY_WAIT"}
      /\ \A x \in Parts : TurnOf(x) = TurnOf(r) /\ Index(x) < Index(r) => st[x] = "SENT"
      /\ st'[r] = "SENDING" /\ owner'[r] = p
      /\ \A x \in Parts \ {r} : /\ st'[x] = st[x] /\ owner'[x] = owner[x]
                                /\ attempts'[x] = attempts[x] /\ fresh'[x] = fresh[x]
      /\ row'[p] = r /\ \A o \in Procs \ {p} : row'[o] = row[o] /\ try'[o] = try[o]
      /\ UNCHANGED <<size, texts, tstat, due, prepared, procVars>>
  BY ClaimEffect DEF IInv
<1>3. TypeOK'
  <2>1. /\ reached' \in [Procs -> BOOLEAN] /\ deliveries' \in [Parts -> Nat]
        /\ last' \in [Turns -> 0..MaxParts]
    BY <1>1, RequestEffect DEF IInv, TypeOK, userVars
  <2>2. /\ st' \in [Parts -> RowStatus] /\ owner' \in [Parts -> Procs \cup {NoProc}]
        /\ attempts' \in [Parts -> Nat] /\ fresh' \in [Parts -> BOOLEAN]
        /\ row' \in [Procs -> Parts \cup {NoRow}] /\ try' \in [Procs -> Nat]
    BY ClaimEffect DEF IInv
  <2> QED  BY <1>1, <1>2, <2>1, <2>2 DEF IInv, TypeOK, procVars
<1>4. RowsOK'
  BY <1>2 DEF IInv, RowsOK
<1>5. PrefixOK'
  <2> SUFFICES ASSUME NEW x \in Parts, NEW s \in Parts, TurnOf(s) = TurnOf(x),
                      Index(s) < Index(x), st'[x] \in Claimed
               PROVE  st'[s] = "SENT"
    BY DEF PrefixOK
  <2>1. st[s] = "SENT"
    BY <1>2 DEF IInv, PrefixOK
  <2> QED  BY <1>2, <2>1
<1>6. WorkOK'
  BY <1>1, <1>2 DEF IInv, WorkOK, Claimed
<1>7. ReachedOK'
  <2>1. CASE Request(p, r)
    BY <1>2, <1>5, <2>1, RequestKeepsReached
  <2>2. CASE pc' = [pc EXCEPT ![p] = "loading"] /\ UNCHANGED <<reached, userVars>>
    <3> SUFFICES ASSUME NEW o \in Procs, pc'[o] = "sending", reached'[o],
                        st'[row'[o]] \in {"SENDING", "RETRY_WAIT"}
                 PROVE  last'[TurnOf(row'[o])] = Index(row'[o])
      BY DEF ReachedOK
    <3>1. o # p /\ pc[o] = "sending" /\ reached[o] /\ row'[o] = row[o]
      BY <1>1, <1>2, <2>2 DEF IInv, TypeOK
    <3>2. row[o] \in Parts /\ st[row[o]] \in {"SENDING", "RETRY_WAIT"}
      BY <1>2, <3>1 DEF IInv, WorkOK, Claimed
    <3> QED  BY <2>2, <3>1, <3>2 DEF IInv, ReachedOK, userVars
  <2> QED  BY <1>1, <2>1, <2>2
<1>8. UploadMatches'
  <2> SUFFICES ASSUME NEW o \in Procs, pc'[o] = "sending", HoldsLease(o)', IsImage(row[o])'
               PROVE  prepared'[row'[o]] = Credentials[o]
    BY DEF UploadMatches
  <2>1. CASE o = p
    <3>1. Request(p, r)
      BY <1>1, <2>1 DEF IInv, TypeOK
    <3> QED  BY <1>1, <1>2, <2>1, <3>1 DEF IsImage
  <2>2. CASE o # p
    <3>1. pc[o] = "sending" /\ row'[o] = row[o] /\ try'[o] = try[o] /\ row[o] \in Parts
      BY <1>1, <1>2, <2>2 DEF IInv, WorkOK
    <3>2. row[o] # r
      BY <1>2, <2>2, <3>1 DEF HoldsLease
    <3>3. HoldsLease(o) /\ IsImage(row[o])
      BY <1>2, <3>1, <3>2 DEF HoldsLease, IsImage
    <3> QED  BY <1>2, <3>1, <3>3 DEF IInv, UploadMatches
  <2> QED  BY <2>1, <2>2
<1>9. TurnTellsParts'
  BY <1>2 DEF IInv, TurnTellsParts
<1> QED  BY <1>3, <1>4, <1>5, <1>6, <1>7, <1>8, <1>9 DEF IInv

LEMMA PublishPreserves == ASSUME IInv, NEW q \in Turns, Publish(q) PROVE IInv'
<1>1. PICK n \in 1..MaxParts, k \in 0..MaxParts :
          /\ size' = [size EXCEPT ![q] = n] /\ texts' = [texts EXCEPT ![q] = k]
          /\ st' = [r \in Parts |-> IF TurnOf(r) = q /\ Index(r) <= n THEN "PENDING" ELSE st[r]]
          /\ due' = [r \in Parts |-> IF TurnOf(r) = q /\ Index(r) <= n THEN TRUE ELSE due[r]]
  <2>1. PICK n \in 1..MaxParts : \E k \in 0..n :
          /\ size' = [size EXCEPT ![q] = n] /\ texts' = [texts EXCEPT ![q] = k]
          /\ st' = [r \in Parts |-> IF TurnOf(r) = q /\ Index(r) <= n THEN "PENDING" ELSE st[r]]
          /\ due' = [r \in Parts |-> IF TurnOf(r) = q /\ Index(r) <= n THEN TRUE ELSE due[r]]
    BY DEF Publish
  <2>2. 0..n \subseteq 0..MaxParts
    BY OutboxAssumption
  <2> QED  BY <2>1, <2>2
<1>2. /\ size[q] = 0 /\ tstat' = [tstat EXCEPT ![q] = "REPLY_PENDING"]
      /\ UNCHANGED <<attempts, owner, fresh, prepared, procVars, workVars, userVars>>
  BY DEF Publish
<1>3. \A r \in Parts : TurnOf(r) = q => st[r] = "none"
  BY <1>2, PartTypes DEF IInv, RowsOK
<1>4. \A r \in Parts : st[r] \in Claimed \/ st'[r] \in Claimed => st'[r] = st[r] /\ TurnOf(r) # q
  BY <1>1, <1>3 DEF IInv, TypeOK, Claimed
<1>5. TypeOK'
  <2>1. size' \in [Turns -> 0..MaxParts] /\ texts' \in [Turns -> 0..MaxParts]
    BY <1>1, OutboxAssumption DEF IInv, TypeOK
  <2>2. st' \in [Parts -> RowStatus] /\ due' \in [Parts -> BOOLEAN]
    BY <1>1 DEF IInv, TypeOK, RowStatus
  <2>3. tstat' \in [Turns -> {"none", "REPLY_PENDING", "SUCCEEDED", "DEAD_LETTER"}]
    BY <1>2 DEF IInv, TypeOK
  <2> QED  BY <1>2, <2>1, <2>2, <2>3 DEF IInv, TypeOK, procVars, workVars, userVars
<1>6. RowsOK'
  <2>1. \A r \in Parts : st'[r] # "none" <=> Index(r) <= size'[TurnOf(r)]
    BY <1>1, <1>3, PartTypes DEF IInv, RowsOK, TypeOK
  <2>2. \A t \in Turns : tstat'[t] # "none" <=> size'[t] > 0
    BY <1>1, <1>2 DEF IInv, RowsOK, TypeOK
  <2> QED  BY <2>1, <2>2 DEF RowsOK
<1>7. PrefixOK'
  BY <1>4 DEF IInv, PrefixOK, Claimed
<1>8. WorkOK' /\ ReachedOK'
  BY <1>2, <1>4 DEF IInv, WorkOK, ReachedOK, Claimed, workVars, userVars
<1>9. UploadMatches'
  <2> SUFFICES ASSUME NEW o \in Procs, pc[o] = "sending", HoldsLease(o)', IsImage(row[o])'
               PROVE  prepared[row[o]] = Credentials[o]
    BY <1>2 DEF UploadMatches, workVars
  <2>1. row[o] \in Parts /\ st[row[o]] = st'[row[o]] /\ TurnOf(row[o]) # q
    BY <1>4 DEF IInv, WorkOK
  <2>2. HoldsLease(o)
    BY <1>2, <2>1 DEF HoldsLease, workVars
  <2>3. IsImage(row[o])
    BY <1>1, <1>2, <2>1, PartTypes DEF IsImage, workVars, IInv, TypeOK
  <2> QED  BY <2>2, <2>3 DEF IInv, UploadMatches
<1>10. TurnTellsParts'
  <2> SUFFICES ASSUME NEW t \in Turns, size'[t] > 0
               PROVE  LET own == {x \in Parts : TurnOf(x) = t /\ Index(x) <= size'[t]}
                      IN  /\ tstat'[t] = "SUCCEEDED" <=> \A x \in own : st'[x] = "SENT"
                          /\ tstat'[t] = "DEAD_LETTER" <=> \E x \in own : st'[x] = "DEAD_LETTER"
    BY DEF TurnTellsParts
  <2>1. CASE t # q
    <3>1. /\ size'[t] = size[t] /\ tstat'[t] = tstat[t]
          /\ \A x \in Parts : TurnOf(x) = t => st'[x] = st[x]
      BY <1>1, <1>2, <2>1 DEF IInv, TypeOK
    <3> QED  BY <3>1 DEF IInv, TurnTellsParts
  <2>2. CASE t = q
    <3>1. /\ size'[t] = n /\ tstat'[t] = "REPLY_PENDING"
          /\ \A x \in Parts : TurnOf(x) = t /\ Index(x) <= n => st'[x] = "PENDING"
      BY <1>1, <1>2, <2>2 DEF IInv, TypeOK
    <3>2. <<t, 1>> \in Parts /\ TurnOf(<<t, 1>>) = t /\ Index(<<t, 1>>) <= n
      BY <1>1, OutboxAssumption DEF Parts, TurnOf, Index
    <3> QED  BY <3>1, <3>2
  <2> QED  BY <2>1, <2>2
<1> QED  BY <1>5, <1>6, <1>7, <1>8, <1>9, <1>10 DEF IInv

-----------------------------------------------------------------------------
(* The theorems.                                                            *)

LEMMA Inductive == IInv /\ [Next]_vars => IInv'
<1> SUFFICES ASSUME IInv, [Next]_vars PROVE IInv'
  OBVIOUS
<1>1. CASE UNCHANGED vars
  <2>1. TypeOK' /\ Calm
    BY <1>1 DEF IInv, TypeOK, Calm, HoldsLease, vars, rowVars, procVars, workVars, userVars
  <2> QED  BY <2>1, CalmPreserves
<1>2. CASE \E q \in Turns : Publish(q)
  BY <1>2, PublishPreserves
<1>3. CASE \E r \in Parts : LeaseExpires(r) \/ RetryDue(r)
  BY <1>3, TimePreserves
<1>4. CASE \E p \in Procs : \E r \in Parts : Claim(p, r)
  BY <1>4, ClaimPreserves
<1>5. CASE \E p \in Procs : Deliver(p)
  BY <1>5, LoadedPreserves, UploadedPreserves, ConfirmedPreserves, FailsPreserves, DropPreserves
  DEF Deliver
<1>6. CASE \E p \in Procs : Start(p) \/ Stop(p) \/ Abort(p) \/ Exit(p) \/ Crash(p) \/ LockLost(p)
  BY <1>6, StartPreserves, StopPreserves, DropPreserves
<1> QED  BY <1>1, <1>2, <1>3, <1>4, <1>5, <1>6 DEF Next

\* The invariant holds in every reachable state.
THEOREM DeliveryInvariance == Spec => []IInv
BY Initially, Inductive, PTL DEF Spec

\* Rows and registers have their types, whatever the processes do to each other.
THEOREM DeliveryTypes == Spec => []TypeOK
<1>1. IInv => TypeOK
  BY DEF IInv
<1> QED  BY <1>1, DeliveryInvariance, PTL

\* markOutboxSent and markOutboxFailed leave the turn with the status its parts deserve.
THEOREM TurnsTell == Spec => []TurnTellsParts
<1>1. IInv => TurnTellsParts
  BY DEF IInv
<1> QED  BY <1>1, DeliveryInvariance, PTL

\* No image is sent with an upload of other credentials.
THEOREM UploadsMatch == Spec => []UploadMatches
<1>1. IInv => UploadMatches
  BY DEF IInv
<1> QED  BY <1>1, DeliveryInvariance, PTL

\* Only a claim and an upload make a request, and both look at the row first.
LEMMA OnlyUnsettledSent ==
    IInv /\ [Next]_vars =>
        \A r \in Parts : st[r] \in {"SENT", "DEAD_LETTER"} => deliveries'[r] = deliveries[r]
<1> SUFFICES ASSUME IInv, [Next]_vars,
                    NEW r \in Parts, st[r] \in {"SENT", "DEAD_LETTER"}
             PROVE  deliveries'[r] = deliveries[r]
  OBVIOUS
<1>1. ASSUME NEW p \in Procs, NEW s \in Parts, Request(p, s), s # r
      PROVE  deliveries'[r] = deliveries[r]
  BY <1>1 DEF Request, IInv, TypeOK
<1>2. ASSUME NEW p \in Procs, NEW s \in Parts, Claim(p, s) PROVE deliveries'[r] = deliveries[r]
  <2>1. s # r
    BY <1>2 DEF Claim, Claimable
  <2> QED  BY <1>1, <1>2, <2>1 DEF Claim, SendText, SendPreparedImage, userVars
<1>3. ASSUME NEW p \in Procs, Uploaded(p) PROVE deliveries'[r] = deliveries[r]
  <2>1. row[p] \in Parts /\ row[p] # r /\ Request(p, row[p])
    BY <1>3 DEF Uploaded, SendPreparedImage, Checks, HoldsLease, IInv, WorkOK
  <2> QED  BY <1>1, <2>1
<1>4. ASSUME NEW p \in Procs, Deliver(p), ~Uploaded(p) PROVE UNCHANGED userVars
  BY <1>4 DEF Deliver, Loaded, Confirmed, Fails, LosesLease
<1>5. ASSUME NEW p \in Procs,
             Start(p) \/ Stop(p) \/ Abort(p) \/ Exit(p) \/ Crash(p) \/ LockLost(p)
      PROVE  UNCHANGED userVars
  BY <1>5 DEF Start, Stop, Abort, Exit, Crash, LockLost
<1>6. ASSUME NEW q \in Turns, Publish(q) PROVE UNCHANGED userVars
  BY <1>6 DEF Publish
<1>7. ASSUME NEW s \in Parts, LeaseExpires(s) \/ RetryDue(s) PROVE UNCHANGED userVars
  BY <1>7 DEF LeaseExpires, RetryDue
<1>8. UNCHANGED vars => UNCHANGED userVars
  BY DEF vars
<1> QED  BY <1>2, <1>3, <1>4, <1>5, <1>6, <1>7, <1>8 DEF Next, userVars

\* What is settled is never sent again, by no process and however late it wakes up.
THEOREM NeverResent == Spec => SettledNotResent
<1>1. IInv /\ [Next]_vars =>
        [\A r \in Parts : st[r] \in {"SENT", "DEAD_LETTER"} => deliveries'[r] = deliveries[r]]_vars
  BY OnlyUnsettledSent
<1> QED  BY <1>1, DeliveryInvariance, PTL DEF Spec, SettledNotResent

-----------------------------------------------------------------------------
(* The detailed specification implements DeliveryOrder.                     *)


\* With a part at work, exactly the ones before it are confirmed.
LEMMA SentBefore ==
    ASSUME NEW q \in Turns, NEW k \in 0..MaxParts, NEW f,
           \A r \in Parts : TurnOf(r) = q => (f[r] = "SENT" <=> Index(r) <= k)
    PROVE  Cardinality({r \in Parts : TurnOf(r) = q /\ f[r] = "SENT"}) = k
<1>1. k \in Nat /\ k <= MaxParts /\ MaxParts \in Nat
  BY OutboxAssumption
<1>2. {r \in Parts : TurnOf(r) = q /\ f[r] = "SENT"} = {q} \X (1..k)
  <2>1. ASSUME NEW r \in Parts, TurnOf(r) = q, f[r] = "SENT" PROVE r \in {q} \X (1..k)
    BY <1>1, <2>1, PartTypes
  <2>2. ASSUME NEW i \in 1..k
        PROVE  <<q, i>> \in Parts /\ TurnOf(<<q, i>>) = q /\ f[<<q, i>>] = "SENT"
    <3>1. <<q, i>> \in Parts /\ TurnOf(<<q, i>>) = q /\ Index(<<q, i>>) = i
      BY <1>1 DEF Parts, TurnOf, Index
    <3> QED  BY <1>1, <3>1
  <2> QED  BY <2>1, <2>2
<1>3. IsFiniteSet({q}) /\ Cardinality({q}) = 1
  BY FS_Singleton
<1>4. IsFiniteSet(1..k) /\ Cardinality(1..k) = k
  <2>1. IsFiniteSet(1..k) /\ Cardinality(1..k) = IF 1 > k THEN 0 ELSE k - 1 + 1
    BY <1>1, FS_Interval
  <2> QED  BY <1>1, <2>1
<1>5. Cardinality({q} \X (1..k)) = Cardinality({q}) * Cardinality(1..k)
  BY <1>3, <1>4, FS_Product, Zenon
<1>6. Cardinality({q}) * Cardinality(1..k) = k
  BY <1>1, <1>3, <1>4
<1> QED  BY <1>2, <1>5, <1>6, Zenon

\* The refinement mapping: how many parts of each reply are confirmed.
SentCount == [q \in Turns |-> Cardinality({r \in Parts : TurnOf(r) = q /\ st[r] = "SENT"})]

LEMMA CountAtWork ==
    ASSUME IInv, NEW r \in Parts, st[r] # "SENT",
           \A x \in Parts : TurnOf(x) = TurnOf(r) /\ Index(x) < Index(r) => st[x] = "SENT"
    PROVE  SentCount[TurnOf(r)] = Index(r) - 1
<1> DEFINE k == Index(r) - 1
<1>1. TurnOf(r) \in Turns /\ Index(r) \in 1..MaxParts /\ k \in 0..MaxParts
  BY PartTypes, OutboxAssumption
<1>2. ASSUME NEW x \in Parts, TurnOf(x) = TurnOf(r) PROVE st[x] = "SENT" <=> Index(x) <= k
  <2>1. CASE Index(x) < Index(r)
    BY <1>1, <1>2, <2>1, PartTypes
  <2>2. CASE x = r
    BY <1>1, <2>2
  <2>3. CASE Index(r) < Index(x)
    <3>1. st[x] \notin Claimed
      BY <1>2, <2>3 DEF IInv, PrefixOK
    <3>2. Index(x) \in 1..MaxParts /\ st[x] # "SENT"
      BY <3>1, PartTypes DEF Claimed
    <3> QED  BY <1>1, <2>3, <3>2, OutboxAssumption
  <2>4. Index(x) < Index(r) \/ x = r \/ Index(r) < Index(x)
    <3>1. Index(x) \in 1..MaxParts
      BY PartTypes
    <3>2. Index(x) = Index(r) => x = r
      BY <1>2, SamePart
    <3> QED  BY <1>1, <3>1, <3>2, OutboxAssumption
  <2> QED  BY <2>1, <2>2, <2>3, <2>4
<1> HIDE DEF k
<1>3. SentCount[TurnOf(r)] = k
  BY <1>1, <1>2, SentBefore DEF SentCount
<1> QED  BY <1>3 DEF k

LEMMA CountUnchanged ==
    ASSUME \A r \in Parts : st'[r] = "SENT" <=> st[r] = "SENT"
    PROVE  SentCount' = SentCount
<1>1. ASSUME NEW q \in Turns
      PROVE  {r \in Parts : TurnOf(r) = q /\ st'[r] = "SENT"}
               = {r \in Parts : TurnOf(r) = q /\ st[r] = "SENT"}
  OBVIOUS
<1> QED  BY <1>1, Zenon DEF SentCount

\* A request is a delivery of the next part, or comes to nothing.
LEMMA RequestDelivers ==
    ASSUME IInv, NEW p \in Procs, NEW r \in Parts, Request(p, r), st[r] # "SENT", st[r] # "none",
           \A x \in Parts : TurnOf(x) = TurnOf(r) /\ Index(x) < Index(r) => st[x] = "SENT",
           \A x \in Parts : st'[x] = "SENT" <=> st[x] = "SENT", UNCHANGED size
    PROVE  UNCHANGED <<size, last, SentCount>> \/ Order!Deliver(TurnOf(r))
<1> DEFINE q == TurnOf(r)
<1>1. q \in Turns /\ Index(r) \in 1..MaxParts /\ Index(r) <= size[q] /\ size[q] \in Nat
  BY PartTypes DEF IInv, RowsOK, TypeOK
<1>2. SentCount' = SentCount
  BY CountUnchanged
<1>3. SentCount[q] = Index(r) - 1
  BY CountAtWork
<1>4. PICK b \in BOOLEAN : last' = [last EXCEPT ![q] = IF b THEN Index(r) ELSE @]
  BY DEF Request
<1>5. CASE b
  <2>1. SentCount[q] < size[q] /\ SentCount[q] + 1 = Index(r)
    BY <1>1, <1>3, OutboxAssumption
  <2>2. last' = [last EXCEPT ![q] = SentCount[q] + 1]
    BY <1>4, <1>5, <2>1
  <2> QED  BY <1>1, <1>2, <2>1, <2>2 DEF Order!Deliver, SentCount
<1>6. CASE ~b
  <2>1. last' = last
    BY <1>4, <1>6 DEF IInv, TypeOK
  <2> QED  BY <1>2, <2>1
<1> QED  BY <1>5, <1>6

LEMMA ConfirmedConfirms ==
    ASSUME IInv, NEW p \in Procs, Confirmed(p) PROVE Order!Confirm(TurnOf(row[p]))
<1> DEFINE r == row[p]
           q == TurnOf(r)
<1>1. /\ r \in Parts /\ q \in Turns /\ Index(r) \in 1..MaxParts /\ st[r] = "SENDING"
      /\ last[q] = Index(r) /\ last \in [Turns -> 0..MaxParts]
  BY PartTypes DEF Confirmed, Checks, HoldsLease, IInv, WorkOK, ReachedOK, TypeOK
<1>2. st' = [st EXCEPT ![r] = "SENT"] /\ st \in [Parts -> RowStatus] /\ UNCHANGED <<size, last>>
  BY DEF Confirmed, IInv, TypeOK, userVars
<1>3. \A x \in Parts : TurnOf(x) = q /\ Index(x) < Index(r) => st[x] = "SENT"
  BY <1>1 DEF IInv, PrefixOK, Claimed
<1>4. SentCount[q] = Index(r) - 1
  BY <1>1, <1>3, CountAtWork
<1>5. \A x \in Parts : TurnOf(x) = q => (st'[x] = "SENT" <=> Index(x) <= Index(r))
  <2> SUFFICES ASSUME NEW x \in Parts, TurnOf(x) = q
               PROVE  st'[x] = "SENT" <=> Index(x) <= Index(r)
    OBVIOUS
  <2>1. Index(x) \in Int /\ Index(r) \in Int /\ (Index(x) = Index(r) => x = r)
    BY <1>1, PartTypes, SamePart, OutboxAssumption
  <2>2. CASE Index(x) < Index(r)
    BY <1>2, <1>3, <2>1, <2>2
  <2>3. CASE x = r
    BY <1>2, <2>1, <2>3
  <2>4. CASE Index(r) < Index(x)
    <3>1. st[x] # "SENT" /\ x # r
      BY <1>1, <2>1, <2>4 DEF IInv, PrefixOK, Claimed
    <3> QED  BY <1>2, <2>1, <2>4, <3>1
  <2> QED  BY <2>1, <2>2, <2>3, <2>4
<1>6. Cardinality({x \in Parts : TurnOf(x) = q /\ st'[x] = "SENT"}) = Index(r)
  <2>1. Index(r) \in 0..MaxParts
    BY <1>1, OutboxAssumption
  <2> QED  BY <1>1, <1>5, <2>1, SentBefore
<1>7. ASSUME NEW t \in Turns, t # q
      PROVE  {x \in Parts : TurnOf(x) = t /\ st'[x] = "SENT"}
               = {x \in Parts : TurnOf(x) = t /\ st[x] = "SENT"}
  BY <1>1, <1>2, <1>7
<1>8. SentCount' = [SentCount EXCEPT ![q] = last[q]]
  BY <1>1, <1>6, <1>7 DEF SentCount
<1>9. last[q] = SentCount[q] + 1
  BY <1>1, <1>4, OutboxAssumption
<1> QED  BY <1>2, <1>8, <1>9 DEF Order!Confirm, SentCount

LEMMA PublishPublishes == ASSUME IInv, NEW q \in Turns, Publish(q) PROVE Order!Publish(q)
<1>1. \A r \in Parts : TurnOf(r) = q => st[r] = "none"
  BY PartTypes DEF Publish, IInv, RowsOK
<1>2. PICK n \in 1..MaxParts :
          /\ size' = [size EXCEPT ![q] = n]
          /\ st' = [r \in Parts |-> IF TurnOf(r) = q /\ Index(r) <= n THEN "PENDING" ELSE st[r]]
  BY DEF Publish
<1>3. SentCount' = SentCount
  <2>1. \A r \in Parts : st'[r] = "SENT" <=> st[r] = "SENT"
    BY <1>1, <1>2
  <2> QED  BY <2>1, CountUnchanged
<1> QED  BY <1>2, <1>3 DEF Publish, Order!Publish, SentCount, userVars

\* Every step of the delivery is one of DeliveryOrder or changes nothing there.
LEMMA StepRefines == IInv /\ [Next]_vars => [Order!Next]_(Order!vars)
<1> SUFFICES ASSUME IInv, [Next]_vars
             PROVE  \/ UNCHANGED <<size, last, SentCount>>
                    \/ \E q \in Turns : Order!Publish(q) \/ Order!Deliver(q) \/ Order!Confirm(q)
  BY DEF Order!Next, Order!vars, SentCount
<1>2. ASSUME UNCHANGED <<size, last>>, \A r \in Parts : st'[r] = "SENT" <=> st[r] = "SENT"
      PROVE  UNCHANGED <<size, last, SentCount>>
  BY <1>2, CountUnchanged
<1>3. CASE UNCHANGED vars
  BY <1>2, <1>3 DEF vars, rowVars, userVars
<1>4. ASSUME NEW q \in Turns, Publish(q) PROVE Order!Publish(q)
  BY <1>4, PublishPublishes
<1>5. ASSUME NEW r \in Parts, LeaseExpires(r) \/ RetryDue(r)
      PROVE  UNCHANGED <<size, last, SentCount>>
  BY <1>2, <1>5 DEF LeaseExpires, RetryDue, userVars
<1>6. ASSUME NEW p \in Procs, NEW r \in Parts, Claim(p, r)
      PROVE  UNCHANGED <<size, last, SentCount>> \/ Order!Deliver(TurnOf(r))
  <2>1. /\ \A x \in Parts : st'[x] = "SENT" <=> st[x] = "SENT"
        /\ UNCHANGED size /\ st[r] # "SENT" /\ st[r] # "none"
        /\ \A x \in Parts : TurnOf(x) = TurnOf(r) /\ Index(x) < Index(r) => st[x] = "SENT"
    BY <1>6, ClaimEffect DEF IInv
  <2>2. Request(p, r) \/ UNCHANGED last
    BY <1>6 DEF Claim, SendText, SendPreparedImage, userVars
  <2> QED  BY <1>2, <2>1, <2>2, RequestDelivers
<1>7. ASSUME NEW p \in Procs, Uploaded(p)
      PROVE  UNCHANGED <<size, last, SentCount>> \/ Order!Deliver(TurnOf(row[p]))
  <2>1. row[p] \in Parts /\ st[row[p]] = "SENDING" /\ UNCHANGED <<size, st>> /\ Request(p, row[p])
    BY <1>7 DEF Uploaded, SendPreparedImage, Checks, HoldsLease, IInv, WorkOK
  <2>2. \A x \in Parts : TurnOf(x) = TurnOf(row[p]) /\ Index(x) < Index(row[p]) => st[x] = "SENT"
    BY <2>1 DEF IInv, PrefixOK, Claimed
  <2> QED  BY <2>1, <2>2, RequestDelivers
<1>8. ASSUME NEW p \in Procs, Confirmed(p) PROVE Order!Confirm(TurnOf(row[p]))
  BY <1>8, ConfirmedConfirms
<1>9. ASSUME NEW p \in Procs, Loaded(p) \/ LosesLease(p)
      PROVE  UNCHANGED <<size, last, SentCount>>
  BY <1>2, <1>9 DEF Loaded, LosesLease, rowVars, userVars
<1>10. ASSUME NEW p \in Procs, Fails(p) PROVE UNCHANGED <<size, last, SentCount>>
  <2>1. row[p] \in Parts /\ st[row[p]] = "SENDING" /\ UNCHANGED <<size, last>>
        /\ st' = [st EXCEPT ![row[p]] = FailedRow(row[p])] /\ st \in [Parts -> RowStatus]
    BY <1>10 DEF Fails, HoldsLease, IInv, WorkOK, TypeOK, userVars
  <2>2. \A r \in Parts : st'[r] = "SENT" <=> st[r] = "SENT"
    BY <2>1 DEF FailedRow
  <2> QED  BY <1>2, <2>1, <2>2
<1>11. ASSUME NEW p \in Procs, Start(p) PROVE UNCHANGED <<size, last, SentCount>>
  BY <1>2, <1>11 DEF Start, Interrupted, userVars
<1>12. ASSUME NEW p \in Procs, Stop(p) \/ Abort(p) \/ Exit(p) \/ Crash(p) \/ LockLost(p)
       PROVE  UNCHANGED <<size, last, SentCount>>
  BY <1>2, <1>12 DEF Stop, Abort, Exit, Crash, LockLost, rowVars, userVars
<1>13. \A p \in Procs : row[p] \in Parts \/ pc[p] = "idle"
  BY DEF IInv, WorkOK
<1>14. CASE \E p \in Procs : Uploaded(p) \/ Confirmed(p)
  <2>1. PICK p \in Procs : Uploaded(p) \/ Confirmed(p)
    BY <1>14
  <2>2. TurnOf(row[p]) \in Turns
    BY <1>13, <2>1, PartTypes DEF Uploaded, Confirmed
  <2> QED  BY <1>7, <1>8, <2>1, <2>2
<1>15. CASE \E p \in Procs : \E r \in Parts : Claim(p, r)
  BY <1>6, <1>15, PartTypes
<1>16. CASE \E q \in Turns : Publish(q)
  BY <1>4, <1>16
<1> QED  BY <1>3, <1>5, <1>9, <1>10, <1>11, <1>12, <1>14, <1>15, <1>16 DEF Next, Deliver

LEMMA InitRefines == Init => Order!Init
<1> SUFFICES ASSUME Init PROVE Order!Init
  OBVIOUS
<1>1. ASSUME NEW q \in Turns
      PROVE  Cardinality({r \in Parts : TurnOf(r) = q /\ st[r] = "SENT"}) = 0
  <2>1. {r \in Parts : TurnOf(r) = q /\ st[r] = "SENT"} = {}
    BY DEF Init
  <2> QED  BY <2>1, FS_EmptySet, Zenon
<1> QED  BY <1>1 DEF Init, Order!Init

\* The parts of every reply reach the user in order and at least once, and none is repeated
\* once it is confirmed: any number of replies, processes, crashes and lost answers.
THEOREM DeliveredInOrder == Spec => InOrder
BY DeliveryInvariance, InitRefines, StepRefines, PTL DEF Spec, InOrder, Order!Spec

-----------------------------------------------------------------------------
(* How often a part may be repeated.                                        *)

\* A part reaches the user at most once in every try, and is tried at most MaxAttempts times
\* and once more for every restart that finds it in flight.
RepeatsBounded ==
    \A r \in Parts :
        deliveries[r] <= attempts[r] /\ (attempts[r] > 0 => attempts[r] < MaxAttempts + starts)

\* The number of a try belongs to one process, and a try that has not sent yet has not.
TryOK ==
    /\ \A p \in Procs : pc[p] # "idle" => try[p] <= attempts[row[p]]
    /\ \A p, o \in Procs :
           pc[p] # "idle" /\ pc[o] # "idle" /\ row[p] = row[o] /\ try[p] = try[o] => p = o
    /\ \A p \in Procs :
           pc[p] \in {"loading", "uploading"} /\ try[p] = attempts[row[p]] =>
               deliveries[row[p]] < attempts[row[p]]

\* What may be claimed has a try left; before the first start there is nothing.
LeftOK ==
    /\ \A p \in Procs : mode[p] # "down" => starts > 0
    /\ \A r \in Parts :
           /\ st[r] # "none" => starts > 0
           /\ st[r] \in {"none", "PENDING"} => attempts[r] = 0
           /\ st[r] = "RETRY_WAIT" => attempts[r] + 1 < MaxAttempts + starts

DInv == IInv /\ RepeatsBounded /\ TryOK /\ LeftOK

LEMMA NumberFacts ==
    ASSUME TypeOK
    PROVE  /\ MaxAttempts \in Nat /\ MaxAttempts > 0 /\ starts \in Nat
           /\ \A r \in Parts : attempts[r] \in Nat /\ deliveries[r] \in Nat
           /\ \A p \in Procs : try[p] \in Nat
BY OutboxAssumption DEF TypeOK

LEMMA DInitially == Init => RepeatsBounded /\ TryOK /\ LeftOK
BY OutboxAssumption DEF Init, RepeatsBounded, TryOK, LeftOK

\* Steps that try and send nothing.
Settles ==
    /\ UNCHANGED <<attempts, deliveries>> /\ starts <= starts'
    /\ \A p \in Procs : pc'[p] # "idle" =>
          /\ pc[p] # "idle" /\ row'[p] = row[p] /\ try'[p] = try[p]
          /\ pc'[p] \in {"loading", "uploading"} => pc[p] \in {"loading", "uploading"}
    /\ \A p \in Procs : mode'[p] # "down" => (mode[p] # "down" \/ starts' > 0)
    /\ \A r \in Parts :
          \/ st'[r] = st[r]
          \/ st'[r] \in {"SENT", "DEAD_LETTER"} /\ st[r] # "none"
          \/ st[r] = "none" /\ st'[r] = "PENDING" /\ starts > 0
          \/ st[r] # "none" /\ st'[r] = "RETRY_WAIT" /\ attempts[r] < MaxAttempts
          \/ st[r] = "SENDING" /\ st'[r] = "RETRY_WAIT" /\ starts' = starts + 1

LEMMA SettlesBounded == ASSUME DInv, Settles, TypeOK' PROVE RepeatsBounded' /\ TryOK' /\ LeftOK'
<1>1. TypeOK /\ starts' \in Nat
  BY DEF DInv, IInv, TypeOK
<1>2. RepeatsBounded'
  BY <1>1, NumberFacts DEF DInv, RepeatsBounded, Settles
<1>3. TryOK'
  BY DEF DInv, TryOK, Settles
<1>4. ASSUME NEW p \in Procs, mode'[p] # "down" PROVE starts' > 0
  BY <1>1, <1>4, NumberFacts DEF DInv, LeftOK, Settles
<1>5. ASSUME NEW r \in Parts
      PROVE  /\ st'[r] # "none" => starts' > 0
             /\ st'[r] \in {"none", "PENDING"} => attempts'[r] = 0
             /\ st'[r] = "RETRY_WAIT" => attempts'[r] + 1 < MaxAttempts + starts'
  <2>1. /\ attempts'[r] = attempts[r] /\ starts <= starts'
        /\ attempts[r] \in Nat /\ MaxAttempts \in Nat /\ MaxAttempts > 0 /\ starts \in Nat
    BY <1>1, NumberFacts DEF Settles
  <2>2. st[r] # "none" => starts > 0
    BY DEF DInv, LeftOK
  <2>3. CASE st'[r] = st[r]
    BY <1>1, <2>1, <2>2, <2>3 DEF DInv, LeftOK
  <2>4. CASE st'[r] \in {"SENT", "DEAD_LETTER"} /\ st[r] # "none"
    BY <1>1, <2>1, <2>2, <2>4
  <2>5. CASE st[r] = "none" /\ st'[r] = "PENDING" /\ starts > 0
    BY <1>1, <2>1, <2>5 DEF DInv, LeftOK
  <2>6. CASE st[r] # "none" /\ st'[r] = "RETRY_WAIT" /\ attempts[r] < MaxAttempts
    BY <1>1, <2>1, <2>2, <2>6
  <2>7. CASE st[r] = "SENDING" /\ st'[r] = "RETRY_WAIT" /\ starts' = starts + 1
    <3>1. attempts[r] > 0 => attempts[r] < MaxAttempts + starts
      BY DEF DInv, RepeatsBounded
    <3> QED  BY <2>1, <2>2, <2>7, <3>1
  <2> QED  BY <2>3, <2>4, <2>5, <2>6, <2>7 DEF Settles
<1> QED  BY <1>2, <1>3, <1>4, <1>5 DEF LeftOK

\* Of those, the ones that leave the rows alone.
LEMMA RestingBounded ==
    ASSUME DInv, TypeOK', UNCHANGED <<attempts, deliveries, st, starts>>,
           \A p \in Procs : pc'[p] # "idle" =>
              /\ pc[p] # "idle" /\ row'[p] = row[p] /\ try'[p] = try[p]
              /\ pc'[p] \in {"loading", "uploading"} => pc[p] \in {"loading", "uploading"},
           \A p \in Procs : mode'[p] # "down" => mode[p] # "down"
    PROVE  RepeatsBounded' /\ TryOK' /\ LeftOK'
<1>1. starts \in Nat
  BY DEF DInv, IInv, TypeOK
<1>2. Settles
  BY <1>1 DEF Settles
<1> QED  BY <1>2, SettlesBounded

LEMMA QuietBounded ==
    ASSUME DInv, TypeOK',
           \/ \E r \in Parts : LeaseExpires(r) \/ RetryDue(r)
           \/ \E p \in Procs : \/ Loaded(p) \/ LosesLease(p) \/ Crash(p) \/ Stop(p)
                               \/ Abort(p) \/ Exit(p) \/ LockLost(p)
    PROVE  RepeatsBounded' /\ TryOK' /\ LeftOK'
<1>1. TypeOK
  BY DEF DInv, IInv
<1>2. CASE \E r \in Parts : LeaseExpires(r) \/ RetryDue(r)
  <2>1. UNCHANGED <<attempts, deliveries, st, starts, mode, pc, row, try>>
    BY <1>2 DEF LeaseExpires, RetryDue, procVars, workVars, userVars
  <2> QED  BY <2>1, RestingBounded
<1>3. CASE \E p \in Procs : Loaded(p)
  <2>1. PICK p \in Procs : Loaded(p)
    BY <1>3
  <2>2. /\ UNCHANGED <<attempts, deliveries, st, starts, mode, row, try>>
        /\ pc[p] = "loading" /\ pc' = [pc EXCEPT ![p] = "uploading"]
    BY <2>1 DEF Loaded, rowVars, procVars, userVars
  <2> QED  BY <1>1, <2>2, RestingBounded DEF TypeOK
<1>4. CASE \E p \in Procs : LosesLease(p) \/ Crash(p)
  <2>1. PICK p \in Procs : LosesLease(p) \/ Crash(p)
    BY <1>4
  <2>2. /\ UNCHANGED <<attempts, deliveries, st, starts>> /\ Release(p)
        /\ \A o \in Procs : mode'[o] # "down" => mode[o] # "down"
    BY <1>1, <2>1 DEF LosesLease, Crash, rowVars, procVars, userVars, TypeOK
  <2> QED  BY <1>1, <2>2, ReleaseTypes, RestingBounded
<1>5. CASE \E p \in Procs : Stop(p) \/ Abort(p) \/ Exit(p) \/ LockLost(p)
  <2>1. PICK p \in Procs : Stop(p) \/ Abort(p) \/ Exit(p) \/ LockLost(p)
    BY <1>5
  <2>2. /\ UNCHANGED <<attempts, deliveries, st, starts, pc, row, try>>
        /\ \A o \in Procs : mode'[o] # "down" => mode[o] # "down"
    BY <1>1, <2>1 DEF Stop, Abort, Exit, LockLost, rowVars, workVars, userVars, TypeOK
  <2> QED  BY <2>2, RestingBounded
<1> QED  BY <1>2, <1>3, <1>4, <1>5

LEMMA PublishBounded ==
    ASSUME DInv, TypeOK', NEW q \in Turns, Publish(q)
    PROVE  RepeatsBounded' /\ TryOK' /\ LeftOK'
<1>1. starts > 0 /\ starts \in Nat
  BY DEF Publish, DInv, IInv, TypeOK, LeftOK
<1>2. PICK n \in 1..MaxParts :
          st' = [r \in Parts |-> IF TurnOf(r) = q /\ Index(r) <= n THEN "PENDING" ELSE st[r]]
  BY DEF Publish
<1>3. ASSUME NEW r \in Parts, TurnOf(r) = q PROVE st[r] = "none"
  <2>1. Index(r) \in 1..MaxParts /\ size[q] = 0
    BY PartTypes DEF Publish
  <2> QED  BY <1>3, <2>1, OutboxAssumption DEF DInv, IInv, RowsOK
<1>4. \A r \in Parts : st'[r] = st[r] \/ (st[r] = "none" /\ st'[r] = "PENDING")
  BY <1>2, <1>3
<1>5. UNCHANGED <<attempts, deliveries, starts, mode, pc, row, try>>
  BY DEF Publish, procVars, workVars, userVars
<1>6. Settles
  BY <1>1, <1>4, <1>5 DEF Settles
<1> QED  BY <1>6, SettlesBounded

\* A row leaves the hands of its process, or those of a dead one.
LEMMA GivenBackBounded ==
    ASSUME DInv, TypeOK', NEW p \in Procs, Confirmed(p) \/ Fails(p) \/ Start(p)
    PROVE  RepeatsBounded' /\ TryOK' /\ LeftOK'
<1>1. TypeOK /\ starts \in Nat /\ st \in [Parts -> RowStatus]
  BY DEF DInv, IInv, TypeOK
<1>2. CASE Confirmed(p) \/ Fails(p)
  <2>1. /\ pc[p] # "idle" /\ row[p] \in Parts /\ st[row[p]] = "SENDING" /\ Release(p)
        /\ UNCHANGED <<attempts, procVars, userVars>>
    BY <1>2 DEF Confirmed, Fails, Checks, HoldsLease, DInv, IInv, WorkOK
  <2>2. \/ st' = [st EXCEPT ![row[p]] = "SENT"]
        \/ st' = [st EXCEPT ![row[p]] = FailedRow(row[p])]
    BY <1>2 DEF Confirmed, Fails
  <2>3. FailedRow(row[p]) = "DEAD_LETTER"
        \/ (FailedRow(row[p]) = "RETRY_WAIT" /\ attempts[row[p]] < MaxAttempts)
    BY <1>1, <2>1, NumberFacts DEF FailedRow, Exhausted
  <2>4. ASSUME NEW r \in Parts
        PROVE  \/ st'[r] = st[r]
               \/ st'[r] \in {"SENT", "DEAD_LETTER"} /\ st[r] # "none"
               \/ st[r] # "none" /\ st'[r] = "RETRY_WAIT" /\ attempts[r] < MaxAttempts
    BY <1>1, <2>1, <2>2, <2>3
  <2>5. UNCHANGED <<attempts, deliveries, starts, mode>>
    BY <2>1 DEF procVars, userVars
  <2>6. \A o \in Procs : pc'[o] # "idle" => /\ pc'[o] = pc[o] /\ row'[o] = row[o]
                                           /\ try'[o] = try[o]
    BY <1>1, <2>1, ReleaseTypes
  <2>7. Settles
    BY <1>1, <2>4, <2>5, <2>6 DEF Settles
  <2> QED  BY <2>7, SettlesBounded
<1>3. CASE Start(p)
  <2>1. UNCHANGED <<attempts, deliveries, pc, row, try>> /\ starts' = starts + 1
    BY <1>3 DEF Start, workVars, userVars
  <2>2. \A r \in Parts : st'[r] = st[r] \/ (st[r] = "SENDING" /\ st'[r] = "RETRY_WAIT")
    BY <1>3 DEF Start, Interrupted
  <2>3. Settles
    BY <1>1, <2>1, <2>2 DEF Settles
  <2> QED  BY <2>3, SettlesBounded
<1> QED  BY <1>2, <1>3

LEMMA RequestCounts ==
    ASSUME TypeOK, NEW p \in Procs, NEW r \in Parts, Request(p, r)
    PROVE  /\ pc' = [pc EXCEPT ![p] = "sending"] /\ deliveries'[r] <= deliveries[r] + 1
           /\ \A x \in Parts \ {r} : deliveries'[x] = deliveries[x]
BY DEF Request, TypeOK

LEMMA UploadedBounded ==
    ASSUME DInv, TypeOK', NEW p \in Procs, Uploaded(p)
    PROVE  RepeatsBounded' /\ TryOK' /\ LeftOK'
<1> DEFINE r == row[p]
<1>1. /\ r \in Parts /\ pc[p] = "uploading" /\ try[p] = attempts[r] /\ Request(p, r)
      /\ UNCHANGED <<attempts, st, mode, starts, row, try>>
  BY DEF Uploaded, Checks, HoldsLease, SendPreparedImage, DInv, IInv, WorkOK, procVars
<1>2. /\ TypeOK /\ pc' = [pc EXCEPT ![p] = "sending"] /\ deliveries[r] < attempts[r]
      /\ deliveries'[r] <= deliveries[r] + 1
      /\ \A x \in Parts \ {r} : deliveries'[x] = deliveries[x]
  BY <1>1, RequestCounts DEF DInv, IInv, TryOK
<1>3. RepeatsBounded'
  <2>1. deliveries'[r] \in Nat /\ deliveries[r] \in Nat /\ attempts[r] \in Nat
    BY <1>1, <1>2, NumberFacts DEF TypeOK
  <2>2. deliveries'[r] <= attempts[r]
    BY <1>2, <2>1
  <2> QED  BY <1>1, <1>2, <2>2 DEF DInv, RepeatsBounded
<1>4. TryOK'
  <2>1. \A o \in Procs : o # p => pc'[o] = pc[o]
    BY <1>2 DEF TypeOK
  <2>2. \A o \in Procs : pc'[o] # "idle" => pc[o] # "idle" /\ row[o] \in Parts
    BY <1>1, <2>1 DEF DInv, IInv, WorkOK
  <2>3. ASSUME NEW o \in Procs, pc'[o] \in {"loading", "uploading"}, try[o] = attempts[row[o]]
        PROVE  deliveries'[row[o]] < attempts[row[o]]
    <3>1. o # p /\ pc[o] \in {"loading", "uploading"} /\ row[o] \in Parts
      BY <1>2, <2>1, <2>2, <2>3 DEF TypeOK
    <3>2. row[o] # r
      BY <1>1, <2>3, <3>1 DEF DInv, TryOK
    <3> QED  BY <1>2, <2>3, <3>1, <3>2 DEF DInv, TryOK
  <2> QED  BY <1>1, <2>2, <2>3 DEF DInv, TryOK
<1>5. LeftOK'
  BY <1>1 DEF DInv, LeftOK
<1> QED  BY <1>3, <1>4, <1>5

LEMMA ClaimBounded ==
    ASSUME DInv, TypeOK', NEW p \in Procs, NEW r \in Parts, Claim(p, r)
    PROVE  RepeatsBounded' /\ TryOK' /\ LeftOK'
<1>1. /\ TypeOK /\ starts \in Nat /\ attempts[r] \in Nat /\ deliveries[r] \in Nat
      /\ MaxAttempts \in Nat /\ MaxAttempts > 0 /\ deliveries'[r] \in Nat
  BY NumberFacts DEF DInv, IInv, TypeOK
<1>2. /\ pc[p] = "idle" /\ st[r] \in {"PENDING", "RETRY_WAIT"} /\ mode[p] = "run"
      /\ UNCHANGED <<mode, starts>>
      /\ attempts' = [attempts EXCEPT ![r] = @ + 1] /\ st' = [st EXCEPT ![r] = "SENDING"]
      /\ row' = [row EXCEPT ![p] = r] /\ try' = [try EXCEPT ![p] = attempts[r] + 1]
  BY DEF Claim, Claimable, procVars
<1>3. /\ deliveries'[r] <= deliveries[r] + 1
      /\ \A x \in Parts \ {r} : deliveries'[x] = deliveries[x]
      /\ \A o \in Procs \ {p} : pc'[o] = pc[o]
      /\ pc'[p] \in {"loading", "uploading"} => deliveries' = deliveries
  <2>1. CASE Request(p, r)
    BY <1>1, <2>1, RequestCounts DEF TypeOK
  <2>2. CASE pc' = [pc EXCEPT ![p] = "loading"] /\ UNCHANGED <<reached, userVars>>
    BY <1>1, <2>2 DEF TypeOK, userVars
  <2> QED  BY <2>1, <2>2 DEF Claim, SendText, SendPreparedImage
<1>4. /\ attempts'[r] = attempts[r] + 1 /\ \A x \in Parts \ {r} : attempts'[x] = attempts[x]
      /\ row'[p] = r /\ try'[p] = attempts[r] + 1
      /\ \A o \in Procs \ {p} : row'[o] = row[o] /\ try'[o] = try[o]
      /\ st'[r] = "SENDING" /\ \A x \in Parts \ {r} : st'[x] = st[x]
  BY <1>1, <1>2 DEF TypeOK
<1>5. attempts[r] + 1 < MaxAttempts + starts
  BY <1>1, <1>2 DEF DInv, LeftOK
<1>6. RepeatsBounded'
  <2>1. deliveries'[r] <= attempts'[r]
    BY <1>1, <1>3, <1>4 DEF DInv, RepeatsBounded
  <2> QED  BY <1>1, <1>2, <1>3, <1>4, <1>5, <2>1 DEF DInv, RepeatsBounded
<1>7. TryOK'
  <2>1. \A o \in Procs \ {p} : pc'[o] # "idle" =>
            /\ pc[o] # "idle" /\ row[o] \in Parts /\ try[o] \in Nat /\ attempts[row[o]] \in Nat
            /\ try[o] <= attempts[row[o]]
    BY <1>1, <1>3, NumberFacts DEF DInv, IInv, WorkOK, TryOK
  <2>2. \A o \in Procs \ {p} : pc'[o] # "idle" =>
            try'[o] <= attempts'[row'[o]] /\ (row'[o] = r => try'[o] < attempts[r] + 1)
    BY <1>1, <1>4, <2>1
  <2>3. \A o \in Procs \ {p} :
            pc'[o] \in {"loading", "uploading"} /\ try'[o] = attempts'[row'[o]] =>
                deliveries'[row'[o]] < attempts'[row'[o]]
    BY <1>1, <1>3, <1>4, <2>1, <2>2 DEF DInv, TryOK
  <2>4. pc'[p] \in {"loading", "uploading"} => deliveries'[r] < attempts'[r]
    BY <1>1, <1>3, <1>4 DEF DInv, RepeatsBounded
  <2>5. try'[p] <= attempts'[row'[p]]
    BY <1>1, <1>4
  <2>6. ASSUME NEW o \in Procs, NEW x \in Procs, pc'[o] # "idle", pc'[x] # "idle",
               row'[o] = row'[x], try'[o] = try'[x]
        PROVE  o = x
    BY <1>1, <1>3, <1>4, <2>1, <2>2, <2>6 DEF DInv, TryOK
  <2> QED  BY <1>4, <2>2, <2>3, <2>4, <2>5, <2>6 DEF TryOK
<1>8. LeftOK'
  BY <1>2, <1>4 DEF DInv, LeftOK
<1> QED  BY <1>6, <1>7, <1>8

\* sqlite-control-plane.ts, claimNextOutbox and recoverInterrupted: lost answers and restarts
\* repeat a part, but never more often than once a try, and the tries are bounded by the
\* configured number and one more for every start, for any overlapping incarnations.
THEOREM RarelyRepeated == Spec => []RepeatsBounded
<1>1. ASSUME DInv, [Next]_vars, IInv' PROVE RepeatsBounded' /\ TryOK' /\ LeftOK'
  <2>1. TypeOK'
    BY <1>1 DEF IInv
  <2>2. CASE UNCHANGED vars
    BY <1>1, <2>2
    DEF vars, rowVars, procVars, workVars, userVars, DInv, RepeatsBounded, TryOK, LeftOK
  <2> QED  BY <1>1, <2>1, <2>2, QuietBounded, PublishBounded, GivenBackBounded, UploadedBounded, ClaimBounded
           DEF Next, Deliver
<1> QED  BY DInitially, DeliveryInvariance, <1>1, PTL DEF Spec, DInv
=============================================================================
