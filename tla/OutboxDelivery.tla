--------------------------- MODULE OutboxDelivery ---------------------------
(***************************************************************************)
(* Delivery of replies: completeTurn leaves the parts of a reply in table  *)
(* outbox; a process claims a part under a lease, uploads an image first,  *)
(* sends, and settles.  Processes crash, stop and start again; one that    *)
(* has lost the data directory's lock may still be at work when the next   *)
(* has started.                                                            *)
(*                                                                         *)
(* A request takes effect at the channel, or does not, when it is made;    *)
(* its answer comes later or never.  Which of the due rows is claimed      *)
(* first depends on wall-clock times and is left open.                     *)
(***************************************************************************)
EXTENDS Integers, FiniteSets, Functions

CONSTANTS
    Turns,        \* turns with a reply
    Procs,        \* incarnations of the service that can overlap
    Credentials,  \* imageCredentialScope of each incarnation
    MaxParts,     \* bound: parts of a reply
    MaxAttempts,  \* options.maxAttempts
    MaxStarts,    \* bound: starts of the service
    Faults        \* BOOLEAN: may renewals come late or fail, and the lock get lost?

ASSUME OutboxAssumption ==
    /\ MaxParts \in Nat \ {0} /\ MaxAttempts \in Nat \ {0} /\ MaxStarts \in Nat
    /\ Faults \in BOOLEAN /\ IsFiniteSet(Turns)
    /\ Credentials \in [Procs -> STRING]

NoProc == "none"
NoScope == "none"
Parts == Turns \X (1..MaxParts)
TurnOf(r) == r[1]
Index(r) == r[2]

VARIABLES
    size, texts,      \* rows of a reply: its parts, and how many are texts (images follow)
    tstat,            \* status of the turn
    st, attempts,     \* columns of table outbox
    owner, fresh,     \* lease_owner, and whether lease_expires_at is ahead
    due,              \* whether next_attempt_at has come
    prepared,         \* prepared_image_scope
    mode, holder,     \* state of each process, and who holds the service lock
    pc, row, try,     \* DeliverReply of each process: stage, claimed row and attemptNo
    reached,          \* did the request in flight take effect?
    starts,
    deliveries, last  \* history: times a part reached the user, and the latest part

rowVars == <<size, texts, tstat, st, attempts, owner, fresh, due, prepared>>
procVars == <<mode, holder, starts>>
workVars == <<pc, row, try, reached>>
userVars == <<deliveries, last>>
vars == <<rowVars, procVars, workVars, userVars>>

RowStatus == {"none", "PENDING", "SENDING", "SENT", "RETRY_WAIT", "DEAD_LETTER"}
NoRow == <<"none", 0>>

\* Types of the columns and of the registers of every process.
TypeOK ==
    /\ size \in [Turns -> 0..MaxParts] /\ texts \in [Turns -> 0..MaxParts]
    /\ tstat \in [Turns -> {"none", "REPLY_PENDING", "SUCCEEDED", "DEAD_LETTER"}]
    /\ st \in [Parts -> RowStatus] /\ attempts \in [Parts -> Nat]
    /\ owner \in [Parts -> Procs \cup {NoProc}]
    /\ fresh \in [Parts -> BOOLEAN] /\ due \in [Parts -> BOOLEAN]
    /\ prepared \in [Parts -> Range(Credentials) \cup {NoScope}]
    /\ mode \in [Procs -> {"down", "run", "stop", "abort"}]
    /\ holder \in Procs \cup {NoProc}
    /\ pc \in [Procs -> {"idle", "loading", "uploading", "sending"}]
    /\ row \in [Procs -> Parts \cup {NoRow}] /\ try \in [Procs -> Nat]
    /\ reached \in [Procs -> BOOLEAN] /\ starts \in Nat
    /\ deliveries \in [Parts -> Nat] /\ last \in [Turns -> 0..MaxParts]

Init ==
    /\ size = [q \in Turns |-> 0] /\ texts = [q \in Turns |-> 0]
    /\ tstat = [q \in Turns |-> "none"]
    /\ st = [r \in Parts |-> "none"] /\ attempts = [r \in Parts |-> 0]
    /\ owner = [r \in Parts |-> NoProc]
    /\ fresh = [r \in Parts |-> FALSE] /\ due = [r \in Parts |-> FALSE]
    /\ prepared = [r \in Parts |-> NoScope]
    /\ mode = [p \in Procs |-> "down"] /\ holder = NoProc
    /\ starts = 0
    /\ pc = [p \in Procs |-> "idle"] /\ row = [p \in Procs |-> NoRow]
    /\ try = [p \in Procs |-> 0] /\ reached = [p \in Procs |-> FALSE]
    /\ deliveries = [r \in Parts |-> 0] /\ last = [q \in Turns |-> 0]

-----------------------------------------------------------------------------
(* The rows.                                                                *)

\* completeTurn's INSERTs: texts, then images, all or none.
Publish(q) ==
    /\ size[q] = 0 /\ \E p \in Procs : mode[p] = "run"
    /\ \E n \in 1..MaxParts : \E k \in 0..n :
          /\ size' = [size EXCEPT ![q] = n] /\ texts' = [texts EXCEPT ![q] = k]
          /\ st' = [r \in Parts |-> IF TurnOf(r) = q /\ Index(r) <= n THEN "PENDING" ELSE st[r]]
          /\ due' = [r \in Parts |-> IF TurnOf(r) = q /\ Index(r) <= n THEN TRUE ELSE due[r]]
    /\ tstat' = [tstat EXCEPT ![q] = "REPLY_PENDING"]
    /\ UNCHANGED <<attempts, owner, fresh, prepared, procVars, workVars, userVars>>

\* Mutant: the rows are claimed whatever became of the earlier ones of the reply.
ClaimableAlone(r) == st[r] \in {"PENDING", "RETRY_WAIT"} /\ due[r]

\* Mutant: a row that waits for its retry is not claimed.
ClaimableOnce(r) ==
    /\ st[r] = "PENDING" /\ due[r]
    /\ \A s \in Parts : TurnOf(s) = TurnOf(r) /\ Index(s) < Index(r) => st[s] = "SENT"

\* claimNextOutbox: a part whose earlier parts have all been sent.
Claimable(r) ==
    /\ st[r] \in {"PENDING", "RETRY_WAIT"} /\ due[r]
    /\ \A s \in Parts : TurnOf(s) = TurnOf(r) /\ Index(s) < Index(r) => st[s] = "SENT"

\* assertOutboxLease and the WHERE of renewOutboxLease, for the row process p works on.
HoldsLease(p) ==
    /\ st[row[p]] = "SENDING" /\ owner[row[p]] = p /\ attempts[row[p]] = try[p]
    /\ fresh[row[p]]

\* Somebody runs who works on the row under its current attempt.
Attended(r) ==
    \E p \in Procs : /\ mode[p] # "down" /\ pc[p] # "idle"
                     /\ row[p] = r /\ try[p] = attempts[r]

\* The heartbeat keeps a lease alive; it may come too late.
LeaseExpires(r) ==
    /\ st[r] = "SENDING" /\ fresh[r]
    /\ ~Attended(r) \/ Faults
    /\ fresh' = [fresh EXCEPT ![r] = FALSE]
    /\ UNCHANGED <<size, texts, tstat, st, attempts, owner, due, prepared, procVars, workVars,
                   userVars>>

RetryDue(r) ==
    /\ st[r] = "RETRY_WAIT" /\ ~due[r]
    /\ due' = [due EXCEPT ![r] = TRUE]
    /\ UNCHANGED <<size, texts, tstat, st, attempts, owner, fresh, prepared, procVars, workVars,
                   userVars>>

-----------------------------------------------------------------------------
(* DeliverReply of one process.                                             *)

\* Mutant: the lease is not looked at before the next call.
ChecksSignalOnly(p) == mode[p] # "abort"

\* check: the work signal, then a renewal that fails if the lease is gone.
Checks(p) == mode[p] # "abort" /\ HoldsLease(p)

\* An image, by its artifact_id.
IsImage(r) == Index(r) > texts[TurnOf(r)]

\* post: the request takes effect at the channel or not; its answer is awaited.
Request(p, r) ==
    /\ pc' = [pc EXCEPT ![p] = "sending"]
    /\ \E arrives \in BOOLEAN :
          /\ reached' = [reached EXCEPT ![p] = arrives]
          /\ deliveries' = [deliveries EXCEPT ![r] = @ + IF arrives THEN 1 ELSE 0]
          /\ last' = [last EXCEPT ![TurnOf(r)] = IF arrives THEN Index(r) ELSE @]

SendText(p, r) == ~IsImage(r) /\ Request(p, r)
SendPreparedImage(p, r) == IsImage(r) /\ Request(p, r)

\* Mutant: an upload made with other credentials is used again.
Reusable(r, sc) == prepared[r] # NoScope

\* getPreparedImage: an upload is used again only with the credentials it was made with.
IsPrepared(r, sc) == prepared[r] = sc

\* claimNextOutbox, and execute up to its first await.
Claim(p, r) ==
    /\ mode[p] = "run" /\ pc[p] = "idle" /\ Claimable(r)
    /\ st' = [st EXCEPT ![r] = "SENDING"]
    /\ attempts' = [attempts EXCEPT ![r] = @ + 1]
    /\ owner' = [owner EXCEPT ![r] = p] /\ fresh' = [fresh EXCEPT ![r] = TRUE]
    /\ row' = [row EXCEPT ![p] = r] /\ try' = [try EXCEPT ![p] = attempts[r] + 1]
    /\ \/ SendText(p, r)
       \/ IsPrepared(r, Credentials[p]) /\ SendPreparedImage(p, r)
       \/ /\ IsImage(r) /\ ~IsPrepared(r, Credentials[p])
          /\ pc' = [pc EXCEPT ![p] = "loading"] /\ UNCHANGED <<reached, userVars>>
    /\ UNCHANGED <<size, texts, tstat, due, prepared, procVars>>

\* The file is read and its digest compared; the upload begins.
Loaded(p) ==
    /\ pc[p] = "loading" /\ Checks(p)
    /\ pc' = [pc EXCEPT ![p] = "uploading"]
    /\ UNCHANGED <<rowVars, procVars, row, try, reached, userVars>>

SavePrepared(p) == prepared' = [prepared EXCEPT ![row[p]] = Credentials[p]]

\* prepareImage returns: what it uploaded is saved and sent in one segment.
Uploaded(p) ==
    /\ pc[p] = "uploading" /\ Checks(p)
    /\ SavePrepared(p) /\ SendPreparedImage(p, row[p])
    /\ UNCHANGED <<size, texts, tstat, st, attempts, owner, fresh, due, procVars, row, try>>

\* The worker's loop goes on to the next row.
Release(p) ==
    /\ pc' = [pc EXCEPT ![p] = "idle"] /\ row' = [row EXCEPT ![p] = NoRow]
    /\ try' = [try EXCEPT ![p] = 0] /\ reached' = [reached EXCEPT ![p] = FALSE]

\* Mutant: the turn is done with the first part that is sent.
TurnSentEarly(q, r) == TRUE

\* No row of the turn but r, which is sent now, is unsent.
TurnSent(q, r) ==
    \A s \in Parts : TurnOf(s) = q /\ Index(s) <= size[q] /\ s # r => st[s] = "SENT"

\* The channel has confirmed: markOutboxSent.
Confirmed(p) ==
    LET r == row[p]
        q == TurnOf(r)
    IN  /\ pc[p] = "sending" /\ reached[p] /\ Checks(p)
        /\ st' = [st EXCEPT ![r] = "SENT"]
        /\ owner' = [owner EXCEPT ![r] = NoProc] /\ fresh' = [fresh EXCEPT ![r] = FALSE]
        /\ tstat' = [tstat EXCEPT ![q] = IF TurnSent(q, r) /\ @ = "REPLY_PENDING"
                                         THEN "SUCCEEDED" ELSE @]
        /\ Release(p)
        /\ UNCHANGED <<size, texts, attempts, due, prepared, procVars, userVars>>

Exhausted(r) == attempts[r] >= MaxAttempts

\* Mutant: the row gets the status of its attempt.
FailedAsAttempt(r) == IF Exhausted(r) THEN "DEAD_LETTER" ELSE "FAILED"

FailedRow(r) == IF Exhausted(r) THEN "DEAD_LETTER" ELSE "RETRY_WAIT"

\* A call failed, or was aborted: markOutboxFailed, which asserts the lease too.
Fails(p) ==
    LET r == row[p]
        q == TurnOf(r)
    IN  /\ pc[p] # "idle" /\ HoldsLease(p)
        /\ st' = [st EXCEPT ![r] = FailedRow(r)]
        /\ owner' = [owner EXCEPT ![r] = NoProc] /\ fresh' = [fresh EXCEPT ![r] = FALSE]
        /\ due' = [due EXCEPT ![r] = FALSE]
        /\ tstat' = [tstat EXCEPT ![q] = IF Exhausted(r) /\ @ = "REPLY_PENDING"
                                         THEN "DEAD_LETTER" ELSE @]
        /\ Release(p)
        /\ UNCHANGED <<size, texts, attempts, prepared, procVars, userVars>>

\* A worker that lost its lease, or could not tell, leaves the row as it is.
LosesLease(p) ==
    /\ pc[p] # "idle"
    /\ ~HoldsLease(p) \/ Faults
    /\ Release(p)
    /\ UNCHANGED <<rowVars, procVars, userVars>>

\* What execute does after the claim.
Deliver(p) == Loaded(p) \/ Uploaded(p) \/ Confirmed(p) \/ Fails(p) \/ LosesLease(p)

-----------------------------------------------------------------------------
(* The service.                                                             *)

\* recoverInterrupted: a row whose lease has expired.
Interrupted(r) == st[r] = "SENDING" /\ ~fresh[r]

\* Lock, recovery, loops.
Start(p) ==
    /\ mode[p] = "down" /\ holder = NoProc /\ starts < MaxStarts
    /\ mode' = [mode EXCEPT ![p] = "run"] /\ holder' = p /\ starts' = starts + 1
    /\ st' = [r \in Parts |-> IF Interrupted(r) THEN "RETRY_WAIT" ELSE st[r]]
    /\ owner' = [r \in Parts |-> IF Interrupted(r) THEN NoProc ELSE owner[r]]
    /\ fresh' = [r \in Parts |-> IF Interrupted(r) THEN FALSE ELSE fresh[r]]
    /\ UNCHANGED <<size, texts, tstat, attempts, due, prepared, workVars, userVars>>

\* No more claims; the part in hand may be finished.
Stop(p) ==
    /\ mode[p] = "run"
    /\ mode' = [mode EXCEPT ![p] = "stop"]
    /\ UNCHANGED <<rowVars, holder, starts, workVars, userVars>>

\* The grace period is over, or the process has noticed that it lost the lock.
Abort(p) ==
    /\ mode[p] = "stop" \/ (mode[p] = "run" /\ holder # p)
    /\ mode' = [mode EXCEPT ![p] = "abort"]
    /\ UNCHANGED <<rowVars, holder, starts, workVars, userVars>>

Unlocked(p) == IF holder = p THEN NoProc ELSE holder

Exit(p) ==
    /\ mode[p] \in {"stop", "abort"} /\ pc[p] = "idle"
    /\ mode' = [mode EXCEPT ![p] = "down"] /\ holder' = Unlocked(p)
    /\ UNCHANGED <<rowVars, starts, workVars, userVars>>

Crash(p) ==
    /\ mode[p] # "down"
    /\ mode' = [mode EXCEPT ![p] = "down"] /\ holder' = Unlocked(p)
    /\ Release(p)
    /\ UNCHANGED <<rowVars, starts, userVars>>

\* The lock of a process that stalls becomes stale.
LockLost(p) ==
    /\ Faults /\ holder = p
    /\ holder' = NoProc
    /\ UNCHANGED <<rowVars, mode, starts, workVars, userVars>>

Next ==
    \/ \E q \in Turns : Publish(q)
    \/ \E r \in Parts : LeaseExpires(r) \/ RetryDue(r)
    \/ \E p \in Procs : \/ \E r \in Parts : Claim(p, r)
                        \/ Deliver(p)
                        \/ Start(p) \/ Stop(p) \/ Abort(p) \/ Exit(p) \/ Crash(p) \/ LockLost(p)

Spec == Init /\ [][Next]_vars

\* The loop of a process claims again after every part, its calls have time limits, and
\* retry times come.
Fairness ==
    /\ \A p \in Procs : WF_vars(Deliver(p)) /\ WF_vars(\E r \in Parts : Claim(p, r))
    /\ \A r \in Parts : WF_vars(RetryDue(r))
FairSpec == Spec /\ Fairness

-----------------------------------------------------------------------------
(* Properties.                                                              *)

\* The status of the turn tells what became of its parts: SUCCEEDED when all have been
\* confirmed, DEAD_LETTER when one was given up.
TurnTellsParts ==
    \A q \in Turns : size[q] > 0 =>
        LET own == {r \in Parts : TurnOf(r) = q /\ Index(r) <= size[q]}
        IN  /\ tstat[q] = "SUCCEEDED" <=> \A r \in own : st[r] = "SENT"
            /\ tstat[q] = "DEAD_LETTER" <=> \E r \in own : st[r] = "DEAD_LETTER"

\* A part that has been confirmed, or given up, never reaches the user again, whoever was
\* working on it before: a process that stalled, too.
SettledNotResent ==
    [][\A r \in Parts : st[r] \in {"SENT", "DEAD_LETTER"} => deliveries'[r] = deliveries[r]]_vars

\* The upload a request refers to was made with the credentials of the request.
UploadMatches ==
    \A p \in Procs :
        pc[p] = "sending" /\ HoldsLease(p) /\ IsImage(row[p]) => prepared[row[p]] = Credentials[p]

\* Parts reach the user in order and at least once.
Order == INSTANCE DeliveryOrder
    WITH confirmed <- [q \in Turns |-> Cardinality({r \in Parts : TurnOf(r) = q
                                                                  /\ st[r] = "SENT"})]
InOrder == Order!Spec

Unsettled(r) == st[r] \in {"PENDING", "SENDING", "RETRY_WAIT"}
BehindDead(r) ==
    \E s \in Parts : TurnOf(s) = TurnOf(r) /\ Index(s) < Index(r) /\ st[s] = "DEAD_LETTER"
Orphaned(r) == st[r] = "SENDING" /\ ~Attended(r)
BehindOrphan(r) ==
    \E s \in Parts : TurnOf(s) = TurnOf(r) /\ Index(s) <= Index(r) /\ Orphaned(s)
KeepsRunning == <>[](\E p \in Procs : mode[p] = "run")

\* While the service runs, every part is confirmed or given up, unless an earlier part was
\* given up or a part was left behind by a process that lost its lease.
RepliesEnd ==
    KeepsRunning => \A r \in Parts :
        Unsettled(r) ~> ~Unsettled(r) \/ BehindDead(r) \/ BehindOrphan(r)

\* Replies that were ready when the service went down are sent on after the restart.
RepliesResume ==
    KeepsRunning => \A r \in Parts : Unsettled(r) ~> ~Unsettled(r) \/ BehindDead(r)
=============================================================================
