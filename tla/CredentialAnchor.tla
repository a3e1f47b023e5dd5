--------------------------- MODULE CredentialAnchor ---------------------------
(***************************************************************************)
(* How one trip credential gets onto the ledger: credential.service.js     *)
(* changes the credential row and then queues a job, blockchain.queue.js   *)
(* works through the jobs, the gateway turns a job into a transaction of   *)
(* TrustAnchor.  Backend, gateway and chain fail apart from each other: a  *)
(* worker that gave up on a call does not stop the gateway, and the call   *)
(* may still be mined while the job is tried again.                        *)
(***************************************************************************)
EXTENDS TrustAnchor, FiniteSets

CONSTANTS
    Kind,           \* "INDIVIDUAL" or "GROUP": the table the credential is in
    Jobs,           \* ids of blockchain_anchor_jobs rows, in createdAt order
    Workers,        \* queue workers: one per backend process
    Requests,       \* requests the backend serves at a time
    Calls,          \* requests the gateway serves at a time
    MaxAttempts,    \* BLOCKCHAIN_MAX_ATTEMPTS
    MaxFaults,      \* bound on chain errors, late answers and restarts
    None

ASSUME AnchorAssumption ==
    /\ Kind \in {"INDIVIDUAL", "GROUP"}
    /\ Jobs \subseteq Nat \ {0} /\ IsFiniteSet(Jobs)
    /\ Payloads = Jobs
    /\ MaxAttempts \in Nat \ {0}
    /\ MaxFaults \in Nat
    /\ None \notin Hashes \cup Jobs \cup Calls

VARIABLES
    planned,    \* trip.plannedEndAt
    cred,       \* the credential row: chainHash, expiresAt, revokedAt, chainStatus
    jobs,       \* [Jobs -> the job row]
    failedBefore, \* the FAILED jobs' updatedAt order, as a relation
    req,        \* [Requests -> what the handler in flight remembers]
    wkr,        \* [Workers -> the job the worker is on]
    call,       \* [Calls -> the gateway's handler]
    faults

backend == <<planned, cred, jobs, failedBefore, req, wkr>>
vars == <<ledger, backend, call, faults>>

Operations == {"ISSUE", "EXTEND", "REVOKE", "SNAPSHOT"}
NoJob == [op |-> "NONE", hash |-> None, arg |-> 0, state |-> "NONE", attempts |-> 0]
NoRow == [hash |-> None, exp |-> 0, revoked |-> FALSE, status |-> "NONE"]
Idle == [pc |-> "idle", hash |-> None, arg |-> 0, row |-> FALSE]
Resting == [pc |-> "idle", job |-> None, tries |-> 0, call |-> None]
Free == [pc |-> "free", job |-> None]

Init ==
    /\ LedgerInit
    /\ planned \in Expiries
    /\ cred = NoRow
    /\ jobs = [j \in Jobs |-> NoJob]
    /\ failedBefore = {}
    /\ req = [r \in Requests |-> Idle]
    /\ wkr = [w \in Workers |-> Resting]
    /\ call = [c \in Calls |-> Free]
    /\ faults = 0

Fault == faults < MaxFaults /\ faults' = faults + 1

-----------------------------------------------------------------------------
(* The requests of credential.service.js *)

Start(r, next) == req[r] = Idle /\ req' = [req EXCEPT ![r] = next]
Continue(r, pc) == req' = [req EXCEPT ![r].pc = pc]
Finish(r) == req' = [req EXCEPT ![r] = Idle]

\* queue.enqueue: the next job row, PENDING and due at once.
Enqueue(op, hash, arg) ==
    \E j \in Jobs :
        /\ jobs[j] = NoJob
        /\ \A k \in Jobs : k < j => jobs[k] # NoJob
        /\ jobs' = [jobs EXCEPT ![j] = [op |-> op, hash |-> hash, arg |-> arg,
                                        state |-> "PENDING", attempts |-> 0]]

\* hashCredential over a random public id and token id: never seen before.
FreshHash(h) == /\ cred.hash # h
                /\ \A j \in Jobs : jobs[j].hash # h
                /\ \A q \in Requests : req[q].hash # h

\* ensureIndividual issues again when the credential is revoked or has expired,
\* which, without a clock, it may have at any time; createGroupCredential once.
BeginIssue(r, h) ==
    /\ cred = NoRow \/ Kind = "INDIVIDUAL"
    /\ FreshHash(h)
    /\ Start(r, [pc |-> "writeIssue", hash |-> h, arg |-> planned, row |-> cred # NoRow])
    /\ UNCHANGED <<ledger, planned, cred, jobs, failedBefore, wkr, call, faults>>

\* A second insert of the row breaks its unique key; an update does not.
WriteIssue(r) ==
    /\ req[r].pc = "writeIssue"
    /\ IF req[r].row \/ cred = NoRow
       THEN /\ cred' = [hash |-> req[r].hash, exp |-> req[r].arg,
                        revoked |-> FALSE, status |-> "PENDING"]
            /\ Continue(r, "addIssue")
       ELSE Finish(r) /\ UNCHANGED cred
    /\ UNCHANGED <<ledger, planned, jobs, failedBefore, wkr, call, faults>>

\* A tourist without a date of birth is refused only now: no snapshot is queued.
AddIssue(r) ==
    /\ req[r].pc = "addIssue"
    /\ Enqueue("ISSUE", req[r].hash, req[r].arg)
    /\ \/ req' = [req EXCEPT ![r].pc = "addSnapshot", ![r].arg = 1]
       \/ Kind = "INDIVIDUAL" /\ Finish(r)
    /\ UNCHANGED <<ledger, planned, cred, failedBefore, wkr, call, faults>>

AddSnapshot(r) ==
    /\ req[r].pc = "addSnapshot"
    /\ Enqueue("SNAPSHOT", req[r].hash, req[r].arg)
    /\ Finish(r)
    /\ UNCHANGED <<ledger, planned, cred, failedBefore, wkr, call, faults>>

\* appendGroupMembershipSnapshot: the sequence number is one more than the
\* number of snapshot jobs that exist now.
SnapshotJobs == {j \in Jobs : jobs[j].op = "SNAPSHOT"}
BeginMembershipSnapshot(r) ==
    /\ Kind = "GROUP"
    /\ cred # NoRow
    /\ Start(r, [pc |-> "addSnapshot", hash |-> cred.hash,
                 arg |-> Cardinality(SnapshotJobs) + 1, row |-> TRUE])
    /\ UNCHANGED <<ledger, planned, cred, jobs, failedBefore, wkr, call, faults>>

\* extendTrip of trip.service.js moves the trip's end, then lists the credentials.
BeginExtend(r, e) ==
    /\ e > planned
    /\ planned' = e
    /\ Start(r, [Idle EXCEPT !.pc = "list", !.arg = e])
    /\ UNCHANGED <<ledger, cred, jobs, failedBefore, wkr, call, faults>>

\* Mutant of ListCredentials: a trip without a credential is not skipped.
ListAnyway(r) ==
    /\ req[r].pc = "list"
    /\ Continue(r, "writeExtend")
    /\ UNCHANGED <<ledger, planned, cred, jobs, failedBefore, wkr, call, faults>>

ListCredentials(r) ==
    /\ req[r].pc = "list"
    /\ IF cred = NoRow \/ cred.revoked THEN Finish(r) ELSE Continue(r, "writeExtend")
    /\ UNCHANGED <<ledger, planned, cred, jobs, failedBefore, wkr, call, faults>>

WriteExtend(r) ==
    /\ req[r].pc = "writeExtend"
    /\ cred' = [cred EXCEPT !.exp = req[r].arg, !.status = "PENDING"]
    /\ req' = [req EXCEPT ![r].pc = "addExtend", ![r].hash = cred.hash]
    /\ UNCHANGED <<ledger, planned, jobs, failedBefore, wkr, call, faults>>

AddExtend(r) ==
    /\ req[r].pc = "addExtend"
    /\ Enqueue("EXTEND", req[r].hash, req[r].arg)
    /\ Finish(r)
    /\ UNCHANGED <<ledger, planned, cred, failedBefore, wkr, call, faults>>

\* revokeTrip, and revokeIndividual when a member leaves.
BeginRevoke(r) ==
    /\ cred # NoRow
    /\ ~cred.revoked
    /\ Start(r, [Idle EXCEPT !.pc = "writeRevoke"])
    /\ UNCHANGED <<ledger, planned, cred, jobs, failedBefore, wkr, call, faults>>

\* Mutant of WriteRevoke: revokedAt is left to the queue.
WriteRevokeLater(r) ==
    /\ req[r].pc = "writeRevoke"
    /\ cred' = [cred EXCEPT !.status = "PENDING"]
    /\ req' = [req EXCEPT ![r].pc = "addRevoke", ![r].hash = cred.hash]
    /\ UNCHANGED <<ledger, planned, jobs, failedBefore, wkr, call, faults>>

WriteRevoke(r) ==
    /\ req[r].pc = "writeRevoke"
    /\ cred' = [cred EXCEPT !.revoked = TRUE, !.status = "PENDING"]
    /\ req' = [req EXCEPT ![r].pc = "addRevoke", ![r].hash = cred.hash]
    /\ UNCHANGED <<ledger, planned, jobs, failedBefore, wkr, call, faults>>

AddRevoke(r) ==
    /\ req[r].pc = "addRevoke"
    /\ Enqueue("REVOKE", req[r].hash, 0)
    /\ Finish(r)
    /\ UNCHANGED <<ledger, planned, cred, failedBefore, wkr, call, faults>>

\* retryFailed, when a credential that is FAILED is looked at: the job that
\* failed last, of whatever operation.
FailedJobs == {j \in Jobs : jobs[j].state = "FAILED"}
FailedExcept(js) == {p \in failedBefore : p[1] \notin js /\ p[2] \notin js}
BeginRetry(r, j) ==
    /\ cred.status = "FAILED"
    /\ j \in FailedJobs
    /\ \A k \in FailedJobs : <<j, k>> \notin failedBefore
    /\ Start(r, [Idle EXCEPT !.pc = "requeue", !.arg = j])
    /\ UNCHANGED <<ledger, planned, cred, jobs, failedBefore, wkr, call, faults>>

Requeue(r) ==
    LET j == req[r].arg
    IN  /\ req[r].pc = "requeue"
        /\ jobs' = [jobs EXCEPT ![j].state = "PENDING", ![j].attempts = 0]
        /\ failedBefore' = FailedExcept({j})
        /\ cred' = [cred EXCEPT !.status = "PENDING"]
        /\ Finish(r)
        /\ UNCHANGED <<ledger, planned, wkr, call, faults>>

\* retryFailedSnapshots, from the integrity job: the chain has no snapshot of a
\* confirmed credential, or cannot be read, and the newest snapshot job failed.
RequeueSnapshots ==
    /\ cred.status = "CONFIRMED" /\ ~cred.revoked
    /\ \E j \in SnapshotJobs : /\ jobs[j].state = "FAILED"
                               /\ \A k \in SnapshotJobs : k <= j
    /\ jobs' = [j \in Jobs |-> IF j \in SnapshotJobs /\ jobs[j].state = "FAILED"
                               THEN [jobs[j] EXCEPT !.state = "PENDING", !.attempts = 0]
                               ELSE jobs[j]]
    /\ failedBefore' = FailedExcept(SnapshotJobs)
    /\ UNCHANGED <<ledger, planned, cred, req, wkr, call, faults>>

-----------------------------------------------------------------------------
(* The queue's worker, processNext *)

\* findFirst, oldest first among the due jobs.  A job that was not tried since it
\* was queued is due; one that was tried is due once its backoff has passed.
Due(j) == /\ jobs[j].state = "PENDING"
          /\ \A k \in Jobs : k < j /\ jobs[k].state = "PENDING" => jobs[k].attempts > 0

Pick(w, j) ==
    /\ wkr[w] = Resting
    /\ Due(j)
    /\ wkr' = [wkr EXCEPT ![w] = [Resting EXCEPT !.pc = "claim", !.job = j,
                                                 !.tries = jobs[j].attempts]]
    /\ UNCHANGED <<ledger, planned, cred, jobs, failedBefore, req, call, faults>>

\* The gateway's handler starts with the call.
Send(w, c) ==
    /\ call[c] = Free
    /\ call' = [call EXCEPT ![c] =
                  [pc |-> IF jobs[wkr[w].job].op = "SNAPSHOT" THEN "count" ELSE "tx",
                   job |-> wkr[w].job]]
    /\ wkr' = [wkr EXCEPT ![w].pc = "wait", ![w].call = c]

\* Mutant of Claim: the attempt is not counted.
ClaimUncounted(w, c) ==
    /\ wkr[w].pc = "claim"
    /\ IF jobs[wkr[w].job].state = "PENDING"
       THEN jobs' = [jobs EXCEPT ![wkr[w].job].state = "PROCESSING"] /\ Send(w, c)
       ELSE wkr' = [wkr EXCEPT ![w] = Resting] /\ UNCHANGED <<jobs, call>>
    /\ UNCHANGED <<ledger, planned, cred, failedBefore, req, faults>>

\* updateMany on the id and state PENDING; a worker that comes second goes on.
Claim(w, c) ==
    /\ wkr[w].pc = "claim"
    /\ IF jobs[wkr[w].job].state = "PENDING"
       THEN /\ jobs' = [jobs EXCEPT ![wkr[w].job].state = "PROCESSING",
                                    ![wkr[w].job].attempts = @ + 1]
            /\ Send(w, c)
       ELSE wkr' = [wkr EXCEPT ![w] = Resting] /\ UNCHANGED <<jobs, call>>
    /\ UNCHANGED <<ledger, planned, cred, failedBefore, req, faults>>

\* Only credential jobs write the credential's chainStatus.
ShowStatus(op, status) ==
    cred' = IF op = "SNAPSHOT" THEN cred ELSE [cred EXCEPT !.status = status]

\* Mutant of Confirm: the HTTP status of the answer is not looked at.
ConfirmAnyAnswer(w) ==
    LET j == wkr[w].job
        c == wkr[w].call
    IN  /\ wkr[w].pc = "wait"
        /\ call[c].pc \in {"ok", "error"}
        /\ jobs' = [jobs EXCEPT ![j].state = "CONFIRMED"]
        /\ ShowStatus(jobs[j].op, "CONFIRMED")
        /\ call' = [call EXCEPT ![c] = Free]
        /\ wkr' = [wkr EXCEPT ![w] = Resting]
        /\ UNCHANGED <<ledger, planned, failedBefore, req, faults>>

Confirm(w) ==
    LET j == wkr[w].job
        c == wkr[w].call
    IN  /\ wkr[w].pc = "wait"
        /\ call[c].pc = "ok"
        /\ jobs' = [jobs EXCEPT ![j].state = "CONFIRMED"]
        /\ ShowStatus(jobs[j].op, "CONFIRMED")
        /\ call' = [call EXCEPT ![c] = Free]
        /\ wkr' = [wkr EXCEPT ![w] = Resting]
        /\ UNCHANGED <<ledger, planned, failedBefore, req, faults>>

\* The gateway answered with an error, or, as a fault, its answer does not arrive
\* in time or cannot be stored.  A gateway handler at work goes on.
Fail(w) ==
    LET j == wkr[w].job
        c == wkr[w].call
        state == IF wkr[w].tries + 1 >= MaxAttempts THEN "FAILED" ELSE "PENDING"
    IN  /\ wkr[w].pc = "wait"
        /\ IF call[c].pc = "error" THEN UNCHANGED faults ELSE Fault
        /\ jobs' = [jobs EXCEPT ![j].state = state]
        /\ failedBefore' = IF state = "FAILED"
                           THEN FailedExcept({j}) \cup {<<k, j>> : k \in FailedJobs \ {j}}
                           ELSE failedBefore
        /\ ShowStatus(jobs[j].op, state)
        /\ call' = IF call[c].pc \in {"ok", "error"} THEN [call EXCEPT ![c] = Free] ELSE call
        /\ wkr' = [wkr EXCEPT ![w] = Resting]
        /\ UNCHANGED <<ledger, planned, req>>

\* The outcome cannot be stored at all: the job stays PROCESSING.
LoseOutcome(w) ==
    LET c == wkr[w].call
    IN  /\ Fault
        /\ wkr[w].pc = "wait"
        /\ call' = IF call[c].pc \in {"ok", "error"} THEN [call EXCEPT ![c] = Free] ELSE call
        /\ wkr' = [wkr EXCEPT ![w] = Resting]
        /\ UNCHANGED <<ledger, planned, cred, jobs, failedBefore, req>>

-----------------------------------------------------------------------------
(* The gateway *)

Op(c) == jobs[call[c].job].op
HashOf(c) == jobs[call[c].job].hash
Arg(c) == jobs[call[c].job].arg

Awaited(c) == \E w \in Workers : wkr[w].pc = "wait" /\ wkr[w].call = c
Answer(c, pc) == call' = [call EXCEPT ![c] = IF Awaited(c) THEN [@ EXCEPT !.pc = pc] ELSE Free]
GoTo(c, pc) == call' = [call EXCEPT ![c].pc = pc]

\* /v1/snapshots/append reads the count first; a sequence number the chain has
\* passed is answered as done.
CountSnapshots(c) ==
    /\ call[c].pc = "count"
    /\ IF Len(snapshots[HashOf(c)]) >= Arg(c) THEN Answer(c, "ok") ELSE GoTo(c, "tx")
    /\ UNCHANGED <<ledger, backend, faults>>

Mine(c) ==
    /\ call[c].pc = "tx"
    /\ \/ Op(c) = "ISSUE" /\ IssueId(HashOf(c), Arg(c))
       \/ Op(c) = "EXTEND" /\ ExtendId(HashOf(c), Arg(c))
       \/ Op(c) = "REVOKE" /\ RevokeId(HashOf(c))
       \/ Op(c) = "SNAPSHOT" /\ AppendDataSnapshot(HashOf(c), call[c].job, Arg(c))
    /\ Answer(c, "ok")
    /\ UNCHANGED <<backend, faults>>

\* The contract's require fails.
Reverts(c) ==
    LET id == ids[HashOf(c)]
    IN  CASE Op(c) = "ISSUE"    -> id.status # "ABSENT"
          [] Op(c) = "EXTEND"   -> id.status # "ACTIVE" \/ Arg(c) <= id.exp
          [] Op(c) = "REVOKE"   -> id.status # "ACTIVE"
          [] Op(c) = "SNAPSHOT" -> \/ id.status = "ABSENT"
                                   \/ Arg(c) # Len(snapshots[HashOf(c)]) + 1

\* The catch clauses: issue, extend and revoke look at the id again, a snapshot
\* is an error.
Revert(c) ==
    /\ call[c].pc = "tx"
    /\ Reverts(c)
    /\ IF Op(c) = "SNAPSHOT" THEN Answer(c, "error") ELSE GoTo(c, "verify")
    /\ UNCHANGED <<ledger, backend, faults>>

\* require(expiresAt > issuedAt): the trip's end had passed when the credential was
\* written.  Times are not compared here, so any first issue may be refused.
RefuseWindow(c) ==
    /\ call[c].pc = "tx"
    /\ Op(c) = "ISSUE" /\ ids[HashOf(c)].status = "ABSENT"
    /\ Answer(c, "error")
    /\ UNCHANGED <<ledger, backend, faults>>

\* Mutant of DoneBefore: an id that is ACTIVE counts as extended.
ActiveIsExtended(c) ==
    LET id == ids[HashOf(c)]
    IN  \/ Op(c) = "ISSUE" /\ id.exp = Arg(c)
        \/ Op(c) = "EXTEND" /\ id.status = "ACTIVE"
        \/ Op(c) = "REVOKE" /\ id.status = "REVOKED"

\* What verifyId must show for the call to count as done before.
DoneBefore(c) ==
    LET id == ids[HashOf(c)]
    IN  \/ Op(c) = "ISSUE" /\ id.exp = Arg(c)
        \/ Op(c) = "EXTEND" /\ id.exp = Arg(c) /\ id.status = "ACTIVE"
        \/ Op(c) = "REVOKE" /\ id.status = "REVOKED"

\* An id whose end has passed reads as EXPIRED, so an extension may not be
\* recognised any more.
Verify(c) ==
    /\ call[c].pc = "verify"
    /\ \/ Answer(c, IF DoneBefore(c) THEN "ok" ELSE "error")
       \/ Op(c) = "EXTEND" /\ Answer(c, "error")
    /\ UNCHANGED <<ledger, backend, faults>>

\* The chain cannot be reached.  Extend and revoke look at the id after any error.
Unreachable(c) ==
    /\ Fault
    /\ call[c].pc \in {"count", "tx", "verify"}
    /\ IF call[c].pc = "tx" /\ Op(c) \in {"EXTEND", "REVOKE"}
       THEN GoTo(c, "verify")
       ELSE Answer(c, "error")
    /\ UNCHANGED <<ledger, backend>>

-----------------------------------------------------------------------------
\* The backend restarts: jobs keep their state, PROCESSING ones too.
Crash ==
    /\ Fault
    /\ req' = [r \in Requests |-> Idle]
    /\ wkr' = [w \in Workers |-> Resting]
    /\ call' = [c \in Calls |-> IF call[c].pc \in {"ok", "error"} THEN Free ELSE call[c]]
    /\ UNCHANGED <<ledger, planned, cred, jobs, failedBefore>>

RequestStep(r) ==
    \/ \E h \in Hashes : BeginIssue(r, h)
    \/ \E e \in Expiries : BeginExtend(r, e)
    \/ BeginMembershipSnapshot(r)
    \/ BeginRevoke(r)
    \/ \E j \in Jobs : BeginRetry(r, j)
    \/ WriteIssue(r)
    \/ AddIssue(r)
    \/ AddSnapshot(r)
    \/ ListCredentials(r)
    \/ WriteExtend(r)
    \/ AddExtend(r)
    \/ WriteRevoke(r)
    \/ AddRevoke(r)
    \/ Requeue(r)

WorkerStep(w) ==
    \/ \E j \in Jobs : Pick(w, j)
    \/ \E c \in Calls : Claim(w, c)
    \/ Confirm(w)
    \/ Fail(w)
    \/ LoseOutcome(w)

GatewayStep(c) ==
    \/ CountSnapshots(c)
    \/ Mine(c)
    \/ Revert(c)
    \/ RefuseWindow(c)
    \/ Verify(c)
    \/ Unreachable(c)

Next ==
    \/ \E r \in Requests : RequestStep(r)
    \/ RequeueSnapshots
    \/ \E w \in Workers : WorkerStep(w)
    \/ \E c \in Calls : GatewayStep(c)
    \/ Crash

Spec == Init /\ [][Next]_vars

\* The worker's timer runs while there is work, and a call of it ends by an answer
\* or by its 60-second limit.  A tried job is left alone only until its backoff
\* (60 seconds at most) has passed, so it is not passed over for ever.
WorkerFairness ==
    /\ \A w \in Workers, j \in Jobs : SF_vars(Pick(w, j))
    /\ \A w \in Workers : SF_vars(\E c \in Calls : Claim(w, c)) /\ WF_vars(Confirm(w) \/ Fail(w))
    /\ \A c \in Calls : WF_vars(GatewayStep(c))

FairSpec == Spec /\ WorkerFairness

-----------------------------------------------------------------------------
(* Properties *)

Job == [op : Operations \cup {"NONE"}, hash : Hashes \cup {None}, arg : Nat,
        state : {"NONE", "PENDING", "PROCESSING", "CONFIRMED", "FAILED"}, attempts : Nat]
Row == [hash : Hashes \cup {None}, exp : Nat, revoked : BOOLEAN,
        status : {"NONE", "PENDING", "CONFIRMED", "FAILED"}]
Request == [pc : {"idle", "writeIssue", "addIssue", "addSnapshot", "list", "writeExtend",
                  "addExtend", "writeRevoke", "addRevoke", "requeue"},
            hash : Hashes \cup {None}, arg : Nat, row : BOOLEAN]
Worker == [pc : {"idle", "claim", "wait"}, job : Jobs \cup {None}, tries : Nat,
           call : Calls \cup {None}]
Call == [pc : {"free", "count", "tx", "verify", "ok", "error"}, job : Jobs \cup {None}]

\* Every row holds a value of its columns, and the queue, its workers and the
\* gateway name jobs that exist.
TypeOK ==
    /\ LedgerTypeOK
    /\ planned \in Expiries
    /\ cred \in Row /\ (cred # NoRow => cred.hash \in Hashes)
    /\ jobs \in [Jobs -> Job]
    /\ \A j \in Jobs : jobs[j] # NoJob => jobs[j].op \in Operations /\ jobs[j].hash \in Hashes
    /\ failedBefore \subseteq Jobs \X Jobs
    /\ req \in [Requests -> Request]
    /\ wkr \in [Workers -> Worker]
    /\ call \in [Calls -> Call]
    /\ faults \in 0..MaxFaults

\* What the chain must show once job j is done.
Anchored(j) ==
    LET id == ids[jobs[j].hash]
    IN  CASE jobs[j].op = "ISSUE"    -> id.status # "ABSENT"
          [] jobs[j].op = "EXTEND"   -> id.status # "ABSENT" /\ id.exp >= jobs[j].arg
          [] jobs[j].op = "REVOKE"   -> id.status = "REVOKED"
          [] jobs[j].op = "SNAPSHOT" -> Len(snapshots[jobs[j].hash]) >= jobs[j].arg

\* A job is CONFIRMED only when the chain has what it asked for, also when the
\* answer to an earlier try was lost and the gateway says "done before".
ConfirmedIsAnchored == \A j \in Jobs : jobs[j].state = "CONFIRMED" => Anchored(j)

\* The k-th snapshot on the chain is one that was queued as number k of that
\* credential: retries and late transactions never append one twice.
SnapshotsInOrder ==
    \A h \in Hashes : \A k \in 1..Len(snapshots[h]) :
        LET j == snapshots[h][k]
        IN  jobs[j].op = "SNAPSHOT" /\ jobs[j].hash = h /\ jobs[j].arg = k

\* The chain never refuses a credential that the database still honours.
RevokedHereFirst ==
    cred.hash \in Hashes /\ ids[cred.hash].status = "REVOKED" => cred.revoked

\* A credential shown as CONFIRMED is on the ledger.
ConfirmedIsIssued == cred.status = "CONFIRMED" => ids[cred.hash].status # "ABSENT"

\* A job its worker lost, in a restart or with the outcome: nothing looks for
\* PROCESSING jobs.
Abandoned(j) == jobs[j].state = "PROCESSING" /\ \A w \in Workers : wkr[w].job # j

\* Every queued job is confirmed, given up, or abandoned: none is tried for ever
\* or passed over for ever.
JobsSettle ==
    \A j \in Jobs : jobs[j].state \in {"PENDING", "PROCESSING"}
                      ~> jobs[j].state \in {"CONFIRMED", "FAILED"} \/ Abandoned(j)

\* "Snapshot jobs have their own job state and do not overwrite the credential's
\* issuance status."
SnapshotsKeepStatus ==
    [][\A j \in Jobs : jobs[j].op = "SNAPSHOT" /\ jobs'[j].state # jobs[j].state
         => cred'.status = cred.status]_vars

\* "Group member join appends, rather than overwrites, snapshot history": a
\* snapshot whose job is CONFIRMED is on the chain.
SnapshotsKept ==
    \A j \in Jobs : jobs[j].op = "SNAPSHOT" /\ jobs[j].state = "CONFIRMED" =>
        \E k \in 1..Len(snapshots[jobs[j].hash]) : snapshots[jobs[j].hash][k] = j
=============================================================================
