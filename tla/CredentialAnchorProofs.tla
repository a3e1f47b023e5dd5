----------------------- MODULE CredentialAnchorProofs -----------------------
(***************************************************************************)
(* What the chain has, what the queue says it has and what the credential  *)
(* row says, for every number of jobs, workers, requests, calls and        *)
(* faults.  The argument: job rows keep their operation, hash and number   *)
(* once queued (Keep), the ledger only grows (HistoryGrows), so what a     *)
(* gateway call found done stays done until its worker stores the answer.  *)
(***************************************************************************)
EXTENDS CredentialAnchor, FiniteSetTheorems, TLAPS

\* A record that exists ends after time 0, one that does not ends at 0.
LedgerSane == \A h \in Hashes : ids[h].status = "ABSENT" => ids[h].exp = 0

Queued(j) == j \in Jobs /\ jobs[j].op \in Operations

\* Before the credential row exists nothing is queued and only its insert is under way.
RowFirst ==
    cred.hash \notin Hashes =>
        /\ cred = NoRow
        /\ \A j \in Jobs : jobs[j] = NoJob
        /\ \A r \in Requests : req[r].pc \in {"idle", "writeIssue", "list"}

JobsSane ==
    \A j \in Jobs : /\ jobs[j].op = "NONE" => jobs[j] = NoJob
                    /\ jobs[j].op = "ISSUE" => jobs[j].arg > 0

WithHash == {"writeIssue", "addIssue", "addSnapshot", "addExtend", "addRevoke"}
RequestSane(r) ==
    /\ req[r].pc = "idle" => req[r] = Idle
    /\ req[r].pc \in WithHash => req[r].hash \in Hashes
    /\ req[r].pc \in {"writeIssue", "addIssue"} => req[r].arg > 0
    /\ req[r].pc = "requeue" => Queued(req[r].arg)
RequestsSane == \A r \in Requests : RequestSane(r)

\* A worker that waits has a call of its own, for its job.
WorkersSane ==
    \A w \in Workers :
        /\ wkr[w].pc = "idle" => wkr[w] = Resting
        /\ wkr[w].pc # "idle" => Queued(wkr[w].job)
        /\ wkr[w].pc = "wait" =>
              /\ wkr[w].call \in Calls
              /\ call[wkr[w].call].pc # "free"
              /\ call[wkr[w].call].job = wkr[w].job
              /\ \A v \in Workers \ {w} : wkr[v].pc = "wait" => wkr[v].call # wkr[w].call

\* A call answered "ok" has its effect on the chain.
CallSane(c) ==
    /\ call[c].pc # "free" => Queued(call[c].job)
    /\ call[c].pc = "count" => Op(c) = "SNAPSHOT"
    /\ call[c].pc = "ok" => Anchored(call[c].job)
CallsSane == \A c \in Calls : CallSane(c)

\* The hash of an issue that is not written yet is nowhere else.
FreshWrite ==
    \A r \in Requests : req[r].pc = "writeIssue" =>
        /\ cred.hash # req[r].hash
        /\ \A j \in Jobs : jobs[j].hash # req[r].hash
        /\ \A q \in Requests \ {r} : req[q].hash # req[r].hash

\* The chain revokes what a queued job revokes, which the database revoked before.
RevokesFollow ==
    /\ \A j \in Jobs : jobs[j].op = "REVOKE" /\ jobs[j].hash = cred.hash => cred.revoked
    /\ \A r \in Requests : req[r].pc = "addRevoke" /\ req[r].hash = cred.hash => cred.revoked
    /\ \A h \in Hashes : ids[h].status = "REVOKED" =>
          \E j \in Jobs : jobs[j].op = "REVOKE" /\ jobs[j].hash = h

IInv == /\ TypeOK
        /\ LedgerSane
        /\ RowFirst
        /\ JobsSane
        /\ RequestsSane
        /\ WorkersSane
        /\ CallsSane
        /\ ConfirmedIsAnchored
        /\ SnapshotsInOrder
        /\ FreshWrite
        /\ RevokesFollow

\* A group credential is issued once: everything about it has its one hash.
OneHash ==
    Kind = "GROUP" =>
        /\ \A j \in Jobs : Queued(j) => jobs[j].hash = cred.hash
        /\ \A r \in Requests : /\ req[r].pc = "writeIssue" => ~req[r].row
                               /\ req[r].pc \in WithHash \ {"writeIssue"} => req[r].hash = cred.hash
        /\ ConfirmedIsIssued
-----------------------------------------------------------------------------
(* What a step may do to the rows *)

\* Rows already queued keep what they ask for.
Keep == \A j \in Jobs : Queued(j) => /\ jobs'[j].op = jobs[j].op
                                     /\ jobs'[j].hash = jobs[j].hash
                                     /\ jobs'[j].arg = jobs[j].arg

\* What the chain has of a queued job, it goes on having.
LEMMA AnchoredStays ==
    ASSUME TypeOK, LedgerTypeOK', NEW j \in Jobs, Queued(j), Keep, HistoryGrows, Anchored(j)
    PROVE  Anchored(j)'
  <1>1. jobs[j] # NoJob /\ jobs[j].hash \in Hashes /\ jobs[j].arg \in Nat
    BY DEF Queued, NoJob, TypeOK, Operations, Job
  <1> DEFINE h == jobs[j].hash
  <1>2. /\ jobs'[j].op = jobs[j].op
        /\ jobs'[j].hash = h
        /\ jobs'[j].arg = jobs[j].arg
    BY DEF Keep
  <1>3. /\ ids[h].status # "ABSENT" => ids'[h].status # "ABSENT"
        /\ ids[h].status = "REVOKED" => ids'[h].status = "REVOKED"
        /\ ids'[h].exp >= ids[h].exp
        /\ Len(snapshots'[h]) >= Len(snapshots[h])
    BY <1>1 DEF HistoryGrows
  <1>4. /\ ids[h].exp \in Nat /\ ids'[h].exp \in Nat
        /\ Len(snapshots[h]) \in Nat /\ Len(snapshots'[h]) \in Nat
    BY <1>1 DEF TypeOK, LedgerTypeOK
  <1> QED
    <2> HIDE DEF h
    <2>1. CASE jobs[j].op = "ISSUE"
      BY <2>1, <1>2, <1>3 DEF Anchored, h
    <2>2. CASE jobs[j].op = "EXTEND"
      <3>1. ids[h].status # "ABSENT" /\ ids[h].exp >= jobs[j].arg
        BY <2>2 DEF Anchored, h
      <3>2. ids'[h].status # "ABSENT" /\ ids'[h].exp >= jobs[j].arg
        BY <3>1, <1>1, <1>3, <1>4
      <3> QED
        BY <2>2, <3>2, <1>2 DEF Anchored
    <2>3. CASE jobs[j].op = "REVOKE"
      BY <2>3, <1>2, <1>3 DEF Anchored, h
    <2>4. CASE jobs[j].op = "SNAPSHOT"
      <3>1. Len(snapshots[h]) >= jobs[j].arg
        BY <2>4 DEF Anchored, h
      <3>2. Len(snapshots'[h]) >= jobs[j].arg
        BY <3>1, <1>1, <1>3, <1>4
      <3> QED
        BY <2>4, <3>2, <1>2 DEF Anchored
    <2> QED
      BY <2>1, <2>2, <2>3, <2>4 DEF Queued, Operations

\* The snapshots on the chain are queued jobs, so they keep their numbers.
LEMMA OrderStays ==
    ASSUME IInv, Keep, UNCHANGED ledger
    PROVE  SnapshotsInOrder'
  <1> SUFFICES ASSUME NEW h \in Hashes, NEW k \in 1..Len(snapshots[h])
               PROVE  LET j == snapshots[h][k]
                      IN  jobs'[j].op = "SNAPSHOT" /\ jobs'[j].hash = h /\ jobs'[j].arg = k
    BY DEF SnapshotsInOrder, ledger
  <1>1. snapshots[h][k] \in Jobs
    BY AnchorAssumption DEF IInv, TypeOK, LedgerTypeOK
  <1>2. LET j == snapshots[h][k]
        IN  jobs[j].op = "SNAPSHOT" /\ jobs[j].hash = h /\ jobs[j].arg = k
    BY DEF IInv, SnapshotsInOrder
  <1> QED
    BY <1>1, <1>2 DEF Keep, Queued, Operations

\* An unchanged ledger has grown by nothing.
LEMMA StillGrows ==
    ASSUME LedgerTypeOK, UNCHANGED ledger
    PROVE  HistoryGrows
  BY DEF LedgerTypeOK, ledger, HistoryGrows

\* Confirmed jobs stay anchored under steps that confirm nothing.
LEMMA ConfirmedStays ==
    ASSUME IInv, Keep, UNCHANGED ledger,
           \A j \in Jobs : jobs'[j].state = "CONFIRMED" =>
               Queued(j) /\ (jobs[j].state = "CONFIRMED" \/ Anchored(j))
    PROVE  ConfirmedIsAnchored'
  <1> SUFFICES ASSUME NEW j \in Jobs, jobs'[j].state = "CONFIRMED"
               PROVE  Anchored(j)'
    BY DEF ConfirmedIsAnchored
  <1>1. Queued(j) /\ Anchored(j)
    BY DEF IInv, ConfirmedIsAnchored
  <1>2. TypeOK /\ LedgerTypeOK'
    BY DEF IInv, TypeOK, LedgerTypeOK, ledger
  <1> QED
    BY <1>1, <1>2, StillGrows, AnchoredStays DEF TypeOK

\* The gateway's calls after a step that touches no ledger: as before, free, or just sent.
LEMMA CallsStay ==
    ASSUME IInv, TypeOK', Keep, UNCHANGED ledger,
           \A c \in Calls : \/ call'[c] = call[c]
                            \/ call'[c] = Free
                            \/ /\ Queued(call'[c].job)
                               /\ call'[c].pc = IF jobs[call'[c].job].op = "SNAPSHOT"
                                                THEN "count" ELSE "tx"
    PROVE  CallsSane'
  <1>1. \A j \in Jobs : Queued(j) => Queued(j)'
    BY DEF Keep, Queued
  <1>2. ASSUME NEW j \in Jobs, Queued(j), Anchored(j) PROVE Anchored(j)'
    BY <1>2, AnchoredStays, StillGrows DEF IInv, TypeOK
  <1> SUFFICES ASSUME NEW c \in Calls PROVE CallSane(c)'
    BY DEF CallsSane
  <1>3. CASE call'[c] = call[c]
    <2>1. PICK j : j = call[c].job
      OBVIOUS
    <2>2. /\ call[c].pc # "free" => Queued(j)
          /\ call[c].pc = "count" => jobs[j].op = "SNAPSHOT"
          /\ call[c].pc = "ok" => Anchored(j)
      BY <2>1 DEF IInv, CallsSane, CallSane, Op
    <2>3. call[c].pc # "free" => Queued(j)' /\ jobs'[j].op = jobs[j].op
      BY <2>2, <1>1 DEF Queued, Keep
    <2>4. call[c].pc = "ok" => Anchored(j)'
      BY <2>2, <1>2 DEF Queued
    <2>5. call'[c].job = j
      BY <1>3, <2>1
    <2> QED
      BY <1>3, <2>2, <2>3, <2>4, <2>5 DEF CallSane, Op, Queued, Anchored
  <1>4. CASE call'[c] = Free
    BY <1>4 DEF Free, CallSane
  <1>5. CASE /\ Queued(call'[c].job)
             /\ call'[c].pc = IF jobs[call'[c].job].op = "SNAPSHOT" THEN "count" ELSE "tx"
    BY <1>5 DEF Queued, Keep, Op, CallSane
  <1> QED
    BY <1>3, <1>4, <1>5

-----------------------------------------------------------------------------
(* The requests *)

\* A step that changes only what request r remembers, and the trip's end.
LEMMA MemoryStep ==
    ASSUME IInv, NEW r \in Requests, NEW n \in Request,
           req' = [req EXCEPT ![r] = n], planned' \in Expiries,
           UNCHANGED <<ledger, cred, jobs, failedBefore, wkr, call, faults>>,
           n.pc = "idle" => n = Idle,
           n.pc \in WithHash => n.hash \in Hashes,
           n.pc \in {"writeIssue", "addIssue"} => n.arg > 0,
           n.pc = "requeue" => Queued(n.arg),
           cred.hash \notin Hashes => n.pc \in {"idle", "writeIssue", "list"},
           n.pc = "addRevoke" => n.hash # cred.hash,
           n.pc = "writeIssue" => FreshHash(n.hash),
           n.pc = "writeIssue" \/ n.hash \in {None, cred.hash, req[r].hash}
    PROVE  IInv'
  <1>1. TypeOK'
    BY DEF IInv, TypeOK, ledger, LedgerTypeOK
  <1>2. req'[r] = n /\ \A q \in Requests \ {r} : req'[q] = req[q]
    BY DEF IInv, TypeOK
  <1>3. LedgerSane' /\ JobsSane' /\ WorkersSane'
    BY DEF IInv, LedgerSane, JobsSane, WorkersSane, ledger, Queued
  <1>9. ConfirmedIsAnchored'
    BY ConfirmedStays DEF Keep, IInv, TypeOK, NoJob, Queued
  <1>10. SnapshotsInOrder'
    BY OrderStays DEF Keep
  <1>8. CallsSane'
    BY <1>1, CallsStay DEF Keep
  <1>4. RowFirst'
    BY <1>2 DEF IInv, RowFirst
  <1>5. RequestsSane'
    BY <1>2 DEF IInv, RequestsSane, RequestSane, Queued
  <1>6. FreshWrite'
    <2> SUFFICES ASSUME NEW p \in Requests, req'[p].pc = "writeIssue"
                 PROVE  /\ cred.hash # req'[p].hash
                        /\ \A j \in Jobs : jobs[j].hash # req'[p].hash
                        /\ \A q \in Requests \ {p} : req'[q].hash # req'[p].hash
      BY DEF FreshWrite
    <2>1. CASE p = r
      BY <2>1, <1>2 DEF FreshHash
    <2>2. CASE p # r
      <3>1. /\ cred.hash # req[p].hash /\ req[p].hash \in Hashes
            /\ \A j \in Jobs : jobs[j].hash # req[p].hash
            /\ \A q \in Requests \ {p} : req[q].hash # req[p].hash
        BY <2>2, <1>2 DEF IInv, FreshWrite, RequestsSane, RequestSane, WithHash
      <3>2. n.hash # req[p].hash
        BY <3>1, <2>2, AnchorAssumption DEF FreshHash
      <3> QED
        BY <3>1, <3>2, <2>2, <1>2
    <2> QED
      BY <2>1, <2>2
  <1>7. RevokesFollow'
    BY <1>2 DEF IInv, RevokesFollow, ledger
  <1> QED
    BY <1>1, <1>3, <1>4, <1>5, <1>6, <1>7, <1>8, <1>9, <1>10 DEF IInv

LEMMA BeginIssueOK ==
    ASSUME IInv, NEW r \in Requests, NEW h \in Hashes, BeginIssue(r, h)
    PROVE  IInv'
  <1> DEFINE n == [pc |-> "writeIssue", hash |-> h, arg |-> planned, row |-> cred # NoRow]
  <1>1. n \in Request /\ planned > 0
    BY ExpiriesAssumption DEF IInv, TypeOK, Request
  <1> QED
    BY <1>1, MemoryStep DEF BeginIssue, Start, IInv, TypeOK, WithHash

LEMMA BeginMembershipSnapshotOK ==
    ASSUME IInv, NEW r \in Requests, BeginMembershipSnapshot(r)
    PROVE  IInv'
  <1> DEFINE n == [pc |-> "addSnapshot", hash |-> cred.hash,
                   arg |-> Cardinality(SnapshotJobs) + 1, row |-> TRUE]
  <1>1. Cardinality(SnapshotJobs) \in Nat
    BY AnchorAssumption, FS_Subset, FS_CardinalityType DEF SnapshotJobs
  <1>2. n \in Request /\ cred.hash \in Hashes
    BY <1>1 DEF BeginMembershipSnapshot, IInv, TypeOK, Request
  <1> QED
    BY <1>2, MemoryStep DEF BeginMembershipSnapshot, Start, IInv, TypeOK, WithHash

LEMMA BeginExtendOK ==
    ASSUME IInv, NEW r \in Requests, NEW e \in Expiries, BeginExtend(r, e)
    PROVE  IInv'
  <1> DEFINE n == [Idle EXCEPT !.pc = "list", !.arg = e]
  <1>1. n \in Request /\ n.pc = "list" /\ n.hash = None
    BY ExpiriesAssumption DEF Request, Idle
  <1> QED
    BY <1>1, MemoryStep DEF BeginExtend, Start, WithHash

LEMMA BeginRevokeOK ==
    ASSUME IInv, NEW r \in Requests, BeginRevoke(r)
    PROVE  IInv'
  <1> DEFINE n == [Idle EXCEPT !.pc = "writeRevoke"]
  <1>1. n \in Request /\ n.pc = "writeRevoke" /\ n.hash = None
    BY DEF Request, Idle
  <1>2. cred.hash \in Hashes /\ planned \in Expiries
    BY DEF BeginRevoke, IInv, TypeOK
  <1> QED
    BY <1>1, <1>2, MemoryStep DEF BeginRevoke, Start, WithHash

LEMMA BeginRetryOK ==
    ASSUME IInv, NEW r \in Requests, NEW j \in Jobs, BeginRetry(r, j)
    PROVE  IInv'
  <1> DEFINE n == [Idle EXCEPT !.pc = "requeue", !.arg = j]
  <1>1. n \in Request /\ n.pc = "requeue" /\ n.hash = None /\ n.arg = j
    BY AnchorAssumption DEF Request, Idle
  <1>2. jobs[j] # NoJob
    BY DEF BeginRetry, FailedJobs, NoJob
  <1>3. cred.hash \in Hashes /\ planned \in Expiries /\ Queued(j)
    BY <1>2 DEF IInv, TypeOK, RowFirst, Queued
  <1> QED
    BY <1>1, <1>3, MemoryStep DEF BeginRetry, Start, WithHash

LEMMA ListCredentialsOK ==
    ASSUME IInv, NEW r \in Requests, ListCredentials(r)
    PROVE  IInv'
  <1>1. planned \in Expiries /\ req[r] \in Request /\ (cred # NoRow => cred.hash \in Hashes)
    BY DEF IInv, TypeOK
  <1>2. CASE cred = NoRow \/ cred.revoked
    <2>1. Idle \in Request /\ Idle.pc = "idle" /\ Idle.hash = None
      BY DEF Request, Idle
    <2> QED
      BY <1>1, <1>2, <2>1, MemoryStep DEF ListCredentials, Finish, WithHash
  <1>3. CASE ~(cred = NoRow \/ cred.revoked)
    <2> DEFINE n == [req[r] EXCEPT !.pc = "writeExtend"]
    <2>1. n \in Request /\ n.pc = "writeExtend" /\ n.hash = req[r].hash
      BY <1>1 DEF Request
    <2>2. req' = [req EXCEPT ![r] = n]
      BY <1>3 DEF ListCredentials, Continue
    <2> QED
      BY <1>1, <1>3, <2>1, <2>2, MemoryStep DEF ListCredentials, WithHash
  <1> QED
    BY <1>2, <1>3
\* A request that writes the credential row: a new hash that is fresh and queued
\* nowhere, or the old one with a revocation that is not taken back.
LEMMA RowStep ==
    ASSUME IInv, NEW r \in Requests, NEW n \in Request, NEW row \in Row,
           req' = [req EXCEPT ![r] = n], cred' = row,
           UNCHANGED <<ledger, planned, jobs, failedBefore, wkr, call, faults>>,
           row.hash \in Hashes, n.hash = row.hash,
           n.pc \in {"addIssue", "addExtend", "addRevoke"},
           n.pc = "addIssue" => n.arg > 0,
           \/ req[r].pc = "writeIssue" /\ row.hash = req[r].hash /\ n.pc = "addIssue"
           \/ /\ row.hash = cred.hash
              /\ cred.revoked => row.revoked
              /\ n.pc = "addRevoke" => row.revoked
    PROVE  IInv'
  <1>1. TypeOK'
    BY DEF IInv, TypeOK, ledger, LedgerTypeOK
  <1>2. req'[r] = n /\ \A q \in Requests \ {r} : req'[q] = req[q]
    BY DEF IInv, TypeOK
  <1>3. LedgerSane' /\ JobsSane' /\ WorkersSane' /\ RowFirst'
    BY DEF IInv, LedgerSane, JobsSane, WorkersSane, RowFirst, ledger, Queued
  <1>4. CallsSane'
    BY <1>1, CallsStay DEF Keep
  <1>5. ConfirmedIsAnchored'
    BY ConfirmedStays DEF Keep, IInv, TypeOK, NoJob, Queued
  <1>6. SnapshotsInOrder'
    BY OrderStays DEF Keep
  <1>7. RequestsSane'
    BY <1>2 DEF IInv, RequestsSane, RequestSane, Queued
  <1>8. FreshWrite'
    <2> SUFFICES ASSUME NEW p \in Requests \ {r}, req[p].pc = "writeIssue"
                 PROVE  /\ row.hash # req[p].hash
                        /\ \A j \in Jobs : jobs[j].hash # req[p].hash
                        /\ \A q \in Requests \ {p} : req'[q].hash # req[p].hash
      BY <1>2 DEF FreshWrite
    <2>1. /\ cred.hash # req[p].hash
          /\ \A j \in Jobs : jobs[j].hash # req[p].hash
          /\ \A q \in Requests \ {p} : req[q].hash # req[p].hash
      BY DEF IInv, FreshWrite
    <2> QED
      BY <2>1, <1>2
  <1>9. RevokesFollow'
    <2>1. CASE req[r].pc = "writeIssue" /\ row.hash = req[r].hash /\ n.pc = "addIssue"
      BY <2>1, <1>2 DEF IInv, FreshWrite, RevokesFollow, ledger
    <2>2. CASE /\ row.hash = cred.hash
               /\ cred.revoked => row.revoked
               /\ n.pc = "addRevoke" => row.revoked
      BY <2>2, <1>2 DEF IInv, RevokesFollow, ledger
    <2> QED
      BY <2>1, <2>2
  <1> QED
    BY <1>1, <1>3, <1>4, <1>5, <1>6, <1>7, <1>8, <1>9 DEF IInv

LEMMA WriteIssueOK ==
    ASSUME IInv, NEW r \in Requests, WriteIssue(r)
    PROVE  IInv'
  <1>1. /\ req[r] \in Request /\ req[r].hash \in Hashes /\ req[r].arg > 0
        /\ planned \in Expiries
    BY DEF WriteIssue, IInv, TypeOK, RequestsSane, RequestSane, WithHash
  <1>2. CASE req[r].row \/ cred = NoRow
    <2> DEFINE row == [hash |-> req[r].hash, exp |-> req[r].arg,
                       revoked |-> FALSE, status |-> "PENDING"]
               n == [req[r] EXCEPT !.pc = "addIssue"]
    <2>1. row \in Row /\ row.hash = req[r].hash
      BY <1>1 DEF Row, Request
    <2>2. n \in Request /\ n.pc = "addIssue" /\ n.hash = req[r].hash /\ n.arg = req[r].arg
      BY <1>1 DEF Request
    <2>3. /\ cred' = row /\ req' = [req EXCEPT ![r] = n]
          /\ req[r].pc = "writeIssue"
          /\ UNCHANGED <<ledger, planned, jobs, failedBefore, wkr, call, faults>>
      BY <1>2 DEF WriteIssue, Continue
    <2> HIDE DEF row, n
    <2> QED
      BY <1>1, <2>1, <2>2, <2>3, RowStep
  <1>3. CASE ~(req[r].row \/ cred = NoRow)
    <2>1. Idle \in Request /\ Idle.pc = "idle" /\ Idle.hash = None
      BY DEF Request, Idle
    <2> QED
      BY <1>1, <1>3, <2>1, MemoryStep DEF WriteIssue, Finish, WithHash
  <1> QED
    BY <1>2, <1>3

LEMMA WriteExtendOK ==
    ASSUME IInv, NEW r \in Requests, WriteExtend(r)
    PROVE  IInv'
  <1>1. req[r] \in Request /\ cred \in Row /\ cred.hash \in Hashes
    BY DEF WriteExtend, IInv, TypeOK, RowFirst
  <1> DEFINE row == [cred EXCEPT !.exp = req[r].arg, !.status = "PENDING"]
             n == [req[r] EXCEPT !.pc = "addExtend", !.hash = cred.hash]
  <1>2. row \in Row /\ row.hash = cred.hash /\ row.revoked = cred.revoked
    BY <1>1 DEF Row, Request
  <1>3. n \in Request /\ n.pc = "addExtend" /\ n.hash = cred.hash
    BY <1>1 DEF Request
  <1>4. /\ cred' = row /\ req' = [req EXCEPT ![r] = n]
        /\ UNCHANGED <<ledger, planned, jobs, failedBefore, wkr, call, faults>>
    BY DEF WriteExtend, IInv, TypeOK
  <1> HIDE DEF row, n
  <1> QED
    BY <1>1, <1>2, <1>3, <1>4, RowStep

LEMMA WriteRevokeOK ==
    ASSUME IInv, NEW r \in Requests, WriteRevoke(r)
    PROVE  IInv'
  <1>1. req[r] \in Request /\ cred \in Row /\ cred.hash \in Hashes
    BY DEF WriteRevoke, IInv, TypeOK, RowFirst
  <1> DEFINE row == [cred EXCEPT !.revoked = TRUE, !.status = "PENDING"]
             n == [req[r] EXCEPT !.pc = "addRevoke", !.hash = cred.hash]
  <1>2. row \in Row /\ row.hash = cred.hash /\ row.revoked
    BY <1>1 DEF Row
  <1>3. n \in Request /\ n.pc = "addRevoke" /\ n.hash = cred.hash
    BY <1>1 DEF Request
  <1>4. /\ cred' = row /\ req' = [req EXCEPT ![r] = n]
        /\ UNCHANGED <<ledger, planned, jobs, failedBefore, wkr, call, faults>>
    BY DEF WriteRevoke, IInv, TypeOK
  <1> HIDE DEF row, n
  <1> QED
    BY <1>1, <1>2, <1>3, <1>4, RowStep

\* A request that adds a job for the hash it remembers.
LEMMA EnqueueStep ==
    ASSUME IInv, NEW r \in Requests, NEW op \in Operations, NEW a \in Nat, NEW n \in Request,
           Enqueue(op, req[r].hash, a), req' = [req EXCEPT ![r] = n],
           UNCHANGED <<ledger, planned, cred, failedBefore, wkr, call, faults>>,
           req[r].pc \in WithHash \ {"writeIssue"},
           op = "ISSUE" => a > 0,
           op = "REVOKE" => req[r].pc = "addRevoke",
           n = Idle \/ (n.pc = "addSnapshot" /\ n.hash = req[r].hash)
    PROVE  IInv'
  <1>1. req[r].hash \in Hashes /\ cred.hash \in Hashes
    BY DEF IInv, RequestsSane, RequestSane, RowFirst, WithHash
  <1> DEFINE new == [op |-> op, hash |-> req[r].hash, arg |-> a,
                     state |-> "PENDING", attempts |-> 0]
  <1>2. new \in Job /\ new # NoJob /\ new.op = op /\ new.hash = req[r].hash
        /\ new.arg = a /\ new.state = "PENDING"
    BY <1>1 DEF Job, NoJob, Operations
  <1>3. PICK j \in Jobs : jobs[j] = NoJob /\ jobs' = [jobs EXCEPT ![j] = new]
    BY DEF Enqueue
  <1> HIDE DEF new
  <1>4. jobs'[j] = new /\ \A k \in Jobs \ {j} : jobs'[k] = jobs[k]
    BY <1>3 DEF IInv, TypeOK
  <1>5. ~Queued(j)
    BY <1>3 DEF Queued, NoJob, Operations
  <1>6. Keep /\ \A k \in Jobs : Queued(k) => Queued(k)'
    BY <1>4, <1>5 DEF Keep, Queued
  <1>7. TypeOK'
    BY <1>1, <1>2, <1>3, <1>4 DEF IInv, TypeOK, ledger, LedgerTypeOK
  <1>8. req'[r] = n /\ \A q \in Requests \ {r} : req'[q] = req[q]
    BY DEF IInv, TypeOK
  <1>9. LedgerSane' /\ RowFirst'
    BY <1>1 DEF IInv, LedgerSane, RowFirst, ledger
  <1>10. JobsSane'
    BY <1>2, <1>4 DEF IInv, JobsSane, Operations
  <1>11. RequestsSane'
    <2> SUFFICES ASSUME NEW q \in Requests PROVE RequestSane(q)'
      BY DEF RequestsSane
    <2>1. CASE q = r
      <3>1. req'[r] = Idle \/ (req'[r].pc = "addSnapshot" /\ req'[r].hash \in Hashes)
        BY <1>1, <1>8
      <3>2. Idle.pc = "idle"
        BY DEF Idle
      <3> QED
        BY <2>1, <3>1, <3>2 DEF RequestSane, WithHash
    <2>2. CASE q # r
      <3>1. req'[q] = req[q] /\ RequestSane(q)
        BY <2>2, <1>8 DEF IInv, RequestsSane
      <3> QED
        BY <3>1, <1>4, <1>5 DEF RequestSane, Queued
    <2> QED
      BY <2>1, <2>2
  <1>12. WorkersSane'
    BY <1>6 DEF IInv, WorkersSane, Queued
  <1>13. CallsSane'
    BY <1>6, <1>7, CallsStay
  <1>14. ConfirmedIsAnchored'
    BY <1>2, <1>4, <1>6, ConfirmedStays DEF IInv, TypeOK, NoJob, Queued
  <1>15. SnapshotsInOrder'
    BY <1>6, OrderStays
  <1>16. FreshWrite'
    <2> SUFFICES ASSUME NEW p \in Requests \ {r}, req[p].pc = "writeIssue"
                 PROVE  /\ cred.hash # req[p].hash
                        /\ \A k \in Jobs : jobs'[k].hash # req[p].hash
                        /\ \A q \in Requests \ {p} : req'[q].hash # req[p].hash
      BY <1>8 DEF FreshWrite, Idle
    <2>1. /\ cred.hash # req[p].hash /\ req[p].hash \in Hashes
          /\ \A k \in Jobs : jobs[k].hash # req[p].hash
          /\ \A q \in Requests \ {p} : req[q].hash # req[p].hash
      BY DEF IInv, FreshWrite, RequestsSane, RequestSane, WithHash
    <2> QED
      BY <2>1, <1>2, <1>4, <1>8, AnchorAssumption DEF Idle
  <1>17. RevokesFollow'
    <2>1. \A k \in Jobs : jobs'[k].op = "REVOKE" /\ jobs'[k].hash = cred.hash => cred.revoked
      BY <1>2, <1>4 DEF IInv, RevokesFollow
    <2>2. \A q \in Requests : req'[q].pc = "addRevoke" /\ req'[q].hash = cred.hash => cred.revoked
      BY <1>8 DEF IInv, RevokesFollow, Idle
    <2>3. ASSUME NEW h \in Hashes, ids[h].status = "REVOKED"
          PROVE  \E k \in Jobs : jobs'[k].op = "REVOKE" /\ jobs'[k].hash = h
      <3>1. PICK k \in Jobs : jobs[k].op = "REVOKE" /\ jobs[k].hash = h
        BY <2>3 DEF IInv, RevokesFollow
      <3> QED
        BY <3>1, <1>6 DEF Keep, Queued, Operations
    <2> QED
      BY <2>1, <2>2, <2>3 DEF RevokesFollow, ledger
  <1> QED
    BY <1>7, <1>9, <1>10, <1>11, <1>12, <1>13, <1>14, <1>15, <1>16, <1>17 DEF IInv

LEMMA AddIssueOK ==
    ASSUME IInv, NEW r \in Requests, AddIssue(r)
    PROVE  IInv'
  <1>1. req[r] \in Request /\ req[r].arg > 0
    BY DEF AddIssue, IInv, TypeOK, RequestsSane, RequestSane
  <1>2. Idle \in Request
    BY DEF Idle, Request
  <1> DEFINE n == [req[r] EXCEPT !.pc = "addSnapshot", !.arg = 1]
  <1>3. n \in Request /\ n.pc = "addSnapshot" /\ n.hash = req[r].hash
    BY <1>1 DEF Request
  <1>4. PICK m \in {n, Idle} : req' = [req EXCEPT ![r] = m]
    BY DEF AddIssue, Finish, IInv, TypeOK
  <1> HIDE DEF n
  <1>5. m \in Request /\ (m = Idle \/ (m.pc = "addSnapshot" /\ m.hash = req[r].hash))
    BY <1>2, <1>3, <1>4
  <1>6. req[r].arg \in Nat /\ "ISSUE" \in Operations /\ req[r].pc \in WithHash \ {"writeIssue"}
    BY <1>1 DEF Request, Operations, AddIssue, WithHash
  <1>7. /\ Enqueue("ISSUE", req[r].hash, req[r].arg)
        /\ UNCHANGED <<ledger, planned, cred, failedBefore, wkr, call, faults>>
    BY DEF AddIssue
  <1> QED
    BY <1>1, <1>4, <1>5, <1>6, <1>7, EnqueueStep

LEMMA AddOK ==
    ASSUME IInv, NEW r \in Requests, AddSnapshot(r) \/ AddExtend(r) \/ AddRevoke(r)
    PROVE  IInv'
  <1>1. req[r].arg \in Nat /\ 0 \in Nat
    BY DEF IInv, TypeOK, Request
  <1>6. PICK n \in Request : n = Idle
    BY DEF Request, Idle
  <1>2. "SNAPSHOT" \in Operations /\ "EXTEND" \in Operations /\ "REVOKE" \in Operations
    BY DEF Operations
  <1>3. CASE AddSnapshot(r)
    <2>1. /\ Enqueue("SNAPSHOT", req[r].hash, req[r].arg)
          /\ req[r].pc \in WithHash \ {"writeIssue"}
          /\ req' = [req EXCEPT ![r] = n]
          /\ UNCHANGED <<ledger, planned, cred, failedBefore, wkr, call, faults>>
      BY <1>3, <1>6 DEF AddSnapshot, Finish, WithHash
    <2> QED
      BY <1>1, <1>2, <1>6, <2>1, EnqueueStep
  <1>4. CASE AddExtend(r)
    <2>1. /\ Enqueue("EXTEND", req[r].hash, req[r].arg)
          /\ req[r].pc \in WithHash \ {"writeIssue"}
          /\ req' = [req EXCEPT ![r] = n]
          /\ UNCHANGED <<ledger, planned, cred, failedBefore, wkr, call, faults>>
      BY <1>4, <1>6 DEF AddExtend, Finish, WithHash
    <2> QED
      BY <1>1, <1>2, <1>6, <2>1, EnqueueStep
  <1>5. CASE AddRevoke(r)
    <2>1. /\ Enqueue("REVOKE", req[r].hash, 0)
          /\ req[r].pc \in WithHash \ {"writeIssue"} /\ req[r].pc = "addRevoke"
          /\ req' = [req EXCEPT ![r] = n]
          /\ UNCHANGED <<ledger, planned, cred, failedBefore, wkr, call, faults>>
      BY <1>5, <1>6 DEF AddRevoke, Finish, WithHash
    <2> QED
      BY <1>1, <1>2, <1>6, <2>1, EnqueueStep
  <1> QED
    BY <1>3, <1>4, <1>5

-----------------------------------------------------------------------------
(* The queue *)

\* A step of the queue: jobs keep what they ask for, and the credential keeps all
\* but its shown status.
LEMMA QueueStep ==
    ASSUME IInv, TypeOK', WorkersSane', UNCHANGED ledger,
           \A j \in Jobs : /\ jobs'[j].op = jobs[j].op
                           /\ jobs'[j].hash = jobs[j].hash
                           /\ jobs'[j].arg = jobs[j].arg
                           /\ jobs[j] = NoJob => jobs'[j] = NoJob
                           /\ jobs'[j].state = "CONFIRMED" =>
                                jobs[j].state = "CONFIRMED" \/ (Queued(j) /\ Anchored(j)),
           \/ cred' = cred
           \/ cred.hash \in Hashes /\ cred'.hash = cred.hash /\ cred'.revoked = cred.revoked,
           \A r \in Requests : req'[r] = req[r] \/ req'[r] = Idle,
           \A c \in Calls : \/ call'[c] = call[c]
                            \/ call'[c] = Free
                            \/ /\ Queued(call'[c].job)
                               /\ call'[c].pc = IF jobs[call'[c].job].op = "SNAPSHOT"
                                                THEN "count" ELSE "tx"
    PROVE  IInv'
  <1>1. Keep
    BY DEF Keep
  <1>2. LedgerSane' /\ JobsSane'
    BY DEF IInv, LedgerSane, JobsSane, ledger
  <1>3. RowFirst'
    BY DEF IInv, RowFirst, Idle
  <1>4. RequestsSane'
    <2> SUFFICES ASSUME NEW q \in Requests PROVE RequestSane(q)'
      BY DEF RequestsSane
    <2>1. RequestSane(q)
      BY DEF IInv, RequestsSane
    <2>2. CASE req'[q] = req[q]
      BY <2>1, <2>2 DEF RequestSane, Queued
    <2>3. CASE req'[q] = Idle
      BY <2>3 DEF RequestSane, Idle, WithHash
    <2> QED
      BY <2>2, <2>3
  <1>5. CallsSane'
    BY <1>1, CallsStay
  <1>6. ConfirmedIsAnchored'
    BY <1>1, ConfirmedStays DEF IInv, TypeOK, NoJob, Queued
  <1>7. SnapshotsInOrder'
    BY <1>1, OrderStays
  <1>8. FreshWrite'
    <2> SUFFICES ASSUME NEW p \in Requests, req'[p].pc = "writeIssue"
                 PROVE  /\ cred.hash # req[p].hash
                        /\ \A j \in Jobs : jobs[j].hash # req[p].hash
                        /\ \A q \in Requests \ {p} : req'[q].hash # req[p].hash
      BY DEF FreshWrite, Idle
    <2>1. req[p].pc = "writeIssue"
      BY DEF Idle
    <2>2. /\ cred.hash # req[p].hash /\ req[p].hash \in Hashes
          /\ \A j \in Jobs : jobs[j].hash # req[p].hash
          /\ \A q \in Requests \ {p} : req[q].hash # req[p].hash
      BY <2>1 DEF IInv, FreshWrite, RequestsSane, RequestSane, WithHash
    <2> QED
      BY <2>2, AnchorAssumption DEF Idle
  <1>9. RevokesFollow'
    BY DEF IInv, RevokesFollow, Idle, ledger
  <1> QED
    BY <1>2, <1>3, <1>4, <1>5, <1>6, <1>7, <1>8, <1>9 DEF IInv
\* A job that is queued again asks for the same.
LEMMA RequeuedJob ==
    ASSUME NEW job \in Job, NEW new,
           new = [job EXCEPT !.state = "PENDING", !.attempts = 0]
    PROVE  /\ new \in Job /\ new.op = job.op /\ new.hash = job.hash
           /\ new.arg = job.arg /\ new.state = "PENDING"
  BY DEF Job

LEMMA RequeueOK ==
    ASSUME IInv, NEW r \in Requests, Requeue(r)
    PROVE  IInv'
  <1>1. PICK j : j = req[r].arg
    OBVIOUS
  <1>2. Queued(j) /\ jobs[j] # NoJob /\ jobs[j] \in Job /\ cred.hash \in Hashes /\ cred \in Row
    BY <1>1 DEF Requeue, IInv, TypeOK, RequestsSane, RequestSane, Queued, NoJob, Operations,
                RowFirst
  <1>3. /\ jobs' = [jobs EXCEPT ![j] = [jobs[j] EXCEPT !.state = "PENDING", !.attempts = 0]]
        /\ failedBefore' = FailedExcept({j})
        /\ cred' = [cred EXCEPT !.status = "PENDING"]
        /\ req' = [req EXCEPT ![r] = Idle]
        /\ UNCHANGED <<ledger, planned, wkr, call, faults>>
    BY <1>1, <1>2 DEF Requeue, Finish, Queued, IInv, TypeOK
  <1>4. /\ jobs'[j] \in Job /\ jobs'[j].op = jobs[j].op /\ jobs'[j].hash = jobs[j].hash
        /\ jobs'[j].arg = jobs[j].arg /\ jobs'[j].state = "PENDING"
        /\ \A k \in Jobs \ {j} : jobs'[k] = jobs[k]
    BY <1>2, <1>3 DEF Job, IInv, TypeOK, Queued
  <1>5. cred' \in Row /\ cred'.hash = cred.hash /\ cred'.revoked = cred.revoked
    BY <1>2, <1>3 DEF Row
  <1>6. TypeOK'
    <2>1. jobs' \in [Jobs -> Job] /\ req' \in [Requests -> Request]
      BY <1>3, <1>4 DEF IInv, TypeOK, Request, Idle
    <2>2. \A k \in Jobs : jobs'[k] # NoJob => jobs'[k].op \in Operations /\ jobs'[k].hash \in Hashes
      BY <1>2, <1>4 DEF IInv, TypeOK
    <2> QED
      BY <1>2, <1>3, <1>5, <2>1, <2>2 DEF IInv, TypeOK, ledger, LedgerTypeOK, FailedExcept
  <1>7. WorkersSane'
    BY <1>3, <1>4, <1>2 DEF IInv, WorkersSane, Queued
  <1> QED
    BY <1>2, <1>3, <1>4, <1>5, <1>6, <1>7, QueueStep DEF IInv, TypeOK

LEMMA RequeueSnapshotsOK ==
    ASSUME IInv, RequeueSnapshots
    PROVE  IInv'
  <1>1. ASSUME NEW j \in Jobs
        PROVE  /\ jobs'[j] \in Job /\ jobs'[j].op = jobs[j].op /\ jobs'[j].hash = jobs[j].hash
               /\ jobs'[j].arg = jobs[j].arg
               /\ jobs[j] = NoJob => jobs'[j] = NoJob
               /\ jobs'[j].state = "CONFIRMED" => jobs[j].state = "CONFIRMED"
    <2>1. jobs[j] \in Job
      BY DEF IInv, TypeOK
    <2>2. CASE j \in SnapshotJobs /\ jobs[j].state = "FAILED"
      <3>1. jobs'[j] = [jobs[j] EXCEPT !.state = "PENDING", !.attempts = 0]
        BY <2>2 DEF RequeueSnapshots
      <3>2. jobs[j] # NoJob
        BY <2>2 DEF NoJob
      <3> QED
        <4>1. /\ jobs'[j] \in Job /\ jobs'[j].op = jobs[j].op /\ jobs'[j].hash = jobs[j].hash
              /\ jobs'[j].arg = jobs[j].arg /\ jobs'[j].state = "PENDING"
          BY <2>1, <3>1, RequeuedJob
        <4> QED
          BY <3>2, <4>1
    <2>3. CASE ~(j \in SnapshotJobs /\ jobs[j].state = "FAILED")
      BY <2>1, <2>3 DEF RequeueSnapshots
    <2> QED
      BY <2>2, <2>3
  <1>2. TypeOK'
    <2>1. jobs' \in [Jobs -> Job]
      BY <1>1 DEF RequeueSnapshots
    <2>2. \A k \in Jobs : jobs'[k] # NoJob => jobs'[k].op \in Operations /\ jobs'[k].hash \in Hashes
      BY <1>1 DEF IInv, TypeOK
    <2> QED
      BY <2>1, <2>2 DEF RequeueSnapshots, IInv, TypeOK, ledger, LedgerTypeOK, FailedExcept
  <1>3. WorkersSane'
    <2>1. \A j \in Jobs : jobs'[j].op = jobs[j].op
      BY <1>1
    <2>2. wkr' = wkr /\ call' = call
      BY DEF RequeueSnapshots
    <2> QED
      BY <2>1, <2>2 DEF IInv, WorkersSane, Queued
  <1> QED
    BY <1>1, <1>2, <1>3, QueueStep DEF RequeueSnapshots

LEMMA PickOK ==
    ASSUME IInv, NEW w \in Workers, NEW j \in Jobs, Pick(w, j)
    PROVE  IInv'
  <1> DEFINE n == [Resting EXCEPT !.pc = "claim", !.job = j, !.tries = jobs[j].attempts]
  <1>1. jobs[j] # NoJob /\ jobs[j] \in Job
    BY DEF Pick, Due, NoJob, IInv, TypeOK
  <1>2. Queued(j)
    BY <1>1 DEF Queued, IInv, TypeOK
  <1>3. n \in Worker /\ n.pc = "claim" /\ n.job = j
    BY <1>1 DEF Worker, Resting, Job
  <1>4. /\ wkr' = [wkr EXCEPT ![w] = n]
        /\ UNCHANGED <<ledger, planned, cred, jobs, failedBefore, req, call, faults>>
    BY DEF Pick
  <1> HIDE DEF n
  <1>5. wkr'[w] = n /\ \A v \in Workers \ {w} : wkr'[v] = wkr[v]
    BY <1>4 DEF IInv, TypeOK
  <1>6. TypeOK'
    BY <1>3, <1>4 DEF IInv, TypeOK, ledger, LedgerTypeOK
  <1>7. WorkersSane'
    BY <1>2, <1>3, <1>4, <1>5 DEF IInv, WorkersSane, Queued
  <1> QED
    BY <1>4, <1>6, <1>7, QueueStep

LEMMA ClaimOK ==
    ASSUME IInv, NEW w \in Workers, NEW c \in Calls, Claim(w, c)
    PROVE  IInv'
  <1>1. PICK j : j = wkr[w].job
    OBVIOUS
  <1>2. /\ Queued(j) /\ jobs[j] # NoJob /\ jobs[j] \in Job
        /\ wkr[w].pc = "claim" /\ wkr[w] \in Worker
    BY <1>1 DEF Claim, IInv, TypeOK, WorkersSane, Queued, NoJob, Operations
  <1>3. CASE jobs[j].state = "PENDING"
    <2> DEFINE newJob == [jobs[j] EXCEPT !.state = "PROCESSING",
                                        !.attempts = jobs[j].attempts + 1]
               newWkr == [wkr[w] EXCEPT !.pc = "wait", !.call = c]
               newCall == [pc |-> IF jobs[j].op = "SNAPSHOT" THEN "count" ELSE "tx", job |-> j]
    <2>1. /\ jobs' = [jobs EXCEPT ![j] = newJob]
          /\ wkr' = [wkr EXCEPT ![w] = newWkr]
          /\ call' = [call EXCEPT ![c] = newCall]
          /\ call[c] = Free
          /\ UNCHANGED <<ledger, planned, cred, failedBefore, req, faults>>
      BY <1>1, <1>2, <1>3 DEF Claim, Send, IInv, TypeOK, Queued
    <2>2. /\ newJob \in Job /\ newJob.op = jobs[j].op /\ newJob.hash = jobs[j].hash
          /\ newJob.arg = jobs[j].arg /\ newJob.state = "PROCESSING"
      <3>1. jobs[j].attempts + 1 \in Nat
        BY <1>2 DEF Job
      <3> QED
        BY <1>2, <3>1 DEF Job
    <2>3. newWkr \in Worker /\ newWkr.pc = "wait" /\ newWkr.call = c /\ newWkr.job = j
      BY <1>1, <1>2 DEF Worker
    <2>4. /\ newCall \in Call /\ newCall.job = j /\ newCall.pc \in {"count", "tx"}
          /\ newCall.pc = IF jobs[j].op = "SNAPSHOT" THEN "count" ELSE "tx"
      BY <1>2 DEF Call, Queued
    <2> HIDE DEF newJob, newWkr, newCall
    <2>5. /\ jobs'[j] = newJob /\ \A k \in Jobs \ {j} : jobs'[k] = jobs[k]
          /\ wkr'[w] = newWkr /\ \A v \in Workers \ {w} : wkr'[v] = wkr[v]
          /\ call'[c] = newCall /\ \A d \in Calls \ {c} : call'[d] = call[d]
      BY <2>1, <1>2 DEF IInv, TypeOK, Queued
    <2>6. TypeOK'
      <3>1. /\ jobs' \in [Jobs -> Job] /\ wkr' \in [Workers -> Worker] /\ call' \in [Calls -> Call]
        BY <2>1, <2>2, <2>3, <2>4 DEF IInv, TypeOK
      <3>2. \A k \in Jobs : jobs'[k] # NoJob => jobs'[k].op \in Operations /\ jobs'[k].hash \in Hashes
        BY <1>2, <2>2, <2>5 DEF IInv, TypeOK
      <3> QED
        BY <2>1, <3>1, <3>2 DEF IInv, TypeOK, ledger, LedgerTypeOK
    <2>7. \A k \in Jobs : Queued(k) => k \in Jobs /\ jobs'[k].op \in Operations
      BY <2>2, <2>5 DEF Queued
    <2>8. \A v \in Workers \ {w} : wkr[v].pc = "wait" => wkr[v].call # c
      BY <2>1 DEF IInv, WorkersSane, Free
    <2>9. WorkersSane'
      <3> SUFFICES ASSUME NEW v \in Workers
                   PROVE  /\ wkr'[v].pc = "idle" => wkr'[v] = Resting
                          /\ wkr'[v].pc # "idle" =>
                                wkr'[v].job \in Jobs /\ jobs'[wkr'[v].job].op \in Operations
                          /\ wkr'[v].pc = "wait" =>
                                /\ wkr'[v].call \in Calls
                                /\ call'[wkr'[v].call].pc # "free"
                                /\ call'[wkr'[v].call].job = wkr'[v].job
                                /\ \A u \in Workers \ {v} :
                                      wkr'[u].pc = "wait" => wkr'[u].call # wkr'[v].call
        BY DEF WorkersSane, Queued
      <3>1. CASE v = w
        BY <3>1, <1>2, <2>3, <2>4, <2>5, <2>7, <2>8 DEF Queued
      <3>2. CASE v # w
        BY <3>2, <2>3, <2>4, <2>5, <2>7, <2>8 DEF IInv, WorkersSane, Queued
      <3> QED
        BY <3>1, <3>2
    <2> QED
      BY <1>2, <2>1, <2>2, <2>4, <2>5, <2>6, <2>9, QueueStep DEF NoJob
  <1>4. CASE jobs[j].state # "PENDING"
    <2>1. /\ wkr' = [wkr EXCEPT ![w] = Resting]
          /\ UNCHANGED <<ledger, planned, cred, jobs, failedBefore, req, call, faults>>
      BY <1>1, <1>4 DEF Claim
    <2>2. TypeOK'
      BY <2>1 DEF IInv, TypeOK, ledger, LedgerTypeOK, Worker, Resting
    <2>3. wkr'[w] = Resting /\ \A v \in Workers \ {w} : wkr'[v] = wkr[v]
      BY <2>1 DEF IInv, TypeOK
    <2>4. WorkersSane'
      BY <2>1, <2>3 DEF IInv, WorkersSane, Queued, Resting
    <2> QED
      BY <2>1, <2>2, <2>4, QueueStep
  <1> QED
    BY <1>3, <1>4

\* A worker leaves its call: it rests, and the call is freed or goes on alone.
LEMMA WorkerLeaves ==
    ASSUME IInv, NEW w \in Workers, wkr[w].pc = "wait",
           wkr' = [wkr EXCEPT ![w] = Resting],
           call' = call \/ call' = [call EXCEPT ![wkr[w].call] = Free],
           \A j \in Jobs : jobs'[j].op = jobs[j].op
    PROVE  WorkersSane' /\ wkr' \in [Workers -> Worker] /\ call' \in [Calls -> Call]
  <1>1. wkr'[w] = Resting /\ \A v \in Workers \ {w} : wkr'[v] = wkr[v]
    BY DEF IInv, TypeOK
  <1>2. \A d \in Calls : d # wkr[w].call => call'[d] = call[d]
    BY DEF IInv, TypeOK
  <1>3. Resting \in Worker /\ Free \in Call /\ Resting.pc = "idle"
    BY DEF Resting, Worker, Free, Call
  <1>4. wkr' \in [Workers -> Worker] /\ call' \in [Calls -> Call]
    BY <1>3 DEF IInv, TypeOK
  <1>5. WorkersSane'
    BY <1>1, <1>2, <1>3 DEF IInv, WorkersSane, Queued
  <1> QED
    BY <1>4, <1>5
\* The end of an attempt: the job's state and the status shown for the credential.
LEMMA OutcomeStep ==
    ASSUME IInv, NEW w \in Workers, wkr[w].pc = "wait", NEW j \in Jobs, j = wkr[w].job,
           NEW state \in {"PENDING", "CONFIRMED", "FAILED"},
           NEW status \in {"PENDING", "CONFIRMED", "FAILED"},
           jobs' = [jobs EXCEPT ![j].state = state],
           state = "CONFIRMED" => Anchored(j),
           ShowStatus(jobs[j].op, status),
           failedBefore' \subseteq Jobs \X Jobs,
           faults' \in 0..MaxFaults,
           wkr' = [wkr EXCEPT ![w] = Resting],
           call' = call \/ call' = [call EXCEPT ![wkr[w].call] = Free],
           UNCHANGED <<ledger, planned, req>>
    PROVE  IInv'
  <1>1. /\ Queued(j) /\ jobs[j] # NoJob /\ jobs[j] \in Job
        /\ cred.hash \in Hashes /\ cred \in Row
    BY DEF IInv, TypeOK, WorkersSane, Queued, NoJob, Operations, RowFirst
  <1>2. /\ jobs'[j] = [jobs[j] EXCEPT !.state = state]
        /\ \A k \in Jobs \ {j} : jobs'[k] = jobs[k]
    BY DEF IInv, TypeOK
  <1>3. /\ jobs'[j] \in Job /\ jobs'[j].op = jobs[j].op /\ jobs'[j].hash = jobs[j].hash
        /\ jobs'[j].arg = jobs[j].arg /\ jobs'[j].state = state
    BY <1>1, <1>2 DEF Job
  <1>4. cred' \in Row /\ cred'.hash = cred.hash /\ cred'.revoked = cred.revoked
    BY <1>1 DEF ShowStatus, Row
  <1>5. /\ \A k \in Jobs : jobs'[k].op = jobs[k].op
        /\ WorkersSane' /\ wkr' \in [Workers -> Worker] /\ call' \in [Calls -> Call]
    <2>1. \A k \in Jobs : jobs'[k].op = jobs[k].op
      BY <1>2, <1>3
    <2> QED
      BY <2>1, WorkerLeaves
  <1>6. TypeOK'
    <2>1. jobs' \in [Jobs -> Job]
      BY <1>3 DEF IInv, TypeOK
    <2>2. \A k \in Jobs : jobs'[k] # NoJob => jobs'[k].op \in Operations /\ jobs'[k].hash \in Hashes
      BY <1>1, <1>2, <1>3 DEF IInv, TypeOK
    <2> QED
      BY <1>1, <1>4, <1>5, <2>1, <2>2 DEF IInv, TypeOK, ledger, LedgerTypeOK
  <1>7. \A c \in Calls : call'[c] = call[c] \/ call'[c] = Free
    BY DEF IInv, TypeOK
  <1> QED
    BY <1>1, <1>2, <1>3, <1>4, <1>5, <1>6, <1>7, QueueStep

LEMMA ConfirmOK ==
    ASSUME IInv, NEW w \in Workers, Confirm(w)
    PROVE  IInv'
  <1>1. PICK j : j = wkr[w].job
    OBVIOUS
  <1>2. wkr[w].pc = "wait" /\ call[wkr[w].call].pc = "ok"
    BY DEF Confirm
  <1>3. j \in Jobs /\ wkr[w].call \in Calls /\ call[wkr[w].call].job = j
    BY <1>1, <1>2 DEF IInv, WorkersSane, Queued
  <1>4. PICK k : k = call[wkr[w].call].job
    OBVIOUS
  <1>5. Anchored(k)
    BY <1>2, <1>3, <1>4 DEF IInv, CallsSane, CallSane
  <1>6. Anchored(j)
    BY <1>3, <1>4, <1>5
  <1>7. /\ jobs' = [jobs EXCEPT ![j].state = "CONFIRMED"]
        /\ ShowStatus(jobs[j].op, "CONFIRMED")
        /\ call' = [call EXCEPT ![wkr[w].call] = Free]
        /\ wkr' = [wkr EXCEPT ![w] = Resting]
        /\ UNCHANGED <<ledger, planned, failedBefore, req, faults>>
    BY <1>1 DEF Confirm
  <1>8. failedBefore' \subseteq Jobs \X Jobs /\ faults' \in 0..MaxFaults
    BY <1>7 DEF IInv, TypeOK
  <1> QED
    BY <1>1, <1>2, <1>3, <1>6, <1>7, <1>8, OutcomeStep

LEMMA FaultBound ==
    ASSUME TypeOK, Fault
    PROVE  faults' \in 0..MaxFaults
  BY AnchorAssumption DEF TypeOK, Fault

LEMMA FailOK ==
    ASSUME IInv, NEW w \in Workers, Fail(w)
    PROVE  IInv'
  <1>1. PICK j : j = wkr[w].job
    OBVIOUS
  <1>2. wkr[w].pc = "wait"
    BY DEF Fail
  <1>3. j \in Jobs
    BY <1>1, <1>2 DEF IInv, WorkersSane, Queued
  <1>4. PICK state \in {"FAILED", "PENDING"} :
            /\ jobs' = [jobs EXCEPT ![j].state = state]
            /\ ShowStatus(jobs[j].op, state)
            /\ failedBefore' = IF state = "FAILED"
                               THEN FailedExcept({j}) \cup {<<k, j>> : k \in FailedJobs \ {j}}
                               ELSE failedBefore
    BY <1>1 DEF Fail
  <1>5. /\ wkr' = [wkr EXCEPT ![w] = Resting]
        /\ call' = call \/ call' = [call EXCEPT ![wkr[w].call] = Free]
        /\ UNCHANGED <<ledger, planned, req>>
    BY DEF Fail
  <1>6. faults' \in 0..MaxFaults
    BY FaultBound DEF Fail, IInv, TypeOK
  <1>7. failedBefore' \subseteq Jobs \X Jobs
    BY <1>3, <1>4 DEF IInv, TypeOK, FailedExcept, FailedJobs
  <1> QED
    BY <1>1, <1>2, <1>3, <1>4, <1>5, <1>6, <1>7, OutcomeStep

LEMMA LoseOutcomeOK ==
    ASSUME IInv, NEW w \in Workers, LoseOutcome(w)
    PROVE  IInv'
  <1>1. /\ wkr[w].pc = "wait" /\ Fault
        /\ wkr' = [wkr EXCEPT ![w] = Resting]
        /\ call' = call \/ call' = [call EXCEPT ![wkr[w].call] = Free]
        /\ UNCHANGED <<ledger, planned, cred, jobs, failedBefore, req>>
    BY DEF LoseOutcome
  <1>2. WorkersSane' /\ wkr' \in [Workers -> Worker] /\ call' \in [Calls -> Call]
    BY <1>1, WorkerLeaves
  <1>3. TypeOK'
    BY <1>1, <1>2, FaultBound DEF IInv, TypeOK, ledger, LedgerTypeOK
  <1>4. \A c \in Calls : call'[c] = call[c] \/ call'[c] = Free
    BY <1>1 DEF IInv, TypeOK
  <1> QED
    BY <1>1, <1>2, <1>3, <1>4, QueueStep

LEMMA CrashOK ==
    ASSUME IInv, Crash
    PROVE  IInv'
  <1>1. /\ Fault
        /\ req' = [r \in Requests |-> Idle]
        /\ wkr' = [w \in Workers |-> Resting]
        /\ UNCHANGED <<ledger, planned, cred, jobs, failedBefore>>
    BY DEF Crash
  <1>2. call' \in [Calls -> Call] /\ \A c \in Calls : call'[c] = call[c] \/ call'[c] = Free
    BY DEF Crash, IInv, TypeOK, Call, Free
  <1>3. Idle \in Request /\ Resting \in Worker /\ Resting.pc = "idle"
    BY DEF Idle, Request, Resting, Worker
  <1>4. TypeOK'
    BY <1>1, <1>2, <1>3, FaultBound DEF IInv, TypeOK, ledger, LedgerTypeOK
  <1>5. WorkersSane'
    BY <1>1, <1>3 DEF WorkersSane
  <1> QED
    BY <1>1, <1>2, <1>4, <1>5, QueueStep

-----------------------------------------------------------------------------
(* The gateway and the contract *)

\* A transaction only adds to the ledger, and gives its job what it asked for.
LEMMA MineGrows ==
    ASSUME IInv, NEW c \in Calls, Mine(c), NEW j, j = call[c].job
    PROVE  /\ LedgerTypeOK' /\ LedgerSane' /\ HistoryGrows
           /\ Anchored(j)'
           /\ SnapshotsInOrder'
           /\ \A h \in Hashes : ids'[h].status = "REVOKED" =>
                 ids[h].status = "REVOKED" \/ (jobs[j].op = "REVOKE" /\ jobs[j].hash = h)
  <1>1. PICK h : h = jobs[j].hash
    OBVIOUS
  <1>2. PICK a : a = jobs[j].arg
    OBVIOUS
  <1>3. /\ j \in Jobs /\ jobs[j].op \in Operations /\ h \in Hashes /\ a \in Nat
        /\ jobs[j].op = "ISSUE" => a > 0
        /\ jobs' = jobs
    BY <1>1, <1>2 DEF Mine, backend, IInv, CallsSane, CallSane, JobsSane, Queued, TypeOK, Job,
                      NoJob, Operations
  <1>4. /\ ids \in [Hashes -> [status : {"ABSENT", "ACTIVE", "REVOKED"}, exp : Nat]]
        /\ snapshots \in [Hashes -> Seq(Jobs)] /\ Payloads = Jobs
        /\ LedgerSane /\ SnapshotsInOrder
    BY AnchorAssumption DEF IInv, TypeOK, LedgerTypeOK
  <1>5. \/ jobs[j].op = "ISSUE" /\ IssueId(h, a)
        \/ jobs[j].op = "EXTEND" /\ ExtendId(h, a)
        \/ jobs[j].op = "REVOKE" /\ RevokeId(h)
        \/ jobs[j].op = "SNAPSHOT" /\ AppendDataSnapshot(h, j, a)
    BY <1>1, <1>2 DEF Mine, Op, HashOf, Arg
  <1>6. ASSUME UNCHANGED snapshots PROVE SnapshotsInOrder'
    BY <1>3, <1>4, <1>6 DEF SnapshotsInOrder
  <1>7. CASE jobs[j].op = "ISSUE" /\ IssueId(h, a)
    <2>1. ids[h].status = "ABSENT" /\ UNCHANGED snapshots
          /\ ids' = [ids EXCEPT ![h] = [status |-> "ACTIVE", exp |-> a]]
      BY <1>7 DEF IssueId
    <2>2. ids'[h].status = "ACTIVE" /\ ids'[h].exp = a /\ ids[h].exp = 0
          /\ \A k \in Hashes \ {h} : ids'[k] = ids[k]
      BY <2>1, <1>3, <1>4 DEF LedgerSane
    <2>3. LedgerTypeOK'
      BY <2>1, <1>3, <1>4 DEF LedgerTypeOK
    <2>4. LedgerSane'
      BY <2>2, <1>4 DEF LedgerSane
    <2>5. HistoryGrows
      BY <2>1, <2>2, <1>3, <1>4 DEF HistoryGrows
    <2>6. Anchored(j)'
      BY <2>2, <1>1, <1>3, <1>7 DEF Anchored
    <2> QED
      BY <1>6, <2>1, <2>2, <2>3, <2>4, <2>5, <2>6
  <1>8. CASE jobs[j].op = "EXTEND" /\ ExtendId(h, a)
    <2>1. ids[h].status = "ACTIVE" /\ a > ids[h].exp /\ UNCHANGED snapshots
          /\ ids' = [ids EXCEPT ![h].exp = a]
      BY <1>8 DEF ExtendId
    <2>2. ids'[h].status = "ACTIVE" /\ ids'[h].exp = a
          /\ \A k \in Hashes \ {h} : ids'[k] = ids[k]
      BY <2>1, <1>3, <1>4
    <2>3. LedgerTypeOK'
      BY <2>1, <1>3, <1>4 DEF LedgerTypeOK
    <2>4. LedgerSane'
      BY <2>2, <1>4 DEF LedgerSane
    <2>5. HistoryGrows
      BY <2>1, <2>2, <1>3, <1>4 DEF HistoryGrows
    <2>6. Anchored(j)'
      BY <2>2, <1>1, <1>2, <1>3, <1>8 DEF Anchored
    <2> QED
      BY <1>6, <2>1, <2>2, <2>3, <2>4, <2>5, <2>6
  <1>9. CASE jobs[j].op = "REVOKE" /\ RevokeId(h)
    <2>1. ids[h].status = "ACTIVE" /\ UNCHANGED snapshots
          /\ ids' = [ids EXCEPT ![h].status = "REVOKED"]
      BY <1>9 DEF RevokeId
    <2>2. ids'[h].status = "REVOKED" /\ ids'[h].exp = ids[h].exp
          /\ \A k \in Hashes \ {h} : ids'[k] = ids[k]
      BY <2>1, <1>3, <1>4
    <2>3. LedgerTypeOK'
      BY <2>1, <1>3, <1>4 DEF LedgerTypeOK
    <2>4. LedgerSane'
      BY <2>2, <1>4 DEF LedgerSane
    <2>5. HistoryGrows
      BY <2>1, <2>2, <1>3, <1>4 DEF HistoryGrows
    <2>6. Anchored(j)'
      BY <2>2, <1>1, <1>3, <1>9 DEF Anchored
    <2> QED
      BY <1>1, <1>6, <1>9, <2>1, <2>2, <2>3, <2>4, <2>5, <2>6
  <1>10. CASE jobs[j].op = "SNAPSHOT" /\ AppendDataSnapshot(h, j, a)
    <2>1. a = Len(snapshots[h]) + 1 /\ UNCHANGED ids
          /\ snapshots' = [snapshots EXCEPT ![h] = Append(snapshots[h], j)]
      BY <1>10 DEF AppendDataSnapshot
    <2>2. snapshots'[h] = Append(snapshots[h], j)
          /\ \A k \in Hashes \ {h} : snapshots'[k] = snapshots[k]
      BY <2>1, <1>3, <1>4
    <2>3. /\ snapshots[h] \in Seq(Jobs) /\ Len(snapshots'[h]) = a
          /\ snapshots'[h] \in Seq(Jobs) /\ snapshots'[h][a] = j
          /\ \A k \in 1..Len(snapshots[h]) : snapshots'[h][k] = snapshots[h][k]
      BY <2>1, <2>2, <1>3, <1>4
    <2>4. LedgerTypeOK'
      BY <2>1, <2>3, <1>4 DEF LedgerTypeOK
    <2>5. LedgerSane'
      BY <2>1, <1>4 DEF LedgerSane
    <2>6. HistoryGrows
      BY <2>1, <2>2, <2>3, <1>3, <1>4 DEF HistoryGrows
    <2>7. Anchored(j)'
      <3>1. jobs'[j].op = "SNAPSHOT" /\ jobs'[j].hash = h /\ jobs'[j].arg = a
        BY <1>1, <1>2, <1>3, <1>10
      <3>2. Len(snapshots'[h]) >= a
        BY <2>3, <1>3
      <3> QED
        BY <3>1, <3>2 DEF Anchored
    <2>8. SnapshotsInOrder'
      <3> SUFFICES ASSUME NEW g \in Hashes, NEW k \in 1..Len(snapshots'[g])
                   PROVE  LET i == snapshots'[g][k]
                          IN  jobs[i].op = "SNAPSHOT" /\ jobs[i].hash = g /\ jobs[i].arg = k
        BY <1>3 DEF SnapshotsInOrder
      <3>1. CASE g # h \/ k # a
        <4>1. k \in 1..Len(snapshots[g]) /\ snapshots'[g][k] = snapshots[g][k]
          BY <3>1, <2>1, <2>2, <2>3, <1>4
        <4> QED
          BY <4>1, <1>4 DEF SnapshotsInOrder
      <3>2. CASE g = h /\ k = a
        BY <3>2, <2>3, <1>1, <1>2, <1>10
      <3> QED
        BY <3>1, <3>2
    <2> QED
      BY <2>1, <2>4, <2>5, <2>6, <2>7, <2>8
  <1> QED
    BY <1>5, <1>7, <1>8, <1>9, <1>10
\* A step of call c: it goes to p, or is freed when no worker waits for its answer.
LEMMA GatewayMoves ==
    ASSUME IInv, NEW c \in Calls, call[c].pc # "free", NEW j, j = call[c].job,
           NEW p \in {"tx", "verify", "ok", "error"}, Answer(c, p) \/ GoTo(c, p),
           UNCHANGED backend, faults' \in 0..MaxFaults,
           LedgerTypeOK', LedgerSane', HistoryGrows, SnapshotsInOrder',
           \A h \in Hashes : ids'[h].status = "REVOKED" =>
               ids[h].status = "REVOKED" \/ (jobs[j].op = "REVOKE" /\ jobs[j].hash = h),
           p = "ok" => Anchored(j)'
    PROVE  IInv'
  <1>1. Queued(j) /\ call[c] \in Call
    BY DEF IInv, TypeOK, CallsSane, CallSane
  <1>2. PICK n \in {Free, [call[c] EXCEPT !.pc = p]} :
            /\ call' = [call EXCEPT ![c] = n]
            /\ n = Free => ~Awaited(c) \/ call[c] = Free
    BY DEF Answer, GoTo, Free
  <1>3. n \in Call /\ (n = Free \/ (n.pc = p /\ n.job = j)) /\ Free.pc = "free"
    BY <1>1, <1>2 DEF Call, Free
  <1>4. call'[c] = n /\ \A d \in Calls \ {c} : call'[d] = call[d]
    BY <1>2 DEF IInv, TypeOK
  <1>5. /\ UNCHANGED <<planned, cred, jobs, failedBefore, req, wkr>>
        /\ Keep
    BY DEF backend, Keep
  <1>6. TypeOK'
    BY <1>2, <1>3, <1>5 DEF IInv, TypeOK
  <1>7. RowFirst' /\ JobsSane' /\ FreshWrite'
    BY <1>5 DEF IInv, RowFirst, JobsSane, FreshWrite
  <1>8. RequestsSane'
    BY <1>5 DEF IInv, RequestsSane, RequestSane, Queued
  <1>9. WorkersSane'
    <2>1. ASSUME NEW w \in Workers, wkr[w].pc = "wait", wkr[w].call = c
          PROVE  n.pc # "free" /\ n.job = j
      <3>1. Awaited(c)
        BY <2>1 DEF Awaited
      <3>2. n # Free
        BY <3>1, <1>2, <1>3
      <3> QED
        BY <3>2, <1>3
    <2> QED
      BY <2>1, <1>4, <1>5 DEF IInv, WorkersSane, Queued
  <1>10. ASSUME NEW k \in Jobs, Queued(k), Anchored(k) PROVE Anchored(k)'
    BY <1>5, <1>10, AnchoredStays DEF IInv
  <1>11. CallsSane'
    <2> SUFFICES ASSUME NEW d \in Calls PROVE CallSane(d)'
      BY DEF CallsSane
    <2>1. PICK k : k = call[d].job
      OBVIOUS
    <2>2. /\ call[d].pc # "free" => Queued(k)
          /\ call[d].pc = "count" => jobs[k].op = "SNAPSHOT"
          /\ call[d].pc = "ok" => Anchored(k)
      BY <2>1 DEF IInv, CallsSane, CallSane, Op
    <2>3. CASE d # c
      <3>1. call'[d] = call[d] /\ call'[d].job = k
        BY <2>1, <2>3, <1>4
      <3>2. call[d].pc = "ok" => Anchored(k)'
        BY <2>2, <1>10 DEF Queued
      <3> QED
        BY <3>1, <3>2, <2>2, <1>5 DEF CallSane, Queued, Op, Anchored
    <2>4. CASE d = c /\ n = Free
      BY <2>4, <1>3, <1>4 DEF CallSane
    <2>5. CASE d = c /\ n.pc = p /\ n.job = j
      <3>1. call'[d].pc = p /\ call'[d].job = j
        BY <2>5, <1>4
      <3> QED
        BY <3>1, <1>1, <1>5 DEF CallSane, Queued, Op, Anchored
    <2> QED
      BY <2>3, <2>4, <2>5, <1>3
  <1>12. ConfirmedIsAnchored'
    <2> SUFFICES ASSUME NEW k \in Jobs, jobs[k].state = "CONFIRMED" PROVE Anchored(k)'
      BY <1>5 DEF ConfirmedIsAnchored
    <2>1. Queued(k) /\ Anchored(k)
      BY DEF IInv, ConfirmedIsAnchored, TypeOK, NoJob, Queued
    <2> QED
      BY <2>1, <1>10
  <1>13. RevokesFollow'
    BY <1>1, <1>5 DEF IInv, RevokesFollow, Queued
  <1> QED
    BY <1>6, <1>7, <1>8, <1>9, <1>11, <1>12, <1>13 DEF IInv

LEMMA MineOK ==
    ASSUME IInv, NEW c \in Calls, Mine(c)
    PROVE  IInv' /\ HistoryGrows
  <1>1. PICK j : j = call[c].job
    OBVIOUS
  <1>2. call[c].pc # "free" /\ Answer(c, "ok") /\ UNCHANGED backend
    BY DEF Mine
  <1>3. faults' \in 0..MaxFaults
    BY DEF Mine, IInv, TypeOK
  <1> QED
    BY <1>1, <1>2, <1>3, MineGrows, GatewayMoves

\* What verifyId shows for a call that was done before is what the job wanted.
LEMMA DoneIsAnchored ==
    ASSUME IInv, NEW c \in Calls, call[c].pc # "free", DoneBefore(c), NEW j, j = call[c].job
    PROVE  Anchored(j)
  <1>1. /\ j \in Jobs /\ jobs[j] # NoJob /\ jobs[j].hash \in Hashes /\ jobs[j].arg \in Nat
        /\ jobs[j].op = "ISSUE" => jobs[j].arg > 0
    BY DEF IInv, CallsSane, CallSane, Queued, TypeOK, Job, NoJob, Operations, JobsSane
  <1>2. PICK id : id = ids[jobs[j].hash]
    OBVIOUS
  <1>3. /\ id.exp \in Nat
        /\ id.status = "ABSENT" => id.exp = 0
    BY <1>1, <1>2 DEF IInv, TypeOK, LedgerTypeOK, LedgerSane
  <1>4. \/ jobs[j].op = "ISSUE" /\ id.exp = jobs[j].arg
        \/ jobs[j].op = "EXTEND" /\ id.exp = jobs[j].arg /\ id.status = "ACTIVE"
        \/ jobs[j].op = "REVOKE" /\ id.status = "REVOKED"
    BY <1>2 DEF DoneBefore, Op, HashOf, Arg
  <1>5. CASE jobs[j].op = "ISSUE" /\ id.exp = jobs[j].arg
    BY <1>1, <1>2, <1>3, <1>5 DEF Anchored
  <1>6. CASE jobs[j].op = "EXTEND" /\ id.exp = jobs[j].arg /\ id.status = "ACTIVE"
    BY <1>1, <1>2, <1>3, <1>6 DEF Anchored
  <1>7. CASE jobs[j].op = "REVOKE" /\ id.status = "REVOKED"
    BY <1>2, <1>7 DEF Anchored
  <1> QED
    BY <1>4, <1>5, <1>6, <1>7

LEMMA GatewayOK ==
    ASSUME IInv, NEW c \in Calls, GatewayStep(c)
    PROVE  IInv' /\ HistoryGrows
  <1>1. PICK j : j = call[c].job
    OBVIOUS
  <1>2. CASE Mine(c)
    BY <1>2, MineOK
  <1>3. CASE ~Mine(c)
    <2>1. /\ UNCHANGED <<ledger, backend>>
          /\ call[c].pc # "free"
          /\ faults' \in 0..MaxFaults
      BY <1>3, FaultBound DEF GatewayStep, CountSnapshots, Revert, RefuseWindow, Verify,
                              Unreachable, IInv, TypeOK
    <2>2. LedgerTypeOK' /\ LedgerSane' /\ HistoryGrows /\ jobs' = jobs /\ Queued(j)
      BY <1>1, <2>1, StillGrows DEF IInv, TypeOK, LedgerTypeOK, LedgerSane, ledger, backend,
                                    CallsSane, CallSane
    <2>3. Keep /\ SnapshotsInOrder'
      BY <2>1, <2>2, OrderStays DEF Keep
    <2>4. ASSUME Anchored(j) PROVE Anchored(j)'
      BY <2>2, <2>3, <2>4, AnchoredStays DEF Queued, IInv
    <2>5. \A h \in Hashes : ids'[h].status = "REVOKED" => ids[h].status = "REVOKED"
      BY <2>1 DEF ledger
    <2>6. CASE CountSnapshots(c)
      <3>1. jobs[j].op = "SNAPSHOT"
        BY <1>1, <2>6 DEF CountSnapshots, IInv, CallsSane, CallSane, Op
      <3>2. CASE Len(snapshots[HashOf(c)]) >= Arg(c)
        <4>1. Anchored(j)
          BY <1>1, <3>1, <3>2 DEF Anchored, HashOf, Arg
        <4>2. Answer(c, "ok")
          BY <2>6, <3>2 DEF CountSnapshots
        <4> QED
          BY <1>1, <2>1, <2>2, <2>3, <2>4, <2>5, <4>1, <4>2, GatewayMoves
      <3>3. CASE ~(Len(snapshots[HashOf(c)]) >= Arg(c))
        <4>1. GoTo(c, "tx")
          BY <2>6, <3>3 DEF CountSnapshots
        <4> QED
          BY <1>1, <2>1, <2>2, <2>3, <2>5, <4>1, GatewayMoves
      <3> QED
        BY <3>2, <3>3
    <2>7. CASE Revert(c) \/ RefuseWindow(c) \/ Unreachable(c)
      <3>1. Answer(c, "error") \/ GoTo(c, "verify")
        BY <2>7 DEF Revert, RefuseWindow, Unreachable
      <3>2. CASE Answer(c, "error")
        BY <1>1, <2>1, <2>2, <2>3, <2>5, <3>2, GatewayMoves
      <3>3. CASE GoTo(c, "verify")
        BY <1>1, <2>1, <2>2, <2>3, <2>5, <3>3, GatewayMoves
      <3> QED
        BY <3>1, <3>2, <3>3
    <2>8. CASE Verify(c)
      <3>1. (DoneBefore(c) /\ Answer(c, "ok")) \/ Answer(c, "error")
        BY <2>8 DEF Verify
      <3>2. CASE DoneBefore(c) /\ Answer(c, "ok")
        <4>1. Anchored(j)
          BY <1>1, <2>1, <3>2, DoneIsAnchored
        <4> QED
          BY <1>1, <2>1, <2>2, <2>3, <2>4, <2>5, <3>2, <4>1, GatewayMoves
      <3>3. CASE Answer(c, "error")
        BY <1>1, <2>1, <2>2, <2>3, <2>5, <3>3, GatewayMoves
      <3> QED
        BY <3>1, <3>2, <3>3
    <2> QED
      BY <1>3, <2>6, <2>7, <2>8 DEF GatewayStep
  <1> QED
    BY <1>2, <1>3

-----------------------------------------------------------------------------
(* The theorems *)

LEMMA InitOK ==
    ASSUME Init
    PROVE  IInv
  <1>1. /\ NoRow \in Row /\ NoRow.hash = None /\ NoRow.status = "NONE"
        /\ NoJob \in Job /\ NoJob.op = "NONE" /\ NoJob.state = "NONE"
        /\ Idle \in Request /\ Idle.pc = "idle"
        /\ Resting \in Worker /\ Resting.pc = "idle"
        /\ Free \in Call /\ Free.pc = "free"
    BY DEF NoRow, Row, NoJob, Job, Idle, Request, Resting, Worker, Free, Call
  <1>2. LedgerTypeOK /\ LedgerSane /\ SnapshotsInOrder /\ \A h \in Hashes : ids[h].status = "ABSENT"
    BY DEF Init, LedgerInit, LedgerTypeOK, LedgerSane, SnapshotsInOrder, Absent
  <1>3. TypeOK
    BY <1>1, <1>2, AnchorAssumption DEF Init, TypeOK
  <1>4. RowFirst /\ JobsSane /\ RequestsSane /\ WorkersSane /\ CallsSane
    BY <1>1 DEF Init, RowFirst, JobsSane, RequestsSane, RequestSane, WorkersSane, CallsSane,
                CallSane, WithHash
  <1>5. ConfirmedIsAnchored /\ FreshWrite /\ RevokesFollow
    BY <1>1, <1>2 DEF Init, ConfirmedIsAnchored, FreshWrite, RevokesFollow
  <1> QED
    BY <1>2, <1>3, <1>4, <1>5 DEF IInv

LEMMA RequestOK ==
    ASSUME IInv, NEW r \in Requests, RequestStep(r)
    PROVE  IInv' /\ UNCHANGED ledger
  <1>1. IInv'
    BY BeginIssueOK, BeginExtendOK, BeginMembershipSnapshotOK, BeginRevokeOK, BeginRetryOK,
       WriteIssueOK, AddIssueOK, AddOK, ListCredentialsOK, WriteExtendOK, WriteRevokeOK,
       RequeueOK DEF RequestStep
  <1>2. UNCHANGED ledger
    BY DEF RequestStep, BeginIssue, BeginExtend, BeginMembershipSnapshot, BeginRevoke,
           BeginRetry, WriteIssue, AddIssue, AddSnapshot, ListCredentials, WriteExtend,
           AddExtend, WriteRevoke, AddRevoke, Requeue
  <1> QED
    BY <1>1, <1>2

LEMMA WorkerOK ==
    ASSUME IInv, NEW w \in Workers, WorkerStep(w)
    PROVE  IInv' /\ UNCHANGED ledger
  <1>1. IInv'
    BY PickOK, ClaimOK, ConfirmOK, FailOK, LoseOutcomeOK DEF WorkerStep
  <1>2. UNCHANGED ledger
    BY DEF WorkerStep, Pick, Claim, Confirm, Fail, LoseOutcome
  <1> QED
    BY <1>1, <1>2

LEMMA StepOK ==
    ASSUME IInv, [Next]_vars
    PROVE  IInv' /\ HistoryGrows
  <1>1. ASSUME UNCHANGED ledger PROVE HistoryGrows
    BY <1>1, StillGrows DEF IInv, TypeOK
  <1>2. CASE \E r \in Requests : RequestStep(r)
    BY <1>1, <1>2, RequestOK
  <1>3. CASE RequeueSnapshots
    BY <1>1, <1>3, RequeueSnapshotsOK DEF RequeueSnapshots
  <1>4. CASE \E w \in Workers : WorkerStep(w)
    BY <1>1, <1>4, WorkerOK
  <1>5. CASE \E c \in Calls : GatewayStep(c)
    BY <1>5, GatewayOK
  <1>6. CASE Crash
    BY <1>1, <1>6, CrashOK DEF Crash
  <1>7. CASE UNCHANGED vars
    <2>1. /\ UNCHANGED ledger
          /\ UNCHANGED <<planned, cred, jobs, failedBefore, req, wkr, call, faults>>
      BY <1>7 DEF vars, backend
    <2>2. TypeOK' /\ WorkersSane'
      BY <2>1 DEF IInv, TypeOK, ledger, LedgerTypeOK, WorkersSane, Queued
    <2> QED
      BY <1>1, <2>1, <2>2, QueueStep DEF IInv, ConfirmedIsAnchored, TypeOK, NoJob, Queued
  <1> QED
    BY <1>2, <1>3, <1>4, <1>5, <1>6, <1>7 DEF Next
\* The row's status shows CONFIRMED only after a job for its one hash was anchored.
LEMMA OneHashStep ==
    ASSUME IInv, OneHash, [Next]_vars
    PROVE  OneHash'
  <1> SUFFICES ASSUME Kind = "GROUP"
               PROVE  /\ \A j \in Jobs : Queued(j)' => jobs'[j].hash = cred'.hash
                      /\ \A r \in Requests :
                            /\ req'[r].pc = "writeIssue" => ~req'[r].row
                            /\ req'[r].pc \in WithHash \ {"writeIssue"} => req'[r].hash = cred'.hash
                      /\ ConfirmedIsIssued'
    BY DEF OneHash
  <1>1. /\ \A j \in Jobs : Queued(j) => jobs[j].hash = cred.hash
        /\ \A r \in Requests :
              /\ req[r].pc = "writeIssue" => ~req[r].row
              /\ req[r].pc \in WithHash \ {"writeIssue"} => req[r].hash = cred.hash
        /\ ConfirmedIsIssued
    BY DEF OneHash
  <1>2. HistoryGrows /\ IInv'
    BY StepOK
  <1>3. ASSUME cred' = cred PROVE ConfirmedIsIssued'
    <2>1. CASE cred.hash \in Hashes
      BY <1>1, <1>2, <1>3, <2>1 DEF ConfirmedIsIssued, HistoryGrows
    <2>2. CASE cred.hash \notin Hashes
      BY <1>3, <2>2 DEF ConfirmedIsIssued, IInv, RowFirst, NoRow
    <2> QED
      BY <2>1, <2>2
  <1>4. ASSUME NEW r \in Requests, RequestStep(r)
        PROVE  /\ \A j \in Jobs : Queued(j)' => jobs'[j].hash = cred'.hash
               /\ \A q \in Requests :
                     /\ req'[q].pc = "writeIssue" => ~req'[q].row
                     /\ req'[q].pc \in WithHash \ {"writeIssue"} => req'[q].hash = cred'.hash
               /\ ConfirmedIsIssued'
    <2>1. req[r] \in Request /\ cred \in Row
      BY DEF IInv, TypeOK
    <2>2. CASE \/ \E h \in Hashes : BeginIssue(r, h)
               \/ \E e \in Expiries : BeginExtend(r, e)
               \/ BeginMembershipSnapshot(r)
               \/ BeginRevoke(r)
               \/ \E j \in Jobs : BeginRetry(r, j)
               \/ ListCredentials(r)
      <3>1. /\ UNCHANGED <<cred, jobs>>
            /\ \A q \in Requests \ {r} : req'[q] = req[q]
        BY <2>2 DEF BeginIssue, BeginExtend, BeginMembershipSnapshot, BeginRevoke, BeginRetry,
                    ListCredentials, Start, Continue, Finish, IInv, TypeOK
      <3>2. /\ req'[r].pc = "writeIssue" => ~req'[r].row
            /\ req'[r].pc \in WithHash \ {"writeIssue"} => req'[r].hash = cred.hash
        <4>1. CASE \E h \in Hashes : BeginIssue(r, h)
          <5>1. req'[r].pc = "writeIssue" /\ cred = NoRow
            BY <4>1 DEF BeginIssue, Start, IInv, TypeOK
          <5>2. req'[r].row = (cred # NoRow)
            <6> PICK h \in Hashes : BeginIssue(r, h)
              BY <4>1
            <6> DEFINE n == [pc |-> "writeIssue", hash |-> h, arg |-> planned,
                             row |-> cred # NoRow]
            <6>1. req' = [req EXCEPT ![r] = n]
              BY DEF BeginIssue, Start
            <6> HIDE DEF n
            <6>2. req'[r] = n
              BY <6>1 DEF IInv, TypeOK
            <6> QED
              BY <6>2 DEF n
          <5> QED
            BY <5>1, <5>2 DEF WithHash
        <4>2. CASE BeginMembershipSnapshot(r)
          BY <4>2 DEF BeginMembershipSnapshot, Start, IInv, TypeOK
        <4>3. CASE \/ \E e \in Expiries : BeginExtend(r, e)
                   \/ BeginRevoke(r)
                   \/ \E j \in Jobs : BeginRetry(r, j)
          <5>1. CASE \E e \in Expiries : BeginExtend(r, e)
            BY <5>1 DEF BeginExtend, Start, Idle, IInv, TypeOK, WithHash
          <5>2. CASE BeginRevoke(r)
            BY <5>2 DEF BeginRevoke, Start, Idle, IInv, TypeOK, WithHash
          <5>3. CASE \E j \in Jobs : BeginRetry(r, j)
            BY <5>3 DEF BeginRetry, Start, Idle, IInv, TypeOK, WithHash
          <5> QED
            BY <4>3, <5>1, <5>2, <5>3
        <4>4. CASE ListCredentials(r)
          <5>1. req'[r].pc \in {"idle", "writeExtend"}
            BY <2>1, <4>4 DEF ListCredentials, Continue, Finish, Idle, IInv, TypeOK, Request
          <5> QED
            BY <5>1 DEF WithHash
        <4> QED
          BY <2>2, <4>1, <4>2, <4>3, <4>4
      <3> QED
        BY <1>1, <1>3, <3>1, <3>2 DEF Queued
    <2>3. CASE WriteIssue(r)
      <3>1. \A q \in Requests \ {r} : req'[q] = req[q]
        BY <2>3 DEF WriteIssue, Continue, Finish, IInv, TypeOK
      <3>2. CASE cred = NoRow
        <4>1. /\ cred'.hash = req[r].hash /\ cred'.status = "PENDING" /\ jobs' = jobs
              /\ req'[r].pc = "addIssue" /\ req'[r].hash = req[r].hash
          BY <2>1, <2>3, <3>2 DEF WriteIssue, Continue, IInv, TypeOK, Request
        <4>2. \A j \in Jobs : ~Queued(j)
          BY <3>2, AnchorAssumption DEF IInv, RowFirst, NoRow, Queued, NoJob, Operations
        <4>3. \A q \in Requests : req[q].pc \notin WithHash \ {"writeIssue"}
          BY <3>2, AnchorAssumption DEF IInv, RowFirst, NoRow, WithHash
        <4> QED
          BY <1>1, <3>1, <4>1, <4>2, <4>3 DEF Queued, ConfirmedIsIssued
      <3>3. CASE cred # NoRow
        <4>1. /\ UNCHANGED <<cred, jobs>> /\ req'[r].pc = "idle"
          BY <1>1, <2>1, <2>3, <3>3 DEF WriteIssue, Finish, Idle, IInv, TypeOK
        <4> QED
          BY <1>1, <1>3, <3>1, <4>1 DEF Queued, WithHash
      <3> QED
        BY <3>2, <3>3
    <2>4. CASE AddIssue(r) \/ AddSnapshot(r) \/ AddExtend(r) \/ AddRevoke(r)
      <3>1. req[r].hash = cred.hash /\ cred' = cred
        BY <1>1, <2>4 DEF AddIssue, AddSnapshot, AddExtend, AddRevoke, WithHash
      <3>2. /\ \A q \in Requests \ {r} : req'[q] = req[q]
            /\ req'[r].pc = "idle" \/ (req'[r].pc = "addSnapshot" /\ req'[r].hash = req[r].hash)
        BY <2>1, <2>4 DEF AddIssue, AddSnapshot, AddExtend, AddRevoke, Finish, IInv, TypeOK,
                    Request, Idle
      <3>3. \A j \in Jobs : jobs'[j] = jobs[j] \/ jobs'[j].hash = req[r].hash
        BY <2>4 DEF AddIssue, AddSnapshot, AddExtend, AddRevoke, Enqueue, IInv, TypeOK
      <3> QED
        BY <1>1, <1>3, <3>1, <3>2, <3>3 DEF Queued, WithHash
    <2>5. CASE WriteExtend(r) \/ WriteRevoke(r)
      <3>1. /\ cred'.hash = cred.hash /\ cred'.status = "PENDING" /\ jobs' = jobs
            /\ req'[r].pc # "writeIssue" /\ req'[r].hash = cred.hash
            /\ \A q \in Requests \ {r} : req'[q] = req[q]
        <4>1. CASE WriteExtend(r)
          BY <2>1, <4>1 DEF WriteExtend, IInv, TypeOK, Request, Row
        <4>2. CASE WriteRevoke(r)
          BY <2>1, <4>2 DEF WriteRevoke, IInv, TypeOK, Request, Row
        <4> QED
          BY <2>5, <4>1, <4>2
      <3> QED
        BY <1>1, <3>1 DEF Queued, ConfirmedIsIssued
    <2>6. CASE Requeue(r)
      <3>1. PICK k : k = req[r].arg
        OBVIOUS
      <3>2. /\ cred'.hash = cred.hash /\ cred'.status = "PENDING"
            /\ \A q \in Requests : req'[q] = req[q] \/ req'[q] = Idle
        BY <2>1, <2>6 DEF Requeue, Finish, IInv, TypeOK, Row
      <3>3. k \in Jobs /\ jobs[k] \in Job
        BY <2>6, <3>1 DEF Requeue, IInv, RequestsSane, RequestSane, Queued, TypeOK
      <3>4. jobs' = [jobs EXCEPT ![k] = [jobs[k] EXCEPT !.state = "PENDING", !.attempts = 0]]
        BY <2>6, <3>1, <3>3 DEF Requeue, IInv, TypeOK
      <3>5. \A j \in Jobs : jobs'[j].op = jobs[j].op /\ jobs'[j].hash = jobs[j].hash
        BY <3>3, <3>4, RequeuedJob DEF IInv, TypeOK
      <3> QED
        BY <1>1, <3>2, <3>5 DEF Queued, ConfirmedIsIssued, Idle, WithHash
    <2> QED
      BY <1>4, <2>2, <2>3, <2>4, <2>5, <2>6 DEF RequestStep
  <1>5. ASSUME \A j \in Jobs : jobs'[j].op = jobs[j].op /\ jobs'[j].hash = jobs[j].hash,
               \A r \in Requests : req'[r] = req[r] \/ req'[r] = Idle,
               cred'.hash = cred.hash
        PROVE  /\ \A j \in Jobs : Queued(j)' => jobs'[j].hash = cred'.hash
               /\ \A q \in Requests :
                     /\ req'[q].pc = "writeIssue" => ~req'[q].row
                     /\ req'[q].pc \in WithHash \ {"writeIssue"} => req'[q].hash = cred'.hash
    BY <1>1, <1>5 DEF Queued, Idle, WithHash
  <1>6. CASE RequeueSnapshots
    <2>1. \A j \in Jobs : jobs'[j].op = jobs[j].op /\ jobs'[j].hash = jobs[j].hash
      <3> SUFFICES ASSUME NEW j \in Jobs
                   PROVE  jobs'[j].op = jobs[j].op /\ jobs'[j].hash = jobs[j].hash
        OBVIOUS
      <3>1. jobs[j] \in Job
        BY DEF IInv, TypeOK
      <3>2. \/ jobs'[j] = jobs[j]
            \/ jobs'[j] = [jobs[j] EXCEPT !.state = "PENDING", !.attempts = 0]
        BY <1>6 DEF RequeueSnapshots
      <3> QED
        BY <3>1, <3>2, RequeuedJob
    <2> QED
      BY <1>3, <1>5, <1>6, <2>1 DEF RequeueSnapshots
  <1>7. CASE \E w \in Workers : WorkerStep(w)
    <2> PICK w \in Workers : WorkerStep(w)
      BY <1>7
    <2>1. PICK k : k = wkr[w].job
      OBVIOUS
    <2>2. wkr[w].pc # "idle" =>
             k \in Jobs /\ jobs[k] \in Job /\ jobs[k].op \in Operations /\ jobs[k].hash = cred.hash
      BY <1>1, <2>1 DEF IInv, TypeOK, WorkersSane, Queued
    <2>3. \A j \in Jobs : jobs'[j].op = jobs[j].op /\ jobs'[j].hash = jobs[j].hash
      <3>1. CASE (\E j \in Jobs : Pick(w, j)) \/ LoseOutcome(w)
        BY <3>1 DEF Pick, LoseOutcome
      <3>2. CASE \E c \in Calls : Claim(w, c)
        <4>1. /\ k \in Jobs /\ jobs[k] \in Job
              /\ jobs' = jobs \/ jobs' = [jobs EXCEPT ![k].state = "PROCESSING",
                                                      ![k].attempts = @ + 1]
          BY <2>1, <2>2, <3>2 DEF Claim
        <4> QED
          BY <4>1 DEF IInv, TypeOK, Job
      <3>3. CASE Confirm(w) \/ Fail(w)
        <4>1. /\ k \in Jobs /\ jobs[k] \in Job
              /\ \E state \in {"CONFIRMED", "FAILED", "PENDING"} :
                     jobs' = [jobs EXCEPT ![k].state = state]
          BY <2>1, <2>2, <3>3 DEF Confirm, Fail
        <4> QED
          BY <4>1 DEF IInv, TypeOK, Job
      <3> QED
        BY <3>1, <3>2, <3>3 DEF WorkerStep
    <2>4. req' = req
      BY DEF WorkerStep, Pick, Claim, Confirm, Fail, LoseOutcome
    <2>5. cred'.hash = cred.hash
      BY DEF WorkerStep, Pick, Claim, Confirm, Fail, LoseOutcome, ShowStatus, IInv, TypeOK, Row
    <2>6. ASSUME cred' = cred \/ cred'.status # "CONFIRMED" PROVE ConfirmedIsIssued'
      BY <1>3, <2>6 DEF ConfirmedIsIssued
    <2>7. ASSUME Confirm(w), cred' # cred PROVE ConfirmedIsIssued'
      <3>1. PICK m : m = call[wkr[w].call].job
        OBVIOUS
      <3>2. wkr[w].pc = "wait" /\ call[wkr[w].call].pc = "ok" /\ jobs[k].op # "SNAPSHOT"
        BY <2>1, <2>7 DEF Confirm, ShowStatus
      <3>3. Anchored(m) /\ m = k
        BY <2>1, <3>1, <3>2 DEF IInv, WorkersSane, CallsSane, CallSane
      <3>4. ids[cred.hash].status # "ABSENT" /\ cred.hash \in Hashes
        <4>1. /\ k \in Jobs /\ jobs[k].op \in {"ISSUE", "EXTEND", "REVOKE"}
              /\ jobs[k].hash = cred.hash
          BY <2>2, <3>2 DEF Operations
        <4>2. ids[jobs[k].hash].status # "ABSENT"
          BY <3>3, <4>1 DEF Anchored
        <4>3. jobs[k] # NoJob
          BY <4>1 DEF NoJob
        <4> QED
          BY <4>1, <4>2, <4>3 DEF IInv, TypeOK
      <3> QED
        BY <2>5, <2>7, <3>4 DEF Confirm, ConfirmedIsIssued, ledger
    <2>8. cred' = cred \/ cred'.status # "CONFIRMED" \/ Confirm(w)
      BY DEF WorkerStep, Pick, Claim, Fail, LoseOutcome, ShowStatus, IInv, TypeOK, Row
    <2> QED
      BY <1>5, <2>3, <2>4, <2>5, <2>6, <2>7, <2>8
  <1>8. CASE \E c \in Calls : GatewayStep(c)
    <2>1. UNCHANGED backend
      BY <1>8 DEF GatewayStep, CountSnapshots, Mine, Revert, RefuseWindow, Verify, Unreachable
    <2> QED
      BY <1>3, <1>5, <2>1 DEF backend
  <1>9. CASE Crash
    BY <1>3, <1>5, <1>9 DEF Crash
  <1>10. CASE UNCHANGED vars
    BY <1>3, <1>5, <1>10 DEF vars, backend
  <1> QED
    BY <1>4, <1>6, <1>7, <1>8, <1>9, <1>10 DEF Next

\* Spec keeps the inductive invariant, whatever is retried, reordered, lost or
\* restarted.
THEOREM Invariance == Spec => []IInv
  <1>1. Init => IInv
    BY InitOK
  <1>2. IInv /\ [Next]_vars => IInv'
    BY StepOK
  <1> QED
    BY <1>1, <1>2, PTL DEF Spec

\* The rows keep their columns' types, and name jobs that exist.
THEOREM TypeCorrect == Spec => []TypeOK
  <1>1. IInv => TypeOK
    BY DEF IInv
  <1> QED
    BY <1>1, Invariance, PTL

\* A job that processNext marks CONFIRMED has its effect on the chain, also when the
\* gateway answers a retry with "done before".
THEOREM DoneMeansAnchored == Spec => []ConfirmedIsAnchored
  <1>1. IInv => ConfirmedIsAnchored
    BY DEF IInv
  <1> QED
    BY <1>1, Invariance, PTL

\* appendDataSnapshot's sequence number keeps retried and late snapshots apart.
THEOREM SnapshotsNumbered == Spec => []SnapshotsInOrder
  <1>1. IInv => SnapshotsInOrder
    BY DEF IInv
  <1> QED
    BY <1>1, Invariance, PTL

\* No retried or overtaken job revokes, on the chain, a credential that the database
\* still honours, also after it was issued again.
THEOREM DatabaseRevokesFirst == Spec => []RevokedHereFirst
  <1>1. IInv => RevokedHereFirst
    BY DEF IInv, RevokesFollow, RevokedHereFirst
  <1> QED
    BY <1>1, Invariance, PTL

\* The contract's history is only ever added to.
THEOREM HistoryStays == Spec => HistoryPreserved
  <1>1. IInv /\ [Next]_vars => [HistoryGrows]_ledger
    BY StepOK
  <1> QED
    BY <1>1, Invariance, PTL DEF Spec, HistoryPreserved

\* A group credential that the backend shows as CONFIRMED was issued on the chain.
THEOREM GroupConfirmedIsIssued ==
    ASSUME Kind = "GROUP"
    PROVE  Spec => []ConfirmedIsIssued
  <1>1. Init => OneHash
    <2> SUFFICES ASSUME Init PROVE OneHash
      OBVIOUS
    <2>1. NoRow.status = "NONE" /\ NoJob.op = "NONE" /\ Idle.pc = "idle"
      BY DEF NoRow, NoJob, Idle
    <2> QED
      BY <2>1 DEF Init, OneHash, Queued, Operations, WithHash, ConfirmedIsIssued
  <1>2. IInv /\ OneHash /\ [Next]_vars => OneHash'
    BY OneHashStep
  <1>3. OneHash => ConfirmedIsIssued
    BY DEF OneHash
  <1> QED
    BY <1>1, <1>2, <1>3, Invariance, PTL DEF Spec
=============================================================================
