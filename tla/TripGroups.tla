------------------------------ MODULE TripGroups ------------------------------
(***************************************************************************)
(* Trips and the groups that travel on them: trip.service.js,              *)
(* group.service.js and the part of tripLifecycle.job.js that completes    *)
(* trips whose end has passed.                                             *)
(*                                                                         *)
(* As in FleetDispatch, the database rows are the shared state, a handler  *)
(* is split at its awaits, Begin actions hold the first reads and the      *)
(* guards, and req[r] is what handler r remembers.  A call of the          *)
(* credential service is one step here; CredentialAnchor opens it up.      *)
(* When overlap is FALSE a handler starts only after the one before has    *)
(* ended, so that both kinds of behaviour are checked together.            *)
(***************************************************************************)
EXTENDS Naturals, FiniteSets

CONSTANTS
    Trips, Users,
    GroupTrips,     \* the trips of tripType GROUP
    Requests,       \* HTTP requests the server may be serving at a time
    Group,          \* the holder of a group's own credential
    RacingTrips,    \* bound: the trips tourists plan where handlers overlap
    Failing,        \* bound: the values of overlap under which queries fail
    MaxFailures,    \* bound on failed handlers and restarts
    None

Open == {"PLANNED", "ACTIVE"}
Ended == {"COMPLETED", "CANCELLED"}
Holders == Users \cup {Group}

ASSUME TripAssumption ==
    /\ GroupTrips \subseteq Trips
    /\ RacingTrips \subseteq Trips
    /\ Failing \subseteq BOOLEAN
    /\ Group \notin Users
    /\ None \notin Trips \cup Users
    /\ MaxFailures \in Nat

VARIABLES
    overlap,    \* may a handler start while another is in flight?
    trip,       \* [Trips -> status], NONE before the row exists
    owner,      \* [Trips -> touristId]
    due,        \* [Trips -> has plannedEndAt passed?]
    granted,    \* [Trips -> are both required consents GRANTED?]
    group,      \* [Trips -> status of the trip's group], NONE without a group
    locked,     \* [Trips -> isLocked]
    members,    \* [Trips -> group members without leftAt]
    invited,    \* [Trips -> is there an invitation, not revoked, not expired?]
    request,    \* [Trips -> [Users -> status of the join request]]
    cred,       \* [Trips -> [Holders -> credential]], EXPIRED past expiresAt
    req,        \* [Requests -> what the handler in flight remembers]
    job,        \* the same for the lifecycle job
    failures

rows == <<trip, owner, due, granted, group, locked, members, invited, request, cred>>
vars == <<overlap, rows, req, job, failures>>

Idle == [pc |-> "idle", t |-> None, u |-> None, to |-> "NONE"]
Rest == [pc |-> "idle", t |-> None, todo |-> {}]

Init ==
    /\ overlap \in BOOLEAN
    /\ trip = [t \in Trips |-> "NONE"]
    /\ owner = [t \in Trips |-> None]
    /\ due = [t \in Trips |-> FALSE]
    /\ granted = [t \in Trips |-> FALSE]
    /\ group = [t \in Trips |-> "NONE"]
    /\ locked = [t \in Trips |-> FALSE]
    /\ members = [t \in Trips |-> {}]
    /\ invited = [t \in Trips |-> FALSE]
    /\ request = [t \in Trips |-> [u \in Users |-> "NONE"]]
    /\ cred = [t \in Trips |-> [h \in Holders |-> "NONE"]]
    /\ req = [r \in Requests |-> Idle]
    /\ job = Rest
    /\ failures = 0

-----------------------------------------------------------------------------
(* Helpers *)

Quiet == job = Rest /\ \A r \in Requests : req[r] = Idle
CanStart == overlap \/ Quiet

\* One request is enough where none overlap.
Serve(r, next) == /\ req[r] = Idle
                  /\ CanStart
                  /\ overlap \/ r = CHOOSE q \in Requests : TRUE
                  /\ req' = [req EXCEPT ![r] = next]
                  /\ UNCHANGED <<overlap, rows, job, failures>>
Start(r, pc, t, u) == Serve(r, [Idle EXCEPT !.pc = pc, !.t = t, !.u = u])
At(r, pc) == req[r].pc = pc
Continue(r, pc) == req' = [req EXCEPT ![r].pc = pc]
Finish(r) == req' = [req EXCEPT ![r] = Idle]
Fixed == UNCHANGED <<overlap, owner, job, failures>>

\* memberOf in credential.service.js
Member(t, u) == owner[t] = u \/ u \in members[t]

\* findCurrentTrip and findOpenTripForUser
CurrentTrips(u) == {t \in Trips : /\ trip[t] \in Open
                                  /\ owner[t] = u \/ (group[t] = "ACTIVE" /\ u \in members[t])}

\* Mutant of MembershipOpen: the lock is not looked at.
MembershipOpenUnlocked(t) == group[t] = "ACTIVE" /\ trip[t] = "PLANNED"

\* requireMembershipOpen
MembershipOpen(t) == ~locked[t] /\ group[t] = "ACTIVE" /\ trip[t] = "PLANNED"

\* requireOpen
GroupOpen(t) == group[t] = "ACTIVE" /\ trip[t] \in Open

\* Mutant of MayJoin: the tourist's current trip is not looked for.
MayJoinAnother(t, u) == MembershipOpen(t) /\ u \notin members[t]

\* validateJoinableInvitation and validateJoinableCredential, the checks they share
MayJoin(t, u) == /\ MembershipOpen(t)
                 /\ u \notin members[t]
                 /\ CurrentTrips(u) = {}

\* A credential row written now expires at the trip's plannedEndAt.
Issued(t) == IF due[t] THEN "EXPIRED" ELSE "ACTIVE"

\* Mutant of Revoke: the row gets a status its column does not have.
RevokeUntyped(c) == IF c = "NONE" THEN c ELSE "CANCELLED"

\* revokedAt is set once; an absent row has nothing to revoke.
Revoke(c) == IF c = "NONE" THEN c ELSE "REVOKED"

-----------------------------------------------------------------------------
(* Planning a trip *)

\* A row id that no row and no handler uses yet.
FreshTrip(t) == /\ trip[t] = "NONE"
                /\ \A r \in Requests : ~(At(r, "createTrip") /\ req[r].t = t)
                /\ overlap => t \in RacingTrips

\* Mutant of BeginCreateTrip: the tourist's current trip is not looked for.
CreateAnotherTrip(r, t, u) ==
    /\ FreshTrip(t)
    /\ Start(r, "createTrip", t, u)

\* createTrip: findCurrentTrip, the insert, ensureIndividual.
BeginCreateTrip(r, t, u) ==
    /\ FreshTrip(t)
    /\ CurrentTrips(u) = {}
    /\ Start(r, "createTrip", t, u)

CreateTrip(r) ==
    LET t == req[r].t
    IN  /\ At(r, "createTrip")
        /\ trip' = [trip EXCEPT ![t] = "PLANNED"]
        /\ owner' = [owner EXCEPT ![t] = req[r].u]
        /\ Continue(r, "ensure")
        /\ UNCHANGED <<overlap, due, granted, group, locked, members, invited, request>>
        /\ UNCHANGED <<cred, job, failures>>

\* The last call of most handlers, and issueSafetyId and getMyIndividual alone.
BeginEnsure(r, t, u) ==
    /\ trip[t] # "NONE"
    /\ (owner[t] = u /\ granted[t]) \/ cred[t][u] = "NONE"
    /\ Start(r, "ensure", t, u)

\* credentialService.ensureIndividual: throws for a stranger, returns an active
\* row, writes a fresh one over any other.
EnsureIndividual(r) ==
    LET t == req[r].t
        u == req[r].u
    IN  /\ req[r].pc \in {"ensure", "ensureToStart"}
        /\ cred' = IF Member(t, u) /\ cred[t][u] # "ACTIVE"
                   THEN [cred EXCEPT ![t][u] = Issued(t)] ELSE cred
        /\ IF At(r, "ensureToStart") /\ ~due[t] THEN Continue(r, "start") ELSE Finish(r)
        /\ UNCHANGED <<trip, due, granted, group, locked, members, invited, request>>
        /\ Fixed

BeginConsent(r, t, pc) ==
    /\ trip[t] \in Open
    /\ pc \in {"grant", "withdraw"}
    /\ pc = "withdraw" => granted[t]
    /\ Start(r, pc, t, owner[t])

Consent(r) ==
    /\ req[r].pc \in {"grant", "withdraw"}
    /\ granted' = [granted EXCEPT ![req[r].t] = At(r, "grant")]
    /\ Finish(r)
    /\ UNCHANGED <<trip, due, group, locked, members, invited, request, cred>>
    /\ Fixed

-----------------------------------------------------------------------------
(* Gathering the group *)

BeginCreateGroup(r, t) ==
    /\ t \in GroupTrips
    /\ trip[t] = "PLANNED"
    /\ group[t] = "NONE"
    /\ Start(r, "createGroup", t, owner[t])

\* tripId is unique in TripGroup: the second insert fails.
CreateGroup(r) ==
    LET t == req[r].t
    IN  /\ At(r, "createGroup")
        /\ IF group[t] = "NONE"
           THEN /\ group' = [group EXCEPT ![t] = "ACTIVE"]
                /\ members' = [members EXCEPT ![t] = {owner[t]}]
                /\ Continue(r, "issueGroup")
           ELSE Finish(r) /\ UNCHANGED <<group, members>>
        /\ UNCHANGED <<trip, due, granted, locked, invited, request, cred>>
        /\ Fixed

\* createGroupCredential
IssueGroup(r) ==
    LET t == req[r].t
    IN  /\ At(r, "issueGroup")
        /\ cred' = IF cred[t][Group] = "NONE" THEN [cred EXCEPT ![t][Group] = Issued(t)] ELSE cred
        /\ Continue(r, "ensure")
        /\ UNCHANGED <<trip, due, granted, group, locked, members, invited, request>>
        /\ Fixed

BeginInvite(r, t) ==
    /\ MembershipOpen(t)
    /\ ~invited[t]
    /\ Start(r, "invite", t, owner[t])

BeginUninvite(r, t) ==
    /\ invited[t]
    /\ Start(r, "uninvite", t, owner[t])

Invite(r) ==
    /\ req[r].pc \in {"invite", "uninvite"}
    /\ invited' = [invited EXCEPT ![req[r].t] = At(r, "invite")]
    /\ Finish(r)
    /\ UNCHANGED <<trip, due, granted, group, locked, members, request, cred>>
    /\ Fixed

\* joinGroup with an invitation token
BeginJoin(r, t, u) ==
    /\ invited[t]
    /\ MayJoin(t, u)
    /\ Start(r, "join", t, u)

Join(r) ==
    LET t == req[r].t
    IN  /\ At(r, "join")
        /\ members' = [members EXCEPT ![t] = @ \cup {req[r].u}]
        /\ Continue(r, "ensure")
        /\ UNCHANGED <<trip, due, granted, group, locked, invited, request, cred>>
        /\ Fixed

\* joinGroupByQrToken
BeginAsk(r, t, u) ==
    /\ cred[t][Group] = "ACTIVE"
    /\ MayJoin(t, u)
    /\ Start(r, "ask", t, u)

Ask(r) ==
    /\ At(r, "ask")
    /\ request' = [request EXCEPT ![req[r].t][req[r].u] = "PENDING"]
    /\ Finish(r)
    /\ UNCHANGED <<trip, due, granted, group, locked, members, invited, cred>>
    /\ Fixed

BeginApprove(r, t, u) ==
    /\ request[t][u] = "PENDING"
    /\ cred[t][Group] = "ACTIVE"
    /\ MayJoin(t, u)
    /\ Start(r, "approve", t, u)

\* approveJoinRequest: member and request in one transaction, both by id.
Approve(r) ==
    LET t == req[r].t
        u == req[r].u
    IN  /\ At(r, "approve")
        /\ members' = [members EXCEPT ![t] = @ \cup {u}]
        /\ request' = [request EXCEPT ![t][u] = "APPROVED"]
        /\ Continue(r, "ensure")
        /\ UNCHANGED <<trip, due, granted, group, locked, invited, cred>>
        /\ Fixed

BeginReject(r, t, u) ==
    /\ MembershipOpen(t)
    /\ request[t][u] = "PENDING"
    /\ Start(r, "reject", t, u)

Reject(r) ==
    /\ At(r, "reject")
    /\ request' = [request EXCEPT ![req[r].t][req[r].u] = "REJECTED"]
    /\ Finish(r)
    /\ UNCHANGED <<trip, due, granted, group, locked, members, invited, cred>>
    /\ Fixed

BeginLock(r, t) ==
    /\ group[t] = "ACTIVE"
    /\ trip[t] = "PLANNED"
    /\ ~locked[t]
    /\ Cardinality(members[t]) >= 2
    /\ Start(r, "rejectAll", t, owner[t])

\* rejectPendingJoinRequests
RejectAll(r) ==
    LET t == req[r].t
    IN  /\ At(r, "rejectAll")
        /\ request' = [request EXCEPT ![t] =
              [u \in Users |-> IF @[u] = "PENDING" THEN "REJECTED" ELSE @[u]]]
        /\ Continue(r, "lock")
        /\ UNCHANGED <<trip, due, granted, group, locked, members, invited, cred>>
        /\ Fixed

Lock(r) ==
    /\ At(r, "lock")
    /\ locked' = [locked EXCEPT ![req[r].t] = TRUE]
    /\ Finish(r)
    /\ UNCHANGED <<trip, due, granted, group, members, invited, request, cred>>
    /\ Fixed

\* Mutant of BeginLeave: the leader may go too.
AnyoneLeaves(r, t, u) ==
    /\ GroupOpen(t)
    /\ u \in members[t]
    /\ Start(r, "leave", t, u)

\* leaveGroup by the member, removeMember by the leader: not the leader, but
\* also from a locked group and during the trip.
BeginLeave(r, t, u) ==
    /\ GroupOpen(t)
    /\ u \in members[t]
    /\ u # owner[t]
    /\ Start(r, "leave", t, u)

\* Mutant of Leave: the credential is left alone.
LeaveWithCredential(r) ==
    LET t == req[r].t
    IN  /\ At(r, "leave")
        /\ members' = [members EXCEPT ![t] = @ \ {req[r].u}]
        /\ Finish(r)
        /\ UNCHANGED <<trip, due, granted, group, locked, invited, request, cred>>
        /\ Fixed

Leave(r) ==
    LET t == req[r].t
    IN  /\ At(r, "leave")
        /\ members' = [members EXCEPT ![t] = @ \ {req[r].u}]
        /\ Continue(r, "revokeOne")
        /\ UNCHANGED <<trip, due, granted, group, locked, invited, request, cred>>
        /\ Fixed

RevokeOne(r) ==
    /\ At(r, "revokeOne")
    /\ cred' = [cred EXCEPT ![req[r].t][req[r].u] = Revoke(@)]
    /\ Finish(r)
    /\ UNCHANGED <<trip, due, granted, group, locked, members, invited, request>>
    /\ Fixed

-----------------------------------------------------------------------------
(* Travelling *)

\* Mutant of BeginStart: the lock is not required.
BeginStartUnlocked(r, t) ==
    /\ trip[t] = "PLANNED"
    /\ granted[t]
    /\ t \in GroupTrips => Cardinality(members[t]) >= 2
    /\ Start(r, "ensureToStart", t, owner[t])

BeginStart(r, t) ==
    /\ trip[t] = "PLANNED"
    /\ granted[t]
    /\ t \in GroupTrips => Cardinality(members[t]) >= 2 /\ locked[t]
    /\ Start(r, "ensureToStart", t, owner[t])

\* repository.startTrip writes ACTIVE by id, whatever the status is by now.
StartTrip(r) ==
    /\ At(r, "start")
    /\ trip' = [trip EXCEPT ![req[r].t] = "ACTIVE"]
    /\ Finish(r)
    /\ UNCHANGED <<due, granted, group, locked, members, invited, request, cred>>
    /\ Fixed

\* The clock passes plannedEndAt, and with it the credentials' expiresAt.
Tick(t) ==
    /\ trip[t] \in Open
    /\ ~due[t]
    /\ due' = [due EXCEPT ![t] = TRUE]
    /\ cred' = [cred EXCEPT ![t] = [h \in Holders |-> IF @[h] = "ACTIVE" THEN "EXPIRED" ELSE @[h]]]
    /\ UNCHANGED <<trip, granted, group, locked, members, invited, request, req>>
    /\ Fixed

BeginExtend(r, t) ==
    /\ trip[t] = "ACTIVE"
    /\ Start(r, "extend", t, owner[t])

Extend(r) ==
    /\ At(r, "extend")
    /\ due' = [due EXCEPT ![req[r].t] = FALSE]
    /\ Continue(r, "extendAll")
    /\ UNCHANGED <<trip, granted, group, locked, members, invited, request, cred>>
    /\ Fixed

\* credentialService.extendTrip
ExtendAll(r) ==
    LET t == req[r].t
    IN  /\ At(r, "extendAll")
        /\ cred' = [cred EXCEPT ![t] =
              [h \in Holders |-> IF @[h] = "EXPIRED" THEN Issued(t) ELSE @[h]]]
        /\ Finish(r)
        /\ UNCHANGED <<trip, due, granted, group, locked, members, invited, request>>
        /\ Fixed

\* completeTrip of an ACTIVE trip, cancelTrip of an open one
BeginEnd(r, t, to) ==
    /\ trip[t] \in (IF to = "COMPLETED" THEN {"ACTIVE"} ELSE Open)
    /\ Serve(r, [pc |-> "end", t |-> t, u |-> owner[t], to |-> to])

\* repository.completeTrip and cancelTrip, one transaction; the status is by id.
EndRows(t, to) ==
    /\ granted' = [granted EXCEPT ![t] = FALSE]
    /\ group' = [group EXCEPT ![t] = IF @ = "ACTIVE" THEN "CLOSED" ELSE @]
    /\ trip' = [trip EXCEPT ![t] = to]
    /\ UNCHANGED <<overlap, owner, due, locked, members, invited, request, cred, failures>>

\* Mutant of RevokeRows: the group's own credential is forgotten.
RevokeMembersOnly(t) ==
    /\ cred' = [cred EXCEPT ![t] = [h \in Holders |-> IF h = Group THEN @[h] ELSE Revoke(@[h])]]
    /\ UNCHANGED <<overlap, trip, owner, due, granted, group, locked, members, invited,
                   request, failures>>

\* credentialService.revokeTrip
RevokeRows(t) ==
    /\ cred' = [cred EXCEPT ![t] = [h \in Holders |-> Revoke(@[h])]]
    /\ UNCHANGED <<overlap, trip, owner, due, granted, group, locked, members, invited,
                   request, failures>>

EndTrip(r) ==
    /\ At(r, "end")
    /\ EndRows(req[r].t, req[r].to)
    /\ Continue(r, "revokeAll")
    /\ UNCHANGED job

RevokeAll(r) ==
    /\ At(r, "revokeAll")
    /\ RevokeRows(req[r].t)
    /\ Finish(r)
    /\ UNCHANGED job

-----------------------------------------------------------------------------
(* tripLifecycle.job.js, processExpired *)

\* Mutant of BeginJob: a trip is completed early.
BeginJobEarly ==
    /\ job = Rest
    /\ CanStart
    /\ LET found == {t \in Trips : trip[t] = "ACTIVE" /\ ~due[t]}
       IN  found # {} /\ job' = [Rest EXCEPT !.pc = "complete", !.todo = found]
    /\ UNCHANGED <<overlap, rows, req, failures>>

BeginJob ==
    /\ job = Rest
    /\ CanStart
    /\ LET found == {t \in Trips : trip[t] = "ACTIVE" /\ due[t]}
       IN  found # {} /\ job' = [Rest EXCEPT !.pc = "complete", !.todo = found]
    /\ UNCHANGED <<overlap, rows, req, failures>>

NextTrip(todo) == IF todo = {} THEN Rest ELSE [Rest EXCEPT !.pc = "complete", !.todo = todo]

\* A trip of the list is completed without a second look at its row.
JobComplete ==
    \E t \in job.todo :
        /\ job.pc = "complete"
        /\ EndRows(t, "COMPLETED")
        /\ job' = [pc |-> "revoke", t |-> t, todo |-> job.todo \ {t}]
        /\ UNCHANGED req

JobRevoke ==
    /\ job.pc = "revoke"
    /\ RevokeRows(job.t)
    /\ job' = NextTrip(job.todo)
    /\ UNCHANGED req

-----------------------------------------------------------------------------
(* A query fails between two steps: the handler ends with what it has      *)
(* written, the job's catch clause goes on with the next trip.  A restart  *)
(* ends every handler.                                                     *)

Fail == /\ overlap \in Failing
        /\ failures < MaxFailures
        /\ failures' = failures + 1

FailRequest(r) ==
    /\ Fail
    /\ req[r] # Idle
    /\ Finish(r)
    /\ UNCHANGED <<overlap, rows, job>>

FailJob ==
    /\ Fail
    /\ job # Rest
    /\ \/ job.pc = "revoke" /\ job' = NextTrip(job.todo)
       \/ job.pc = "complete" /\ \E t \in job.todo : job' = NextTrip(job.todo \ {t})
    /\ UNCHANGED <<overlap, rows, req>>

Restart ==
    /\ Fail
    /\ ~Quiet
    /\ req' = [r \in Requests |-> Idle]
    /\ job' = Rest
    /\ UNCHANGED <<overlap, rows>>

-----------------------------------------------------------------------------
Begin(r) ==
    \E t \in Trips :
        \/ \E u \in Users : \/ BeginCreateTrip(r, t, u)
                            \/ BeginEnsure(r, t, u)
                            \/ BeginJoin(r, t, u)
                            \/ BeginAsk(r, t, u)
                            \/ BeginApprove(r, t, u)
                            \/ BeginReject(r, t, u)
                            \/ BeginLeave(r, t, u)
        \/ \E pc \in {"grant", "withdraw"} : BeginConsent(r, t, pc)
        \/ BeginCreateGroup(r, t)
        \/ BeginInvite(r, t)
        \/ BeginUninvite(r, t)
        \/ BeginLock(r, t)
        \/ BeginStart(r, t)
        \/ BeginExtend(r, t)
        \/ \E to \in Ended : BeginEnd(r, t, to)

Step(r) ==
    \/ CreateTrip(r)
    \/ EnsureIndividual(r)
    \/ Consent(r)
    \/ CreateGroup(r)
    \/ IssueGroup(r)
    \/ Invite(r)
    \/ Join(r)
    \/ Ask(r)
    \/ Approve(r)
    \/ Reject(r)
    \/ RejectAll(r)
    \/ Lock(r)
    \/ Leave(r)
    \/ RevokeOne(r)
    \/ StartTrip(r)
    \/ Extend(r)
    \/ ExtendAll(r)
    \/ EndTrip(r)
    \/ RevokeAll(r)

Next ==
    \/ \E r \in Requests : Begin(r) \/ Step(r) \/ FailRequest(r)
    \/ \E t \in Trips : Tick(t)
    \/ BeginJob
    \/ JobComplete
    \/ JobRevoke
    \/ FailJob
    \/ Restart

\* cron starts a tick every 15 seconds and a tick that started goes on; nothing
\* promises that a client sends a request.
JobFairness == WF_vars(BeginJob) /\ WF_vars(JobComplete) /\ WF_vars(JobRevoke)

Spec == Init /\ [][Next]_vars
FairSpec == Spec /\ JobFairness

-----------------------------------------------------------------------------
(* Properties *)

Request == [pc : {"idle", "createTrip", "ensure", "grant", "withdraw", "createGroup",
                  "issueGroup", "invite", "uninvite", "join", "ask", "approve", "reject",
                  "rejectAll", "lock", "leave", "revokeOne", "ensureToStart", "start",
                  "extend", "extendAll", "end", "revokeAll"},
            t : Trips \cup {None}, u : Users \cup {None}, to : Ended \cup {"NONE"}]
Sweep == [pc : {"idle", "complete", "revoke"}, t : Trips \cup {None}, todo : SUBSET Trips]

\* Every row holds a value of its column's enum.
TypeOK ==
    /\ overlap \in BOOLEAN
    /\ trip \in [Trips -> Open \cup Ended \cup {"NONE"}]
    /\ owner \in [Trips -> Users \cup {None}]
    /\ due \in [Trips -> BOOLEAN]
    /\ granted \in [Trips -> BOOLEAN]
    /\ group \in [Trips -> {"NONE", "ACTIVE", "CLOSED"}]
    /\ locked \in [Trips -> BOOLEAN]
    /\ members \in [Trips -> SUBSET Users]
    /\ invited \in [Trips -> BOOLEAN]
    /\ request \in [Trips -> [Users -> {"NONE", "PENDING", "APPROVED", "REJECTED"}]]
    /\ cred \in [Trips -> [Holders -> {"NONE", "ACTIVE", "EXPIRED", "REVOKED"}]]
    /\ req \in [Requests -> Request]
    /\ job \in Sweep
    /\ failures \in 0..MaxFailures

\* A group trip under way has a group, and the group is locked, however the
\* lock, the start and the clean-up of requests overlap.
StartedGroupIsLocked ==
    \A t \in GroupTrips : trip[t] = "ACTIVE" => locked[t] /\ group[t] # "NONE"

\* The tourist who planned a group trip is a member of its group for as long as
\* the group exists, also after it was closed.
GroupKeepsLeader == \A t \in Trips : group[t] # "NONE" => owner[t] \in members[t]

Serial == ~overlap
Calm == Serial /\ Quiet /\ failures = 0

\* "Complete or cancel the current trip before creating another": served one
\* after the other, requests never put a tourist on two open trips.
OneOpenTrip == Serial => \A u \in Users : Cardinality(CurrentTrips(u)) <= 1

\* Once a trip has ended, nothing of it can be used any more: consents are
\* withdrawn, the group is closed, every credential is revoked.
NothingOutlivesTrip ==
    Calm => \A t \in Trips : trip[t] \in Ended =>
        /\ ~granted[t]
        /\ group[t] # "ACTIVE"
        /\ \A h \in Holders : cred[t][h] \in {"NONE", "REVOKED"}

\* While a trip is open, the tourists on it, and nobody else, hold a credential,
\* and it is valid until the trip's planned end, extended or not.
CredentialFollowsMembership ==
    Calm => \A t \in Trips : trip[t] \in Open => \A u \in Users :
        IF Member(t, u) THEN cred[t][u] = Issued(t) ELSE cred[t][u] \in {"NONE", "REVOKED"}

\* A locked group leaves nobody waiting for an answer that cannot come.
LockAnswersEverybody ==
    Serial /\ Quiet => \A t \in Trips : locked[t] => \A u \in Users : request[t][u] # "PENDING"

\* A trip whose planned end has passed does not stay ACTIVE: the job completes
\* it, or the tourist ends or extends it first, while requests overlap the job;
\* served one at a time they could keep the job waiting.
ExpiredTripsEnd ==
    \A t \in Trips : (overlap /\ trip[t] = "ACTIVE" /\ due[t])
                        ~> (trip[t] # "ACTIVE" \/ ~due[t])

-----------------------------------------------------------------------------
(* Served one after the other, requests and job keep the rules of a trip *)

Phase == [t \in Trips |-> IF trip[t] \in Ended THEN "ENDED" ELSE trip[t]]
Party == [t \in Trips |-> IF owner[t] = None THEN {} ELSE members[t] \cup {owner[t]}]

Rulebook == INSTANCE TripRules WITH
    Groups <- GroupTrips, phase <- Phase, party <- Party, leader <- owner,
    sealed <- {t \in Trips : locked[t]}, strict <- Serial
KeepsRules == Rulebook!Spec
=============================================================================
