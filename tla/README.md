# KAVACH: TLA+ specifications

KAVACH is a tourist-safety system: an Express/Prisma backend over PostgreSQL, a
React client, an AI service, and a small blockchain stack (a Hardhat contract and
a gateway process that holds the signing key). This directory models the parts of
it whose correctness depends on *order*: request handlers that await one database
query after another while others run, timers that clean up behind them, and work
that is handed to a chain which may answer late, twice or never.

1. [Inventory](#1-inventory)
2. [Plan](#2-plan)
3. [How the code is modelled](#3-how-the-code-is-modelled)
4. [Fleet response](#4-fleet-response)
5. [Credential anchoring](#5-credential-anchoring)
6. [Trips and groups](#6-trips-and-groups)
7. [Safety checks](#7-safety-checks)
8. [Location reports](#8-location-reports)
9. [Proofs](#9-proofs)
10. [What the violation runs show](#10-what-the-violation-runs-show)
11. [Seen while modelling](#11-seen-while-modelling)
12. [Limits](#12-limits)
13. [Not modelled](#13-not-modelled)

## 1. Inventory

All state of the backend is in PostgreSQL rows (`src/server/prisma/schema.prisma`).
Nothing runs at a higher isolation level than the default READ COMMITTED, there is
no row locking, and almost every update names its row by id alone. The hard
behaviours are therefore the same everywhere: a guard is evaluated on a row that was
read some awaits ago.

| Component | State | Operations | Talks to | What must be right |
|---|---|---|---|---|
| Dispatch and fleet (`modules/dispatch`, `modules/emergency-service`) | `dispatches`, `emergency_units` | create, autoAssign, assign, transition, setUnitStatus, register | incidents, trips, realtime | a unit serves one dispatch; stages in order; a finished response frees its unit; the last one resolves the incident |
| Incidents and SOS (`modules/incident`, `modules/sos`, `modules/escalation`) | `incidents`, `sos_requests`, assignments | triggerSos, ingestSafetyAlert, acknowledge, startResponse, resolve, dismiss, assign | safety alerts, responders, notifications | one open SOS per tourist, one incident per alert, responder capacity, closed stays closed |
| Trip lifecycle (`modules/trip`, `jobs/tripLifecycle.job.js`) | `trips`, consents, safety state | create, consent, start, extend, complete, cancel; job every 15 s | credentials, groups, incidents, dispatches | one current trip; a trip that ended stays ended and leaves no active safety state |
| Trip credentials (`modules/credential`) | `tourist_trip_credentials`, `group_trip_credentials` | ensureIndividual, createGroupCredential, extendTrip, revokeTrip, retries, verifyToken | blockchain queue, gateway | the row never claims more than the chain has |
| Blockchain queue (`integrations/blockchain`, two jobs) | `blockchain_anchor_jobs` | enqueue, processNext, retryFailed, retryFailedSnapshots, reconcile | gateway | each job ends; done means on the chain; no snapshot twice |
| Gateway (`blockchain/gateway`) | none | four writing routes, two reading ones | contract | a repeated request is recognised, nothing else is |
| TrustAnchor contract | ids, snapshots, three kinds of anchors, issuers | issueId, extendId, revokeId, appendDataSnapshot, anchors | - | history is never rewritten |
| Group membership (`modules/group`) | groups, members, invitations, join requests | create, invite, join, approve, leave, remove, lock | credentials, trips | nobody joins a locked or started group; one group per trip and person |
| Signal loss (`modules/signal-loss`, job) | cases, alerts | sweep (group, separation, solo), three kinds of answers | incidents, queue | nobody is reported before the deadline or a confirmation of danger; no check of a tourist known to be lost stays unanswered; an escalated case has its incident |
| Safety and tracking (`modules/safety`, `modules/tracking`) | alerts, check-ins, geofence events, pings, latest location | submitPing, evaluateLocation, processDueCheckIns, schedule, complete, acknowledge, resolve | incidents, zone cache | each entry of a risk zone and each missed check-in is reported; late points never move a tourist back |
| Risk zones and cache (`modules/risk-zone`, `common/cache`) | zones, cached list | setActive, cacheGetOrSet, invalidate | safety | what is cached is what the rows say |
| Disaster managers' queue (`modules/disaster-management`) | alerts and incidents | syncSafetyAlertIncidents with every listing | alerts, incidents, trips | what was escalated is in the queue, nothing else is |
| Authentication (`modules/auth`) | accounts, one-time passwords, sessions | register, verify, login, refresh, reset | e-mail | a password or token is used once |
| Notification delivery (`modules/notification-delivery`) | deliveries, attempts | enqueue, processDue, retry | providers | sent once, tried at most MAX_ATTEMPTS times |
| Notifications, communication, evidence, account management | rows | insert, read, update | - | access checks |
| Monitoring, hazards | thresholds, findings | evaluate | alerts | its gap alert does not anticipate the signal-loss check |
| Analytics, dashboard, audit, observability, health | - | reads | - | - |
| Destinations, chatbot, AI service, realtime, web client, blockchain adapter and scripts | - | pass-through, presentation, command line | - | - |

`admin`, `advisory`, `check-in`, `consent`, `geofence`, `responder-unit` and
`safety-id` are empty files. `PROJECT.json` lists each component with its status and
each hazard at its line.

How they interact: a trip owns everything. A tourist's trip gets a credential and
maybe a group; while it is ACTIVE, SOS, safety alerts and signal loss raise
incidents; staff create dispatches for incidents, which hold fleet units; when the
trip ends, one clean-up dismisses its incidents and cancels their dispatches, and its
credentials are revoked. Credentials change the chain only through the job queue.

## 2. Plan

In this order, most important behaviour first:

| Module | Component | State of the work |
|---|---|---|
| `FleetDispatch`, `ResponseBoard` | fleet, incidents as far as dispatch sees them, trip end | done, safety and the refinement proved |
| `TrustAnchor`, `CredentialAnchor` | contract, gateway, queue, credentials | done, safety proved |
| `TripRules`, `TripGroups` | trips and the groups that travel on them, composed: each reads the other's rows; the abstract rules and the refinement | done, safety and the refinement proved |
| `SafetyChecks` | signal loss with the alerts and incidents it shares with monitor, staff, queue and trip end | done, safety proved |
| `LocationWatch` | location reports, check-ins, zones and their cache | done, safety proved |
| `IncidentIntake` | responder capacity, SOS de-duplication, escalation policies | open |
| `NotificationDelivery`, `Session` | due deliveries and attempts; one-time passwords and refresh tokens | open |

Every safety property of a passing run is proved for every instance (section 9), and so
are both refinements; what is left to prove comes with the open modules. Each module is
written without RECURSIVE operators, with its constants under a named assumption and one
action per handler step.

## 3. How the code is modelled

*Handlers.* A handler runs alone between two awaits, and anything may run at an
await. Each is split there: a `Begin...` action holds its first reads, its guards and
early returns; each later read or write is an action of its own; `req[r]` is what the
handler keeps in its local variables, with a program counter. Reads that follow each
other and guard one decision are one step. `/\ UNCHANGED` clauses list the rows a
step leaves alone.

*Transactions.* A Prisma transaction that only writes is one step. One that reads and
then writes is a read step and a commit step, because READ COMMITTED lets other
commits in between.

*Failures.* A query that fails or a process that restarts drops what the handler
remembered and keeps what it wrote (`FailRequest`, `FailCleaner`, `Crash`,
`LoseOutcome`). Their number is bounded by `MaxFailures` and `MaxFaults`.

*Data.* Ids are model values; coordinates, notes, events, audit rows, e-mails and
realtime messages are left out: they are written after the decision and no handler
reads them back. Nearest-unit ranking is therefore "any available unit".

## 4. Fleet response

`FleetDispatch.tla` has the rows (`trip`, `inc`, `closer`, `status`, `unitOf`,
`incOf`, `wanted`, `stamped`, `unit`), the requests and the cleaners.

| Actions | Code |
|---|---|
| `BeginRaise`, `Raise` | `incident.service.js` triggerSos, ingestSafetyAlert |
| `BeginIncident`, `MoveIncident` | acknowledge, startResponse, resolve, dismiss |
| `RegisterUnit`, `BeginSetUnitStatus`, `SetUnitStatus` | createUnit, register, provision, setUnitStatus |
| `BeginRequest`, `BeginCreate`, `CheckUnit`, `Insert`, `Hold` | `dispatch.service.js` create, autoAssign |
| `BeginAssign`, `CheckUnit`, `Attach`, `Hold` | assign |
| `BeginCancel`, `BeginAdvance`, `Move`, `Release`, `CountRemaining`, `ResolveIncident` | transition, for staff and for the service account; resolveIncidentWhenResponsesComplete |
| `BeginEndTrip`, `FindIncidents`, `FindDispatches`, `Expire`, `EndTrip` | completeTrip, cancelTrip, the job's processExpired, with expireSafetyState |
| `BeginReconcile` | the job's processEndedSafetyState |

`closer` is who wrote the incident's resolution note and `stamped` is which timestamp
columns are set; both are columns the code writes.

`Overlap` chooses between two questions. TRUE is the code as it is: handlers overlap
freely. FALSE starts a handler only when no other is in flight: what the business
rules achieve by themselves. The gap between the two is the interesting part, because
the documents state the rules without qualification.

`ResponseBoard.tla` is the abstract promise: a dispatch is absent, waiting,
responding or closed; a unit serves at most one; closing gives the unit back in the
same step. `BoardSpec` is the refinement, through `Phase` and `Serving`.

| Run | Question | Instance |
|---|---|---|
| `fleet_overlap` | Under overlap: no holes in a timeline (`NoStageSkipped`), the unit has the requested type (`RespondingHasUnit`), a handler's memory still holds (`HandlersRemember`), only a completed response resolves an incident (`FleetResolutionEarned`), `TypeOK` | 1 incident, 1 dispatch, 2 units of different types, 2 requests and the job |
| `fleet_serial` | One handler at a time: `BusyIffServing`, `TripEndStandsDown`, refinement of `ResponseBoard` | 2 incidents, 2 dispatches, 2 units, a request, a trip end, the job |
| `fleet_cleanup` | Liveness: `EndedIncidentsClose`, with overlap and a failure | 1 incident, dispatch, unit, request and trip end, the job |
| `fleet_double_booking` | `UnitServesOne`, under overlap | violated, see section 10 |
| `fleet_orphans` | `EndedTripStandsDown`, one handler at a time | violated, see section 10 |

*Why the bounds are enough.* The races are between two handlers, and each handler
touches one dispatch, one unit and one incident; a third request would repeat a role.
Two dispatches are needed only where a property relates dispatches of one incident
(the resolution count, the clean-up's sets) and where a unit could serve two, which
is what `fleet_serial` and the violation runs have. Two types are needed only for a
type mismatch, and one unit of each type shows it. The properties of `fleet_overlap`
and `fleet_serial` are proved for every size (section 9), so that these runs check the
theorems' statements rather than being the evidence for them.

*AdminMoves.* An administrator may set a unit's status by hand. `fleet_overlap` lets
him free units that serve, the hardest case for assignment. `fleet_serial` lets him
park idle units only: freeing a serving unit by hand contradicts `BusyIffServing`
directly, and the code permits it on purpose.

*Fairness.* Only the job's steps are fair (`JobFairness`): cron starts it every 15
seconds, a tick that throws is caught per trip and the next tick tries again. No
client request is assumed to come or to finish.

## 5. Credential anchoring

`TrustAnchor.tla` is the contract's digital ids and snapshots: each function with its
`require`s as guards. `CredentialAnchor.tla` extends it with one credential row, its
jobs, the workers and the gateway.

| Actions | Code |
|---|---|
| `BeginIssue`, `WriteIssue`, `AddIssue`, `AddSnapshot` | ensureIndividual, createGroupCredential |
| `BeginMembershipSnapshot`, `AddSnapshot` | appendGroupMembershipSnapshot |
| `BeginExtend`, `ListCredentials`, `WriteExtend`, `AddExtend` | trip extension, `credential.service.js` extendTrip |
| `BeginRevoke`, `WriteRevoke`, `AddRevoke` | revokeTrip, revokeIndividual |
| `BeginRetry`, `Requeue`, `RequeueSnapshots` | retryFailedAnchor and retryFailed; the integrity job's retryFailedSnapshots |
| `Pick`, `Claim`, `Confirm`, `Fail`, `LoseOutcome` | processNext |
| `CountSnapshots`, `Mine`, `Revert`, `RefuseWindow`, `Verify`, `Unreachable` | the gateway's routes and the contract |
| `Crash` | a restart of the backend |

The gateway's handler (`call[c]`) has a life of its own: a worker that times out after
60 seconds leaves, the handler goes on, and its transaction may be mined while the
retry is on its way. Retries compare with what `verifyId` shows (`DoneBefore`).

Time is not a variable. Validity ends are numbers in time order; a job that was tried
is passed over until its backoff is over, so a later job may overtake it (`Due`); a
credential may have expired whenever that is asked; an issue may be refused because
its window is over (`RefuseWindow`). Each of these lets the model do more than the
code, so what holds in the model holds in the code.

| Run | Question | Instance |
|---|---|---|
| `anchor_group` | a CONFIRMED job is on the chain (`ConfirmedIsAnchored`), snapshots are the queued ones in order and never twice (`SnapshotsInOrder`), the chain refuses no credential the database honours (`RevokedHereFirst`), a credential shown CONFIRMED was issued (`ConfirmedIsIssued`), the ledger's history only grows (`HistoryPreserved`), `TypeOK` | one group credential, 4 jobs, 1 request, 1 worker, 2 gateway calls, 2 attempts, 1 fault |
| `anchor_individual` | the same for a credential that is issued again, and liveness (`JobsSettle`) | 2 hashes, 2 jobs, as above |
| `anchor_snapshot_status` | `SnapshotsKeepStatus` | violated, see section 10 |
| `anchor_lost_snapshot` | `SnapshotsKept`, two requests, no faults | violated, see section 10 |

*Why the bounds are enough.* Four jobs hold an issue, a first snapshot and two more
operations, so each pair of operations meets in each order; two attempts give a retry;
one fault gives a timeout with its late transaction, or a restart; two calls let a late
one race its retry. `MaxAttempts` is 5 by default in the code and 2 here.

*Fairness.* `WorkerFairness`: the worker's timer runs while the backend is up, a call
ends within its limit, and a picked job is claimed. Strong fairness on `Pick` says
that a job whose backoff is over again and again is picked at last; with an upper
limit of 60 seconds on the backoff and the oldest job first, it is.

`JobsSettle` has three outcomes: CONFIRMED, FAILED, and `Abandoned`, a job left
PROCESSING by a restart or by a failure transaction that failed. The last is not
wanted and nothing in the code repairs it; the property says that it is the only
other outcome.

`ConfirmedIsIssued` is checked for group credentials, which are issued once. For
individual ones it does not hold: a credential that was revoked and issued again has
jobs of its old hash in the queue, and the job's success writes the status of the row,
whatever hash the row has by then (`blockchain.queue.js:96`).

## 6. Trips and groups

`TripGroups.tla` holds the rows of a trip (`trip`, `owner`, `due`, `granted`), of its
group (`group`, `locked`, `members`, `invited`, `request`) and the credentials (`cred`),
the requests and the lifecycle job.

| Actions | Code |
|---|---|
| `BeginCreateTrip`, `CreateTrip`, `BeginEnsure`, `EnsureIndividual` | `trip.service.js` createTrip, and `credential.service.js` ensureIndividual |
| `BeginConsent`, `Consent` | updateConsent: grant and withdraw |
| `BeginCreateGroup`, `CreateGroup`, `IssueGroup`, `BeginInvite`, `BeginUninvite`, `Invite` | `group.service.js` create, invite, revokeInvitation |
| `BeginJoin`, `Join`, `BeginAsk`, `Ask`, `BeginApprove`, `Approve`, `BeginReject`, `Reject` | joinGroup by code; join requests by QR |
| `BeginLock`, `RejectAll`, `Lock`, `BeginLeave`, `Leave`, `RevokeOne` | lockGroup, leaveGroup |
| `BeginStart`, `EnsureIndividual`, `StartTrip` | startTrip |
| `BeginExtend`, `Extend`, `ExtendAll` | extendTrip |
| `BeginEnd`, `EndTrip`, `RevokeAll`, `BeginJob`, `JobComplete`, `JobRevoke` | completeTrip, cancelTrip, the job's processExpired |
| `Tick`, `FailRequest`, `FailJob`, `Restart` | plannedEndAt passes; queries fail, the process restarts |

Here, and in the next two modules, `overlap` is a variable that is chosen in Init and
never changes, so that one run explores the code as it is and the code with one handler
at a time; properties of the latter say `Serial => ...`.

`TripRules.tla` is the abstract promise: a party is gathered while its trip is planned,
sealed, taken on the trip, and nobody is on two open trips. `KeepsRules` is the
refinement, through `Phase` and `Party`. `strict` is `Serial`: under overlap the code
keeps none of these rules, as nothing but a read guards them. Two createTrip calls plan
two trips, a trip that was cancelled while startTrip asked for the credential becomes
ACTIVE again, and a tourist joins, or asks to join, a group locked in between.

What does survive overlap is checked and proved under it: a group trip under way has a
locked group, and the leader never leaves it. The rest is proved for one handler at a time
(section 9).

| Run | Question | Instance |
|---|---|---|
| `trip_groups` | under overlap: `StartedGroupIsLocked`, `GroupKeepsLeader`, liveness `ExpiredTripsEnd`; one handler at a time: `OneOpenTrip`, `NothingOutlivesTrip`, `CredentialFollowsMembership`, `LockAnswersEverybody`, the refinement `KeepsRules`; `TypeOK` | a group trip and a trip alone, 2 tourists, 2 requests, the job, 1 failure |

*Why the bounds are enough.* The smallest group that may start has two members, and the
second trip is there for the rule that relates trips. `RacingTrips` leaves only the group
trip where handlers overlap, whose hazards are all within one group; `Failing` allows
failures where handlers run one at a time, and the properties named `Calm` exclude them.

*Fairness.* `JobFairness`: cron starts a tick every 15 seconds and what it started goes
on. `ExpiredTripsEnd` is stated under overlap because the job does not wait for requests;
serving one at a time, they could keep it waiting for ever.

Left out: the reminders of a trip that ends soon (they change a flag nobody else reads),
and the clean-up of safety state at the end, which `FleetDispatch` and `SafetyChecks`
model. Until `ExtendAll` a credential is said to expire with the trip it was issued for.

## 7. Safety checks

`SafetyChecks.tla` follows one tourist under one of three checks (`kind`): a group member
whose signal is lost (the leader is asked, by a case), a solo tourist (asked himself, by
an alert), a member outside the group's radius (asked at the second evaluation).

| Actions | Code |
|---|---|
| `BeginSweep`, `LookAtCase`, `OpenCase`, `AskAgain`, `ResolveCase`, `ResolveAlerts` | `signal-loss.service.js` sweepGroupTrips |
| `Located`, `LookAtAlert`, `Prompt`, `Ask`, `CheckLinked`, `Clear`, `Tell` | sweepSoloTrips, sweepGroupSeparation |
| `FindAlert`, `CreateAlert`, `FindIncident`, `CreateIncident`, `Escalate` | escalateCase and the other two escalations, ingestSafetyAlert |
| `BeginRespond`, `ClearAlerts`, `FalseAlarm`, `Confirm` | respond, by the leader |
| `BeginAnswer`, `Safe`, `Help` | respondSolo, respondSeparation |
| `BeginAlert`, `ResolveAlert`, `Acknowledge` | the tourist's own alert routes |
| `BeginStaff`, `Staff`; `BeginEvaluate`, `Evaluate` | staff on the incident; the monitor's tracking gap |
| `BeginSync`, `SyncTrip`, `SyncIncidents`, `Sync` | syncSafetyAlertIncidents, run by each listing of the queue |
| `BeginEnd`, `BeginReconcile`, `Expire`, `EndTrip` | expireSafetyState, the end of the trip, processEndedSafetyState |
| `Move`, `Deadline`, `Recheck`, `Fail` | signal and position; responseDeadlineAt and nextReminderAt pass; a query fails, the process restarts |

`grounds` is a history variable: the checks whose deadline has passed once, or whose
answer was danger. ACKNOWLEDGED counts as OPEN (alert) and so does IN_PROGRESS (incident),
as every reader in question treats them alike. `place` says what a sweep takes the tourist
for. Of a separated member it has a third value, `UNKNOWN`: sweepGroupSeparation passes over
a member without a location of the last two minutes, and over a trip with fewer than two
located members, so that such a sweep writes nothing (`Located`). The other two sweeps call
a tourist without a recent location lost.

| Run | Question | Instance |
|---|---|---|
| `safety_checks` | under overlap: an escalated case has its incident (`EscalatedHasIncident`), no check reports anybody before its deadline or a confirmation of danger (`EscalationEarned`), and every check concludes, of a separated member as long as he is located (`EveryCheckConcludes`); one handler at a time: one alarm for one loss (`OneAlarmPerLoss`), a FALSE_ALARM leaves no alert of its case open, also when an escalation had stopped half-way, and a return none either unless the sweep was cut short (`AnsweredIsSettled`), the queue shows what was escalated (`DeskSeesEscalations`); `TypeOK` | 2 losses (1 under overlap), 2 alerts, the monitor's alert, one request, the queue, the sweep, the end of the trip |

*Why the bounds are enough.* Four actors of different kinds may be in flight at once; a
second request would repeat a role. `Crowded` names the checks under which a request and
the listing overlap each other (the member's check has the longest handlers and overlaps
each with the sweep and the trip's end). `Monitored` and `Failing` say where the monitor
and failures take part, and never both: their product with full overlap is too large to
explore. A second loss is needed for the alert of an earlier one, and only one handler at
a time asks about that.

*Fairness.* `SweepFairness`: cron starts the sweep and the lifecycle job, what they
started goes on, deadlines pass. Nobody has to answer and no trip has to end.
`EveryCheckConcludes` says of the second and third check only what happens to a tourist who
is known to be lost. One who is back is excluded: the sweep then resolves the alert, or
leaves it when an incident exists. So is a separated member who is not located:
every sweep passes over him, and nothing obliges a device to report (section 11).

## 8. Location reports

`LocationWatch.tla`: one tourist on an active trip, one risk zone, one check-in. A point is
a capture time and whether it lies in the zone.

| Actions | Code |
|---|---|
| `BeginPing`, `StorePoint` | `tracking.service.js` submitPing |
| `BeginList`, `FindDue`, `Miss` | `safety.service.js` processDueCheckIns, for a point and for the lists |
| `FindAlert`, `CreateAlert`, `FindIncident`, `CreateIncident` | ensureAlert, ingestSafetyAlert |
| `ReadZones`, `FillCache`, `Compare`, `Crossing`, `ResolveOpen` | evaluateLocation over `cacheGetOrSet` |
| `BeginSchedule`, `Schedule`, `BeginComplete`, `Complete`, `BeginResolve`, `ResolveAlert` | scheduleCheckIn, completeCheckIn, the tourist's resolve |
| `BeginSetActive`, `SetActive`, `Invalidate`, `CacheExpires` | risk-zone setActive, cache invalidation and lifetime |
| `Tick`, `FallDue`, `Fail` | time, and failures |

A point that is stale, inaccurate or implausible is refused before anything is written and
so never begins. Two misses of the cache share one query (`ReadZones` takes what another
handler is about to store), as `cacheGetOrSet` keeps the pending promise.

| Run | Question | Instance |
|---|---|---|
| `location_watch` | under overlap: missed check-ins and entries are reported (`AlarmsAreReported`); one handler at a time: `NewestIsLatest`, `CacheIsFresh`, and whenever a report has been judged while the zone is on, the last event says where the tourist is, each recorded entry has an alert of its own and outside none is open (`AlarmsFollowReports`); `TypeOK` | 3 points (2 under overlap), 4 alerts, 2 requests, 1 failure |

*Why the bounds are enough.* Three points are an entry, an exit and a second entry in any
order of arrival; two requests are two reports, a report and a completion, a report and a
switch of the zone. Four alerts are enough:
three points enter at most twice, the check-in is missed once, and two handlers that race may
each insert a row.
`AlarmsFollowReports` says nothing of the reports that come while the zone is off: the code
passes over the zone then, and an alert from before stays open until a report is judged
outside while the zone is on (section 11).
No liveness is stated: overdue check-ins are looked for only when a request arrives
(section 11), so the code justifies no fairness.

## 9. Proofs

Every invariant, action property and refinement that a passing run checks is a theorem.
Where a property holds under any overlap, its theorem says so; where the code keeps it only
if handlers run one after the other, the proof is in a module of its own, `...SerialProofs`,
which extends the first one: it needs the same facts about the rows, and stronger ones about
who is in flight. All of these follow one scheme:

1. `Alone`: at most one handler is in flight, so that the others rest (`Others`);
2. `Knows`: what this one has read still holds of the rows it will write. Under overlap
   only what no step undoes could be carried over an await (`Grow`, `Grows`, `Keep`);
3. the property holds of every row but the one the handler has still to mend, and once
   nobody is in flight there is none.

### Fleet

`FleetDispatchProofs.tla`, from `FleetAssumption` alone (every incident has a trip,
every unit a type, and `None` is no id): the results hold for any number of rows and
requests, under either `Overlap`, with any `AdminMoves` and any number of failures.

| Theorem | What it establishes |
|---|---|
| `Invariance` | `Spec => []IInv` |
| `TypeCorrect` | `TypeOK` |
| `TimelineWhole` | `NoStageSkipped`: no stage of a dispatch is stamped without the ones before it |
| `ResponseHasUnit` | `RespondingHasUnit`: a dispatch under way has a unit of the type it asked for |
| `MemoryHolds` | `HandlersRemember`: what a handler keeps over its awaits still holds of the row it will write |
| `ResolutionEarned` | `FleetResolutionEarned`: an incident the fleet resolved has a dispatch with all stages stamped |

*Argument.* `NoStageSkipped` is not inductive as it stands. A handler about to write
EN_ROUTE decided so when the row was ASSIGNED; by the time it writes, the row may be
COMPLETED or CANCELLED by another handler, and nothing in the row's own state says that
the stages before EN_ROUTE are stamped. The inductive invariant `IInv` therefore adds
`HandlersRemember`: for each program counter, what the local variables still promise
about the row (it exists, it belongs to the incident remembered, the stages before the one
about to be written are stamped). It is kept because rows only *grow* (`Grow`): a stage
once stamped stays stamped, a row never changes its incident or type, and never loses
its unit. `OthersRemember` uses that for the handlers that do not move, `HandlerStep` and
`MemoryStep` reduce each action to the row it writes, and there is one lemma for each
action. The shared row that two handlers may insert cannot arise: an id is chosen by one
handler before it inserts (`BeginCreate`), and `Remembers` says nobody else has it.

`FleetSerialProofs.tla` adds what holds under `OneAtATime`: no overlap, no failures, and an
administrator who leaves alone the units that serve. The instance of `fleet_serial`
satisfies it; the run `fleet_double_booking` shows that the first part is needed.

| Theorem | What it establishes |
|---|---|
| `BusyAreServing` | `BusyIffServing`: a unit is DISPATCHED exactly while an open dispatch holds it |
| `TripEndIsThorough` | `TripEndStandsDown`: an incident its trip's end dismissed has no open dispatch |
| `RowsImplementBoard` | `BoardSpec`: `FleetDispatch` implements `ResponseBoard` |

*Argument.* A dispatch and its unit are written in two steps, so that neither property is
true in between: `Busy` exempts the unit that the handler in flight has attached or is about
to release (`Turning`). `Knows` carries what the first step relied on to the second: the unit
read as AVAILABLE is still free when it is held, and no dispatch holds the unit that is
released. For the refinement each action of the code is one action of the board (the row
that changes the phase) or leaves `Phase` and `Serving` alone. The proof found a mistake in
the mapping: two arms of `Phase` both matched REQUESTED, which TLC resolves in the order
they are written and the semantics of CASE does not.

### Credentials

`CredentialAnchorProofs.tla`, from `ExpiriesAssumption` (validity ends are positive) and
`AnchorAssumption` (jobs are finitely many numbers, and their own payloads; `None` is no
id): any number of jobs, workers, requests, calls, attempts and faults.

| Theorem | What it establishes |
|---|---|
| `Invariance` | `Spec => []IInv` |
| `TypeCorrect` | `TypeOK` |
| `DoneMeansAnchored` | `ConfirmedIsAnchored`: a job marked CONFIRMED has its effect on the chain |
| `SnapshotsNumbered` | `SnapshotsInOrder`: the k-th snapshot on the chain was queued as number k |
| `DatabaseRevokesFirst` | `RevokedHereFirst`: the chain refuses no credential the database honours |
| `HistoryStays` | `HistoryPreserved`: ids and snapshots are only ever added to |
| `GroupConfirmedIsIssued` | `ConfirmedIsIssued`, when `Kind = "GROUP"` |

*Argument.* Two things only grow: a job keeps its operation, hash and number once queued
(`Keep`), and every transaction of the contract adds to the ledger (`HistoryGrows`, in
`MineGrows`). So what a gateway call found done stays done (`AnchoredStays`) until its
worker stores the answer, however late. `IInv` says who holds what in between:

- `WorkersSane`: a waiting worker has a call of its own, for its job; `CallsSane`: a call
  answered "ok" is `Anchored`. Without them `ConfirmedIsAnchored` is not inductive, as
  `Confirm` looks at the answer and not at the chain.
- `LedgerSane` and `JobsSane`: an absent id ends at 0 and a queued issue asks for an end
  after 0, which is why "the id has this end already" (`DoneBefore`) means that the id exists.
- `FreshWrite` and `RevokesFollow`: the chain revokes what some REVOKE job names, a REVOKE
  job for the row's present hash was queued after `revokedAt` was set, and a re-issue, which
  clears it, brings a hash that no job has.
- `RowFirst`, `RequestsSane`: nothing is queued before the row exists.

`GroupConfirmedIsIssued` adds `OneHash`, that a group's jobs all have the row's only hash;
for an individual credential `OneHash` is false, and so is the property (section 5).

There is one lemma for each kind of step (`MemoryStep`, `RowStep`, `EnqueueStep`,
`QueueStep`, `GatewayMoves`), and one for each action that cites it.

### Trips and groups

`TripGroupsProofs.tla`, from `TripAssumption`: any number of trips, tourists, requests and
failures, with or without overlap.

| Theorem | What it establishes |
|---|---|
| `Invariance` | `Spec => []IInv` |
| `TypeCorrect` | `TypeOK` |
| `StartedIsLocked` | `StartedGroupIsLocked`: a group trip under way has a group, and it is locked |
| `LeaderStays` | `GroupKeepsLeader`: the tourist who planned the trip is a member of its group |

*Argument.* As for the fleet, a request that will write ACTIVE read the lock some awaits
ago, so neither property is inductive. `IInv` adds `Good`, what a handler may still rely
on when it writes, and it stays true because rows only grow (`Grows`): a lock is never
taken back, a group never disappears, a trip keeps its owner, and a member who leaves is
not the owner. Each row is written by id for one trip only, so there is one lemma for the
handlers that do not move and one for each action that does.

`TripSerialProofs.tla` adds what holds with one handler at a time. `overlap` is a variable, so
that nothing is assumed of the constants: the properties say `Serial => ...`.

| Theorem | What it establishes |
|---|---|
| `NobodyOnTwoTrips` | `OneOpenTrip`: no tourist is on two open trips, also after failures |
| `NobodyWaits` | `LockAnswersEverybody`: a locked group has no unanswered request, also after failures |
| `TripIsOver` | `NothingOutlivesTrip`: with a trip end its consent, its group and its credentials |
| `CredentialsOfMembers` | `CredentialFollowsMembership`: who is on an open trip has its credential, nobody else |
| `RowsKeepRules` | `KeepsRules`: `TripGroups` implements `TripRules`, also after failures |

*Argument.* `SerialInv` is in two layers. `RulesInv` is about trips and groups: a tourist was
on no open trip when the handler that adds him began (`MayJoin`), and a group that is being
locked has no PENDING request left. Each of these rows is written in one step, so that the
rules survive a handler that is cut short. Credentials are written last and by another step:
`CredInv` exempts those that the handler in flight still has to write (`Mends`, `Revokes`),
and holds only while no handler was cut short.

### Safety checks

`SafetyChecksProofs.tla`, from `CheckAssumption`: any of the three checks, any number of
cases, alerts, overlapping requests and failures; the monitor and failures may meet.

| Theorem | What it establishes |
|---|---|
| `Invariance` | `Spec => []IInv` |
| `TypeCorrect` | `TypeOK` |
| `EscalatedIsReported` | `EscalatedHasIncident`: a case marked ESCALATED has an alert with an incident |
| `EscalationIsEarned` | `EscalationEarned`: no incident of a check without a deadline passed or danger confirmed |

*Argument.* Whether an incident is earned is decided when the sweep reads the case, or the
queue the alert, and the incident is written some awaits later; the case may have been
answered since. `Good` says what a handler still knows at each program counter, and speaks
only of what no step undoes: `grounds` once given stay, rows once inserted stay and keep
their case (`Grows`). `Carry` keeps it through the steps of all others. A step that writes
must add only what is earned (`Earns`); from it `RowsStay` gives the rows' part, and
`HandlerStep` is left with the handler that moved. `RowsOK` adds the links the properties
need: an alert of a case, and an alert marked as told, have grounds.

The theorems do not depend on the bounds `Crowded`, `Monitored` and `Failing` of the run.

`SafetySerialProofs.tla`, for one handler at a time, again assumes nothing of the constants:

| Theorem | What it establishes |
|---|---|
| `OneAlarmRaised` | `OneAlarmPerLoss`: a case has one alert, also after failures |
| `AnswersSettle` | `AnsweredIsSettled`: a FALSE_ALARM leaves no alert of its case open, also after failures; without any, an alert stays open only if its case is escalated |
| `DeskIsUpToDate` | `DeskSeesEscalations`: a listing that ends leaves the incidents that alerts and trip call for, also after failures |

*Argument.* `Knows` says that the case had no alert when the handler looked and has none when
it creates one (`OneAlarmPerLoss`); that the alert has no incident, so that the unique key
never breaks; and, for the queue, exactly which incidents are missing and which must be
closed, read in three steps and written in as many as there are rows. The action property
then rests on `SyncEnds`: the listing can only end at the step that finds nothing left to
write. An escalation and a resolution each leave an open alert without an escalated case on
their way: `Settled` exempts the case of the handler in flight (`Settles`). A handler that is
cut short there leaves it behind, and a sweep that was closing a case leaves it for good,
which is why this half of `AnsweredIsSettled` excludes failures. Its other half does not: the
answer resolves the alerts before it writes FALSE_ALARM (`Cleared`), and nobody
raises an alert of a case that is answered (`Waits`).

### Location reports

`LocationWatchProofs.tla`, from `WatchAssumption`: any number of requests, points and alerts.

| Theorem | What it establishes |
|---|---|
| `Inductive` | `Spec => []IInv` |
| `TypeCorrect` | `TypeOK` |
| `StaffAreTold` | `AlarmsAreReported`, under overlap |
| `NoWayBack` | `NewestIsLatest`, one handler at a time |
| `SwitchIsSeen` | `CacheIsFresh`, one handler at a time |
| `AlarmsAreKept` | `AlarmsFollowReports`, one handler at a time: what holds when a report has been judged while the zone is on |

*Argument.* MISSED and ENTER are written before the alert, and the alert before its incident.
`Reports` says that what is not reported yet is in the hands of some handler, whichever it
is; handlers that overlap may each raise an alert of one event, and none is lost. That each
entry has an alert of its *own* is a count: `Counted` compares the ENTER events with the
alerts of the zone, plus the one being written. `Newest` and `Fresh` do the same for the
latest position and for a cache entry older than the switch that is about to remove it.
`AlarmsAreKept` is about the step that ends a report. `Judging` carries what its handler knows
until then (`Ready`): it compares with the zone as it is, the incident it is about to create
is not there yet, and once the crossing is recorded the last event says where the point is.
The counts and the open alerts are then those of `Counted`, with nobody left in flight.

### Model-checked only

What only TLC checks: liveness (`EndedIncidentsClose`, `JobsSettle`, `ExpiredTripsEnd`,
`EveryCheckConcludes`), which rests on fairness and ENABLED and is beyond the prover used;
and that the four properties of the violation runs fail.

## 10. What the violation runs show

*One unit, two dispatches* (`fleet_double_booking`). Two assignments read the unit as
AVAILABLE, both insert their dispatch, both mark the unit DISPATCHED. The document
says that the unit "immediately becomes `DISPATCHED`"
(`server/documentation/EMERGENCY-SERVICE-DISPATCH.md:53`). The consequences reach
further: the first dispatch that is completed frees the unit while it serves the other.

*A dispatch outlives its trip* (`fleet_orphans`). Staff resolve an incident while a
dispatch of it is open; the trip ends; expireSafetyState looks for dispatches of open
incidents and finds none. The dispatch keeps its stage and its unit, and the job does
not look there either (`server/README.md:408` promises the opposite). This needs no overlap.

*A snapshot in place of an anchor* (`anchor_snapshot_status`). retryFailed takes the
last FAILED job of any operation. When the issue failed and then its snapshot failed,
looking at the credential requeues the snapshot, and sets the credential to PENDING;
no snapshot ever sets it to anything else (`blockchain/docs/workflow.md:68`).

*A snapshot that is nowhere* (`anchor_lost_snapshot`). Two snapshots are counted at the
same moment, both get the same number, the gateway answers the second as done before,
and its job is CONFIRMED (`server/documentation/FINAL-QA-CHECKLIST.md:106`).

## 11. Seen while modelling

None of these is the subject of a run; each is a behaviour of the code that the models
contain and the properties are worded around.

- An update by id alone lets a late
`assign` or `transition` reopen a dispatch that was completed or cancelled in between,
although `assign` refuses one that it *reads* as closed (`dispatch.service.js:64`); the
timeline stays whole all the same, which is what `NoStageSkipped` says.
- A locked group whose only other member leaves can never start: start asks for two
  members and nothing unlocks.
- The lifecycle job completes ACTIVE trips only; a PLANNED trip past its end stays
  planned, and keeps its tourist from planning another, until he cancels it.
- A late acknowledge, written by id, reopens a safety alert that was resolved meanwhile.
  An escalation that is tried again after a failure may re-use an alert that is resolved
  by then; its incident is closed by the next listing of the queue. The same happens to
  a "help" answered on an alert that is resolved already
  (`server/documentation/FINAL-QA-CHECKLIST.md:95` asks that such an answer creates an incident).
- The monitor raises an alert about a tracking gap at once, and the listing of the queue
  turns it into an incident inside the window the leader has to answer (`server/README.md:409`).
  `EscalationEarned` is therefore about the checks' own alerts.
- After staff close the incident of a solo or separation check its alert stays OPEN and
  escalated, so a second loss is not prompted.
- A sweep that closes the case of a member who is back, and fails before it resolves his
  alerts, leaves them open: the case is not open any more, and no later sweep looks at them.
- A separated member who was asked and whose device then falls silent is left out by every
  later sweepGroupSeparation before it looks at his alert (`signal-loss.service.js:186-191`):
  the deadline is never compared, and this check neither escalates nor clears, although
  `server/documentation/FINAL-QA-CHECKLIST.md:96` says that no response for 5 minutes escalates.
  The listing of the queue does not help, as the alert is not marked as escalated. After the
  tracking gap a silent member other than the leader becomes a lost one, and that check asks
  the leader anew, with a window of its own. `EveryCheckConcludes` is worded around this.
- A zone that is off is passed over, and the last event outlives the switch
  (`safety.service.js:206`). A tourist enters a zone and resolves the alert; staff switch the
  zone off, he leaves, they switch it on again and he comes back: there was no EXIT, he
  counts as having been inside all along, and nothing is raised, although
  `server/documentation/EMERGENCY-SERVICE-DISPATCH.md:139` says that entering a danger zone
  is notified at once. Had he not resolved the alert, it would have stayed open while he was
  outside. `AlarmsFollowReports` is worded around this.
- A case answered FALSE_ALARM is asked again after FALSE_ALARM_RECHECK_MS, two hours, where
  `server/README.md:381` and `server/documentation/EMERGENCY-SERVICE-DISPATCH.md:141` speak of
  reminders every five minutes.
- `jobs/missedCheckIn.job.js` is an empty file, although
  `server/documentation/SERVER-FILE-GUIDE.md:459` says that it "Finds overdue tourist
  check-ins"; a tourist who sends nothing is not found to have missed a check-in until
  somebody's list is read.
- Under overlap the latest location can go back (an upsert without a comparison), a
  completed check-in can be overwritten as MISSED, and zones read before a switch can be
  cached after its invalidation, until the entry expires.
- A failure after MISSED or the ENTER event was written, and before its alert, loses the
  alarm: the next evaluation finds nothing to do.

## 12. Limits

- Components marked `not_modelled` in `PROJECT.json`, with the reasons there and in section 13.
- One credential row at a time: extendTrip and revokeTrip walk over the trip's
  credentials one by one, and the rows share nothing but the queue's order.
- In `FleetDispatch` a trip is ACTIVE or ENDED; incidents exist only on trips that
  were started. The alerts and signal-loss cases that the clean-up also closes are in
  `SafetyChecks`, for one trip.
- In `SafetyChecks` and `LocationWatch` one tourist is followed: the handlers read and write
  the rows of one tourist at a time. The group boundary check and the stale-location
  alert of getRisk go through the same ensureAlert and are left out.
- The sweeps read at most 100 active trips of a type, without an order
  (`signal-loss.repository.js:21` and `:31`); here the trip that is followed is always among them.
- The reader of the job's work list (`findEndedTripsWithActiveSafetyState`, 100 rows)
  is modelled without its limit; see the hazard at `trip.repository.js:319`.
- Units, dispatches and credentials are never deleted by the code and not here either.

## 13. Not modelled

Most lines of the repository hold no state that two actors contend for, and a model of
them would restate them:

- the React client (about half of all lines) renders what the API returns and keeps
  view state only; the files under `blockchain/typechain-types` are generated;
- the repositories of dashboards, analytics, audit and administration are queries, and
  account management writes one row at a time under unique keys;
- validators, mappers, serializers and e-mail templates are formatting;
- the AI service, destination search and chatbot call external services and keep nothing.

Three parts do have a protocol and no model yet: responder assignment with its capacity and
the de-duplication of SOS requests, notification delivery, and one-time passwords and
sessions. Their hazards are in `PROJECT.json`. No module of the safety path calls the
delivery processor.
