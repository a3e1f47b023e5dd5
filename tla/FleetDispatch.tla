---------------------------- MODULE FleetDispatch ----------------------------
(***************************************************************************)
(* Emergency response of the KAVACH backend: incidents, the dispatches     *)
(* that answer them, the fleet units they hold, and the clean-up that runs *)
(* when a trip ends.                                                       *)
(*                                                                         *)
(* PostgreSQL rows are the shared state.  A request handler is JavaScript  *)
(* that awaits one query after another, so every other handler can run     *)
(* between two of its queries.  Each handler is split at its awaits: a     *)
(* Begin action holds its first reads and its guards, the actions that     *)
(* follow hold one later read or write each, and req[r] is what the        *)
(* handler remembers in between.  Consecutive reads of one handler that    *)
(* guard the same decision are one step.  PostgreSQL runs at its default   *)
(* READ COMMITTED level: a transaction that reads and then writes is a     *)
(* read step followed by a commit step.                                    *)
(***************************************************************************)
EXTENDS Naturals

CONSTANTS
    Trips, Incidents, Units, Dispatches,    \* rows of the database
    Types,                                  \* POLICE, FIRE, AMBULANCE
    TripOf,         \* the trip an incident belongs to
    TypeOf,         \* the type of a unit
    Requests,       \* HTTP requests the server may be serving at a time
    Enders,         \* requests that complete or cancel a trip
    Job,            \* tripLifecycle.job.js; its running flag makes it one process
    AdminMoves,     \* the <<from, to>> unit status changes the administrator makes
    Overlap,        \* FALSE: a handler starts only when no other is in flight
    MaxFailures,    \* bound on failed queries and restarts
    None

IncidentOpen == {"OPEN", "ACKNOWLEDGED", "IN_PROGRESS"}
IncidentStatus == IncidentOpen \cup {"NONE", "RESOLVED", "DISMISSED"}
Stages == {"ASSIGNED", "DISPATCHED", "EN_ROUTE", "ON_SCENE", "COMPLETED"}
Live == (Stages \ {"COMPLETED"}) \cup {"REQUESTED"}
DispatchStatus == Stages \cup {"NONE", "REQUESTED", "CANCELLED"}
UnitStatus == {"AVAILABLE", "DISPATCHED", "OUT_OF_SERVICE"}

\* The one stage a dispatch may advance to; statuses without a successor map to NONE.
NEXT == [s \in DispatchStatus |->
           CASE s = "ASSIGNED"   -> "DISPATCHED"
             [] s = "DISPATCHED" -> "EN_ROUTE"
             [] s = "EN_ROUTE"   -> "ON_SCENE"
             [] s = "ON_SCENE"   -> "COMPLETED"
             [] OTHER            -> "NONE"]

\* The order in which the stages' timestamp columns are filled.
Timeline == [s \in Stages |->
               CASE s = "ASSIGNED" -> 1
                 [] s = "DISPATCHED" -> 2
                 [] s = "EN_ROUTE" -> 3
                 [] s = "ON_SCENE" -> 4
                 [] s = "COMPLETED" -> 5]

Cleaners == Enders \cup {Job}

ASSUME FleetAssumption ==
    /\ TripOf \in [Incidents -> Trips]
    /\ TypeOf \in [Units -> Types]
    /\ AdminMoves \subseteq UnitStatus \X UnitStatus
    /\ Overlap \in BOOLEAN
    /\ MaxFailures \in Nat
    /\ None \notin Incidents \cup Units \cup Dispatches \cup Trips \cup Types

VARIABLES
    trip,       \* [Trips -> {"ACTIVE", "ENDED"}]
    inc,        \* [Incidents -> status], NONE before the row exists
    closer,     \* [Incidents -> who wrote the resolution note]
    status,     \* [Dispatches -> status], NONE before the row exists
    unitOf,     \* [Dispatches -> the assigned unit or None]
    incOf,      \* [Dispatches -> the incident it answers]
    wanted,     \* [Dispatches -> requestedUnitType]
    stamped,    \* [Dispatches -> the stages whose timestamp column is set]
    unit,       \* [Units -> status], NONE before the unit is registered
    req,        \* [Requests -> what the handler in flight remembers]
    cln,        \* [Cleaners -> the same for the trip-end clean-up]
    failures

rows == <<trip, inc, closer, status, unitOf, incOf, wanted, stamped, unit>>
vars == <<rows, req, cln, failures>>

Idle == [pc |-> "idle", d |-> None, i |-> None, u |-> None, ty |-> None, to |-> "NONE"]
Rest == [pc |-> "idle", t |-> None, incs |-> {}, dsps |-> {}, units |-> {}, end |-> FALSE]

Init ==
    /\ trip = [t \in Trips |-> "ACTIVE"]
    /\ inc = [i \in Incidents |-> "NONE"]
    /\ closer = [i \in Incidents |-> "NOBODY"]
    /\ status = [d \in Dispatches |-> "NONE"]
    /\ unitOf = [d \in Dispatches |-> None]
    /\ incOf = [d \in Dispatches |-> None]
    /\ wanted = [d \in Dispatches |-> None]
    /\ stamped = [d \in Dispatches |-> {}]
    /\ unit = [u \in Units |-> "NONE"]
    /\ req = [r \in Requests |-> Idle]
    /\ cln = [c \in Cleaners |-> Rest]
    /\ failures = 0

-----------------------------------------------------------------------------
(* Helpers *)

Quiet == /\ \A r \in Requests : req[r] = Idle
         /\ \A c \in Cleaners : cln[c] = Rest
CanStart == Overlap \/ Quiet

\* ensureIncidentDispatchable
Dispatchable(i) == inc[i] \in IncidentOpen /\ trip[TripOf[i]] = "ACTIVE"

\* Mutants of Assignable: the type, or the status, is not compared.
AnyTypeAssignable(u, type) == unit[u] = "AVAILABLE"
BusyAssignable(u, type) == TypeOf[u] = type

\* ensureAssignableUnit
Assignable(u, type) == unit[u] = "AVAILABLE" /\ TypeOf[u] = type

LiveFor(i) == {d \in Dispatches : status[d] \in Live /\ incOf[d] = i}

\* A row id that no row and no handler uses yet.
FreshDispatch(d) == status[d] = "NONE" /\ \A q \in Requests : req[q].d # d
FreshIncident(i) == inc[i] = "NONE" /\ \A q \in Requests : req[q].i # i

Start(r, next) == /\ req[r] = Idle
                  /\ CanStart
                  /\ req' = [req EXCEPT ![r] = next]
Continue(r, pc) == req' = [req EXCEPT ![r].pc = pc]
Finish(r) == req' = [req EXCEPT ![r] = Idle]
Reading == UNCHANGED <<rows, cln, failures>>

-----------------------------------------------------------------------------
(* Incidents: SOS and safety alerts raise them, staff move them on *)

\* triggerSos, and an alert raised during a location evaluation: the trip is
\* read as ACTIVE, then the incident row is inserted.
BeginRaise(r, i) ==
    /\ FreshIncident(i)
    /\ trip[TripOf[i]] = "ACTIVE"
    /\ Start(r, [Idle EXCEPT !.pc = "raise", !.i = i])
    /\ Reading

Raise(r) ==
    /\ req[r].pc = "raise"
    /\ inc' = [inc EXCEPT ![req[r].i] = "OPEN"]
    /\ Finish(r)
    /\ UNCHANGED <<trip, closer, status, unitOf, incOf, wanted, stamped, unit, cln, failures>>

\* The statuses acknowledge, startResponse, resolve and dismiss act on; from
\* any other they return early or throw.
StaffMayMove == [to \in IncidentStatus |->
    CASE to = "ACKNOWLEDGED" -> {"OPEN"}
      [] to = "IN_PROGRESS"  -> {"OPEN", "ACKNOWLEDGED"}
      [] to \in {"RESOLVED", "DISMISSED"} -> IncidentOpen
      [] OTHER -> {}]

BeginIncident(r, i, to) ==
    /\ inc[i] \in StaffMayMove[to]
    /\ Start(r, [Idle EXCEPT !.pc = "incident", !.i = i, !.to = to])
    /\ Reading

MoveIncident(r) ==
    LET i == req[r].i
        to == req[r].to
    IN  /\ req[r].pc = "incident"
        /\ inc' = [inc EXCEPT ![i] = to]
        /\ closer' = [closer EXCEPT ![i] = IF to \in IncidentOpen THEN @ ELSE "STAFF"]
        /\ Finish(r)
        /\ UNCHANGED <<trip, status, unitOf, incOf, wanted, stamped, unit, cln, failures>>

-----------------------------------------------------------------------------
(* The fleet's inventory *)

\* createUnit, register and provision insert an AVAILABLE unit.
RegisterUnit(u) ==
    /\ unit[u] = "NONE"
    /\ CanStart
    /\ unit' = [unit EXCEPT ![u] = "AVAILABLE"]
    /\ UNCHANGED <<trip, inc, closer, status, unitOf, incOf, wanted, stamped, req, cln, failures>>

BeginSetUnitStatus(r, u, to) ==
    /\ <<unit[u], to>> \in AdminMoves
    /\ ~(unit[u] = "DISPATCHED" /\ to = "OUT_OF_SERVICE")
    /\ Start(r, [Idle EXCEPT !.pc = "setUnit", !.u = u, !.to = to])
    /\ Reading

SetUnitStatus(r) ==
    /\ req[r].pc = "setUnit"
    /\ unit' = [unit EXCEPT ![req[r].u] = req[r].to]
    /\ Finish(r)
    /\ UNCHANGED <<trip, inc, closer, status, unitOf, incOf, wanted, stamped, cln, failures>>

-----------------------------------------------------------------------------
(* Creating and assigning a dispatch *)

\* create without a unit id: the dispatch waits as REQUESTED.
BeginRequest(r, d, i, type) ==
    /\ FreshDispatch(d)
    /\ Dispatchable(i)
    /\ Start(r, [Idle EXCEPT !.pc = "insert", !.d = d, !.i = i, !.ty = type])
    /\ Reading

\* create with a unit id.  autoAssign is the same program: the unit it picks
\* from the ranked list is any unit here, read again in the next step.
BeginCreate(r, d, i, u, type) ==
    /\ FreshDispatch(d)
    /\ Dispatchable(i)
    /\ unit[u] # "NONE"
    /\ Start(r, [Idle EXCEPT !.pc = "checkCreate", !.d = d, !.i = i, !.u = u, !.ty = type])
    /\ Reading

BeginAssign(r, d, u) ==
    /\ status[d] \in Live
    /\ Dispatchable(incOf[d])
    /\ unitOf[d] = None
    /\ unit[u] # "NONE"
    /\ Start(r, [Idle EXCEPT !.pc = "checkAssign", !.d = d, !.u = u, !.ty = wanted[d]])
    /\ Reading

CheckUnit(r) ==
    /\ req[r].pc \in {"checkCreate", "checkAssign"}
    /\ IF Assignable(req[r].u, req[r].ty)
       THEN Continue(r, IF req[r].pc = "checkCreate" THEN "insert" ELSE "attach")
       ELSE Finish(r)
    /\ Reading

\* repository.createDispatch
Insert(r) ==
    LET d == req[r].d
        u == req[r].u
    IN  /\ req[r].pc = "insert"
        /\ status' = [status EXCEPT ![d] = IF u = None THEN "REQUESTED" ELSE "ASSIGNED"]
        /\ stamped' = [stamped EXCEPT ![d] = IF u = None THEN {} ELSE {"ASSIGNED"}]
        /\ unitOf' = [unitOf EXCEPT ![d] = u]
        /\ incOf' = [incOf EXCEPT ![d] = req[r].i]
        /\ wanted' = [wanted EXCEPT ![d] = req[r].ty]
        /\ IF u = None THEN Finish(r) ELSE Continue(r, "hold")
        /\ UNCHANGED <<trip, inc, closer, unit, cln, failures>>

\* repository.updateDispatch in assign
Attach(r) ==
    LET d == req[r].d
    IN  /\ req[r].pc = "attach"
        /\ status' = [status EXCEPT ![d] = "ASSIGNED"]
        /\ stamped' = [stamped EXCEPT ![d] = @ \cup {"ASSIGNED"}]
        /\ unitOf' = [unitOf EXCEPT ![d] = req[r].u]
        /\ Continue(r, "hold")
        /\ UNCHANGED <<trip, inc, closer, incOf, wanted, unit, cln, failures>>

\* repository.updateUnit(unit.id, DISPATCHED), after the dispatch row exists
Hold(r) ==
    /\ req[r].pc = "hold"
    /\ unit' = [unit EXCEPT ![req[r].u] = "DISPATCHED"]
    /\ Finish(r)
    /\ UNCHANGED <<trip, inc, closer, status, unitOf, incOf, wanted, stamped, cln, failures>>

-----------------------------------------------------------------------------
(* Moving a dispatch through its stages *)

\* Staff may cancel any open dispatch.
BeginCancel(r, d) ==
    /\ status[d] \in Live
    /\ Start(r, [Idle EXCEPT !.pc = "move", !.d = d, !.u = unitOf[d], !.to = "CANCELLED"])
    /\ Reading

\* Mutant of BeginAdvance: the requested status is not compared with NEXT.
AdvanceAnywhere(r, d) ==
    /\ status[d] \in Live
    /\ unitOf[d] # None
    /\ \E to \in Stages :
         Start(r, [Idle EXCEPT !.pc = "move", !.d = d, !.u = unitOf[d], !.to = to])
    /\ Reading

\* Staff, and the service account that owns the unit, advance it by one stage.
BeginAdvance(r, d) ==
    /\ status[d] \in Live
    /\ unitOf[d] # None
    /\ NEXT[status[d]] # "NONE"
    /\ Start(r, [Idle EXCEPT !.pc = "move", !.d = d, !.u = unitOf[d], !.to = NEXT[status[d]]])
    /\ Reading

\* Mutants of Move: only a completion releases the unit; the cancellation time
\* is kept with the stages.
MoveKeepsCancelledUnit(r) ==
    /\ req[r].pc = "move"
    /\ status' = [status EXCEPT ![req[r].d] = req[r].to]
    /\ stamped' = [stamped EXCEPT ![req[r].d] = @ \cup ({req[r].to} \cap Stages)]
    /\ IF req[r].to = "COMPLETED" THEN Continue(r, "release") ELSE Finish(r)
    /\ UNCHANGED <<trip, inc, closer, unitOf, incOf, wanted, unit, cln, failures>>
MoveStampsCancel(r) ==
    /\ req[r].pc = "move"
    /\ status' = [status EXCEPT ![req[r].d] = req[r].to]
    /\ stamped' = [stamped EXCEPT ![req[r].d] = @ \cup {req[r].to}]
    /\ Finish(r)
    /\ UNCHANGED <<trip, inc, closer, unitOf, incOf, wanted, unit, cln, failures>>

\* The update names the row by its id alone, whatever its status is by now.
Move(r) ==
    LET d == req[r].d
        to == req[r].to
    IN  /\ req[r].pc = "move"
        /\ status' = [status EXCEPT ![d] = to]
        /\ stamped' = [stamped EXCEPT ![d] = @ \cup ({to} \cap Stages)]
        /\ IF to \in {"COMPLETED", "CANCELLED"} /\ req[r].u # None
           THEN Continue(r, "release")
           ELSE Finish(r)
        /\ UNCHANGED <<trip, inc, closer, unitOf, incOf, wanted, unit, cln, failures>>

\* Mutant of Release: a cancellation also runs the resolution of the incident.
ReleaseAlwaysCounts(r) ==
    /\ req[r].pc = "release"
    /\ unit' = [unit EXCEPT ![req[r].u] = "AVAILABLE"]
    /\ Continue(r, "count")
    /\ UNCHANGED <<trip, inc, closer, status, unitOf, incOf, wanted, stamped, cln, failures>>

Release(r) ==
    /\ req[r].pc = "release"
    /\ unit' = [unit EXCEPT ![req[r].u] = "AVAILABLE"]
    /\ IF req[r].to = "COMPLETED" THEN Continue(r, "count") ELSE Finish(r)
    /\ UNCHANGED <<trip, inc, closer, status, unitOf, incOf, wanted, stamped, cln, failures>>

\* resolveIncidentWhenResponsesComplete, the two reads of its transaction ...
CountRemaining(r) ==
    LET i == incOf[req[r].d]
    IN  /\ req[r].pc = "count"
        /\ IF LiveFor(i) = {} /\ inc[i] \in IncidentOpen
           THEN Continue(r, "resolve")
           ELSE Finish(r)
        /\ Reading

\* ... and its commit.
ResolveIncident(r) ==
    LET i == incOf[req[r].d]
    IN  /\ req[r].pc = "resolve"
        /\ inc' = [inc EXCEPT ![i] = "RESOLVED"]
        /\ closer' = [closer EXCEPT ![i] = "FLEET"]
        /\ Finish(r)
        /\ UNCHANGED <<trip, status, unitOf, incOf, wanted, stamped, unit, cln, failures>>

-----------------------------------------------------------------------------
(* The end of a trip: expireSafetyState, then the trip row *)

StartCleaning(c, t, end) ==
    /\ cln[c] = Rest
    /\ CanStart
    /\ cln' = [cln EXCEPT ![c] = [Rest EXCEPT !.pc = "incidents", !.t = t, !.end = end]]
    /\ UNCHANGED <<rows, req, failures>>

\* completeTrip and cancelTrip of a request, processExpired of the job.
BeginEndTrip(c, t) == trip[t] = "ACTIVE" /\ StartCleaning(c, t, TRUE)

\* Mutant of BeginReconcile: only incidents still OPEN are looked for.
ReconcileOpenOnly(t) ==
    /\ trip[t] = "ENDED"
    /\ \E i \in Incidents : TripOf[i] = t /\ inc[i] = "OPEN"
    /\ StartCleaning(Job, t, FALSE)

\* processEndedSafetyState: an ended trip that still has an open incident.
BeginReconcile(t) ==
    /\ trip[t] = "ENDED"
    /\ \E i \in Incidents : TripOf[i] = t /\ inc[i] \in IncidentOpen
    /\ StartCleaning(Job, t, FALSE)

FindIncidents(c) ==
    /\ cln[c].pc = "incidents"
    /\ cln' = [cln EXCEPT ![c].pc = "dispatches",
                          ![c].incs = {i \in Incidents : /\ TripOf[i] = cln[c].t
                                                         /\ inc[i] \in IncidentOpen}]
    /\ UNCHANGED <<rows, req, failures>>

\* Mutant of FindDispatches: dispatches that wait for a unit are overlooked.
FindAssignedOnly(c) ==
    LET found == {d \in UNION {LiveFor(i) : i \in cln[c].incs} : unitOf[d] # None}
    IN  /\ cln[c].pc = "dispatches"
        /\ cln' = [cln EXCEPT ![c].pc = "expire",
                              ![c].dsps = found,
                              ![c].units = {unitOf[d] : d \in found}]
        /\ UNCHANGED <<rows, req, failures>>

FindDispatches(c) ==
    LET found == UNION {LiveFor(i) : i \in cln[c].incs}
    IN  /\ cln[c].pc = "dispatches"
        /\ cln' = [cln EXCEPT ![c].pc = "expire",
                              ![c].dsps = found,
                              ![c].units = {unitOf[d] : d \in found} \ {None}]
        /\ UNCHANGED <<rows, req, failures>>

\* The transaction's writes, by the ids it read.
Expire(c) ==
    /\ cln[c].pc = "expire"
    /\ status' = [d \in Dispatches |-> IF d \in cln[c].dsps THEN "CANCELLED" ELSE status[d]]
    /\ unit' = [u \in Units |-> IF u \in cln[c].units THEN "AVAILABLE" ELSE unit[u]]
    /\ inc' = [i \in Incidents |-> IF i \in cln[c].incs THEN "DISMISSED" ELSE inc[i]]
    /\ closer' = [i \in Incidents |-> IF i \in cln[c].incs THEN "TRIP_END" ELSE closer[i]]
    /\ cln' = [cln EXCEPT ![c] = IF cln[c].end THEN [Rest EXCEPT !.pc = "end", !.t = cln[c].t]
                                               ELSE Rest]
    /\ UNCHANGED <<trip, unitOf, incOf, wanted, stamped, req, failures>>

\* repository.completeTrip or cancelTrip
EndTrip(c) ==
    /\ cln[c].pc = "end"
    /\ trip' = [trip EXCEPT ![cln[c].t] = "ENDED"]
    /\ cln' = [cln EXCEPT ![c] = Rest]
    /\ UNCHANGED <<inc, closer, status, unitOf, incOf, wanted, stamped, unit, req, failures>>

-----------------------------------------------------------------------------
(* A query fails, or the server restarts, between two steps of a handler:  *)
(* what it wrote stays, what it remembered is lost, an open transaction    *)
(* rolls back.                                                             *)

FailRequest(r) ==
    /\ failures < MaxFailures
    /\ req[r] # Idle
    /\ failures' = failures + 1
    /\ Finish(r)
    /\ UNCHANGED <<rows, cln>>

FailCleaner(c) ==
    /\ failures < MaxFailures
    /\ cln[c] # Rest
    /\ failures' = failures + 1
    /\ cln' = [cln EXCEPT ![c] = Rest]
    /\ UNCHANGED <<rows, req>>

-----------------------------------------------------------------------------
RequestStep(r) ==
    \/ \E i \in Incidents : BeginRaise(r, i)
    \/ \E i \in Incidents, to \in IncidentStatus : BeginIncident(r, i, to)
    \/ \E u \in Units, to \in UnitStatus : BeginSetUnitStatus(r, u, to)
    \/ \E d \in Dispatches, i \in Incidents, type \in Types : BeginRequest(r, d, i, type)
    \/ \E d \in Dispatches, i \in Incidents, u \in Units, type \in Types :
          BeginCreate(r, d, i, u, type)
    \/ \E d \in Dispatches, u \in Units : BeginAssign(r, d, u)
    \/ \E d \in Dispatches : BeginCancel(r, d)
    \/ \E d \in Dispatches : BeginAdvance(r, d)
    \/ Raise(r)
    \/ MoveIncident(r)
    \/ SetUnitStatus(r)
    \/ CheckUnit(r)
    \/ Insert(r)
    \/ Attach(r)
    \/ Hold(r)
    \/ Move(r)
    \/ Release(r)
    \/ CountRemaining(r)
    \/ ResolveIncident(r)
    \/ FailRequest(r)

CleanerStep(c) ==
    \/ \E t \in Trips : BeginEndTrip(c, t)
    \/ FindIncidents(c)
    \/ FindDispatches(c)
    \/ Expire(c)
    \/ EndTrip(c)
    \/ FailCleaner(c)

Next ==
    \/ \E u \in Units : RegisterUnit(u)
    \/ \E r \in Requests : RequestStep(r)
    \/ \E c \in Cleaners : CleanerStep(c)
    \/ \E t \in Trips : BeginReconcile(t)

Spec == Init /\ [][Next]_vars

\* cron starts a tick of the job every 15 seconds, and a tick runs to its end;
\* nothing promises that a client sends another request.
JobFairness ==
    /\ \A t \in Trips : WF_vars(BeginReconcile(t))
    /\ WF_vars(FindIncidents(Job))
    /\ WF_vars(FindDispatches(Job))
    /\ WF_vars(Expire(Job))
    /\ WF_vars(EndTrip(Job))

FairSpec == Spec /\ JobFairness

-----------------------------------------------------------------------------
(* Properties *)

Request == [pc : {"idle", "raise", "incident", "setUnit", "checkCreate", "checkAssign",
                  "insert", "attach", "hold", "move", "release", "count", "resolve"},
            d : Dispatches \cup {None}, i : Incidents \cup {None}, u : Units \cup {None},
            ty : Types \cup {None},
            to : IncidentStatus \cup DispatchStatus \cup UnitStatus]
Cleaning == [pc : {"idle", "incidents", "dispatches", "expire", "end"},
             t : Trips \cup {None}, incs : SUBSET Incidents, dsps : SUBSET Dispatches,
             units : SUBSET Units, end : BOOLEAN]

\* Every row holds a value of its column's enum, and every handler remembers rows
\* that exist or that it is about to insert.
TypeOK ==
    /\ trip \in [Trips -> {"ACTIVE", "ENDED"}]
    /\ inc \in [Incidents -> IncidentStatus]
    /\ closer \in [Incidents -> {"NOBODY", "STAFF", "FLEET", "TRIP_END"}]
    /\ status \in [Dispatches -> DispatchStatus]
    /\ unitOf \in [Dispatches -> Units \cup {None}]
    /\ incOf \in [Dispatches -> Incidents \cup {None}]
    /\ wanted \in [Dispatches -> Types \cup {None}]
    /\ stamped \in [Dispatches -> SUBSET Stages]
    /\ unit \in [Units -> UnitStatus \cup {"NONE"}]
    /\ req \in [Requests -> Request]
    /\ cln \in [Cleaners -> Cleaning]
    /\ failures \in 0..MaxFailures

Earlier(s) == {e \in Stages : Timeline[e] < Timeline[s]}

\* The response timeline has no holes: a stage's timestamp is set only when the
\* timestamps of all earlier stages are, and the current stage is stamped,
\* however the transitions of staff, fleet and trip end overlap.
NoStageSkipped ==
    \A d \in Dispatches :
        /\ status[d] \in Stages => status[d] \in stamped[d]
        /\ \A s \in stamped[d] : Earlier(s) \subseteq stamped[d]

\* A dispatch at any stage names a unit, of the type that was requested, even
\* when several assignments of it overlap.
RespondingHasUnit ==
    \A d \in Dispatches : status[d] \in Stages =>
        unitOf[d] \in Units /\ TypeOf[unitOf[d]] = wanted[d]

\* An incident closed with "All assigned emergency fleet responses completed"
\* has a dispatch whose whole timeline was recorded.
FleetResolutionEarned ==
    \A i \in Incidents : closer[i] = "FLEET" =>
        \E d \in Dispatches : incOf[d] = i /\ Stages \subseteq stamped[d]

\* A dispatch row that exists names its incident and type, and its unit has that type.
RowsComplete ==
    \A d \in Dispatches :
        IF status[d] = "NONE"
        THEN unitOf[d] = None /\ stamped[d] = {}
        ELSE /\ incOf[d] \in Incidents
             /\ wanted[d] \in Types
             /\ unitOf[d] # None => TypeOf[unitOf[d]] = wanted[d]

\* What handler r remembers still holds of the rows whenever r goes on, whatever
\* the others wrote in between.
Remembers(r) ==
    LET q == req[r]
        Row == q.d \in Dispatches /\ status[q.d] # "NONE"
        NewRow == /\ q.d \in Dispatches /\ status[q.d] = "NONE"
                  /\ q.i \in Incidents /\ q.ty \in Types
                  /\ \A p \in Requests \ {r} : req[p].d # q.d
        Completed == Row /\ "COMPLETED" \in stamped[q.d]
    IN  /\ q.pc = "idle" => q = Idle
        /\ q.pc = "raise" => q.i \in Incidents
        /\ q.pc = "incident" => q.i \in Incidents /\ q.to \in IncidentStatus
        /\ q.pc = "setUnit" => q.u \in Units /\ q.to \in UnitStatus
        /\ q.pc = "checkCreate" => NewRow /\ q.u \in Units
        /\ q.pc = "insert" => NewRow /\ (q.u # None => TypeOf[q.u] = q.ty)
        /\ q.pc = "checkAssign" => Row /\ q.u \in Units /\ q.ty = wanted[q.d]
        /\ q.pc = "attach" => Row /\ q.u \in Units /\ TypeOf[q.u] = wanted[q.d]
        /\ q.pc = "hold" => q.u \in Units
        /\ q.pc = "move" => /\ Row
                            /\ q.to \in (Stages \ {"ASSIGNED"}) \cup {"CANCELLED"}
                            /\ q.to \in Stages => /\ q.u # None
                                                  /\ unitOf[q.d] # None
                                                  /\ Earlier(q.to) \subseteq stamped[q.d]
        /\ q.pc = "release" => q.u \in Units /\ (q.to = "COMPLETED" => Completed)
        /\ q.pc \in {"count", "resolve"} => Completed

\* The inductive core of the timeline: a handler that is about to write a later
\* stage still finds every earlier one stamped, no two handlers insert one row,
\* and the clean-up of a trip only cancels dispatches that exist.
HandlersRemember ==
    /\ RowsComplete
    /\ \A r \in Requests : Remembers(r)
    /\ \A c \in Cleaners : \A d \in cln[c].dsps : status[d] # "NONE"

\* Every open incident of an ended trip is closed eventually, also one raised
\* or reopened by a handler that read the trip or the incident before the end.
EndedIncidentsClose ==
    \A i \in Incidents :
        (trip[TripOf[i]] = "ENDED" /\ inc[i] \in IncidentOpen) ~> (inc[i] \notin IncidentOpen)

Serves(d, u) == status[d] \in Live /\ unitOf[d] = u

\* With no handler in flight, a unit is DISPATCHED exactly when an open
\* dispatch holds it.
BusyIffServing ==
    Quiet => \A u \in Units :
        unit[u] = "DISPATCHED" <=> \E d \in Dispatches : Serves(d, u)

\* With no handler in flight, an incident that the end of its trip closed has
\* no open dispatch left.
TripEndStandsDown ==
    Quiet => \A i \in Incidents : closer[i] = "TRIP_END" => LiveFor(i) = {}

\* "The chosen unit immediately becomes DISPATCHED at the unit-resource level so
\* it is not considered available for another assignment."
UnitServesOne ==
    \A u \in Units : \A d, e \in Dispatches : Serves(d, u) /\ Serves(e, u) => d = e

\* "completing/cancelling a trip expires or closes trip-derived active safety
\* state": with no handler in flight, an ended trip has no open dispatch.
EndedTripStandsDown ==
    Quiet => \A i \in Incidents : trip[TripOf[i]] = "ENDED" => LiveFor(i) = {}

-----------------------------------------------------------------------------
(* With one handler at a time, the rows implement the response board *)

Phase == [d \in Dispatches |->
            CASE status[d] = "NONE"      -> "absent"
              [] status[d] = "REQUESTED" -> "waiting"
              [] status[d] \in Live \ {"REQUESTED"} -> "responding"
              [] OTHER                   -> "closed"]
Serving == [u \in Units |->
              IF \E d \in Dispatches : Serves(d, u)
              THEN CHOOSE d \in Dispatches : Serves(d, u)
              ELSE None]

Board == INSTANCE ResponseBoard WITH phase <- Phase, serving <- Serving
BoardSpec == Board!Spec
=============================================================================
