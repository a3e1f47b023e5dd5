----------------------------- MODULE LocationWatch -----------------------------
(***************************************************************************)
(* What a location report sets off: tracking.service.js stores the point   *)
(* and moves the latest location, safety.service.js then looks for overdue *)
(* check-ins and for risk zones entered or left, whose list comes from the *)
(* cache, and raises alerts with their incidents.                          *)
(*                                                                         *)
(* One tourist on an active trip, one risk zone, one scheduled check-in.   *)
(* Capture times are numbers a reporting interval apart, so that each      *)
(* point is a time and whether it lies in the zone.  A handler is split at *)
(* its awaits, at[p] is what it remembers, and with overlap FALSE handlers *)
(* run one after the other, as in the other modules.                       *)
(***************************************************************************)
EXTENDS Naturals, FiniteSets

CONSTANTS
    Requests,       \* the requests the server may be serving at a time
    MaxTime,        \* bound on capture times
    MaxRacing,      \* the same where handlers overlap
    MaxAlerts,      \* bound on alert rows
    Failing,        \* bound: the values of overlap under which queries fail
    MaxFailures     \* bound on failed handlers and restarts

Times == 1..MaxTime
Alerts == 1..MaxAlerts

ASSUME WatchAssumption ==
    /\ Requests # {}
    /\ MaxTime \in Nat
    /\ MaxRacing \in 0..MaxTime
    /\ MaxAlerts \in Nat \ {0}
    /\ Failing \subseteq BOOLEAN
    /\ MaxFailures \in Nat

VARIABLES
    overlap,
    now,        \* the latest time a point can have been captured at
    point,      \* [Times -> the stored point is "IN" or "OUT" of the zone, or "NONE"]
    latest,     \* capturedAt of the latest trusted location, 0 for none
    event,      \* [Times -> the geofence event of the point with that time]
    zone,       \* is the zone "ON" or "OFF" in the database?
    cache,      \* the same as the cache has it, "NONE" if it has nothing
    check,      \* status of the check-in
    overdue,    \* is dueAt past?
    source,     \* [Alerts -> what the alert is about, "NONE" for no row]
    open,       \* [Alerts -> is the alert unresolved?]
    reported,   \* [Alerts -> has it an incident?]
    at,         \* [Requests -> what the handler in flight remembers]
    failures

rows == <<now, point, latest, event, zone, cache, check, overdue, source, open, reported>>
vars == <<overlap, rows, at, failures>>

Idle == [pc |-> "idle", t |-> 0, place |-> "NONE", seen |-> "NONE", src |-> "NONE", a |-> 1]

Init ==
    /\ overlap \in BOOLEAN
    /\ now = 0
    /\ point = [t \in Times |-> "NONE"]
    /\ latest = 0
    /\ event = [t \in Times |-> "NONE"]
    /\ zone = "ON"
    /\ cache = "NONE"
    /\ check = "NONE"
    /\ overdue = FALSE
    /\ source = [a \in Alerts |-> "NONE"]
    /\ open = [a \in Alerts |-> FALSE]
    /\ reported = [a \in Alerts |-> FALSE]
    /\ at = [p \in Requests |-> Idle]
    /\ failures = 0

-----------------------------------------------------------------------------
(* Helpers *)

Quiet == \A p \in Requests : at[p] = Idle
At(p, pc) == at[p].pc = pc
Goto(p, pc) == at' = [at EXCEPT ![p].pc = pc]
Finish(p) == at' = [at EXCEPT ![p] = Idle]
Fixed == UNCHANGED <<overlap, failures>>
Unwritten == UNCHANGED rows /\ Fixed

\* One request is enough where none overlap.
Begin(p, next) ==
    /\ at[p] = Idle
    /\ overlap \/ (Quiet /\ p = CHOOSE q \in Requests : TRUE)
    /\ at' = [at EXCEPT ![p] = next]
    /\ Unwritten

Opposite(z) == IF z = "ON" THEN "OFF" ELSE "ON"
OpenOf(src) == {a \in Alerts : source[a] = src /\ open[a]}

\* findLastGeofenceEvent, by the time the point was captured
WasInside == \E t \in Times : event[t] = "ENTER" /\ \A u \in Times : u > t => event[u] = "NONE"

-----------------------------------------------------------------------------
(* Time passes; the zone list in the cache expires. *)

Tick == /\ now < IF overlap THEN MaxRacing ELSE MaxTime
        /\ now' = now + 1
        /\ UNCHANGED <<point, latest, event, zone, cache, check, overdue, source, open, reported, at>>
        /\ Fixed

FallDue == /\ check = "PENDING" /\ ~overdue
           /\ overdue' = TRUE
           /\ UNCHANGED <<now, point, latest, event, zone, cache, check, source, open, reported, at>>
           /\ Fixed

CacheExpires ==
    /\ cache # "NONE"
    /\ cache' = "NONE"
    /\ UNCHANGED <<now, point, latest, event, zone, check, overdue, source, open, reported, at>>
    /\ Fixed

-----------------------------------------------------------------------------
(* submitPing *)

\* Mutant of BeginPing: a point that was not stored yet is taken in any order.
BeginPingLate(p, t, place) ==
    /\ t \in 1..now
    /\ place \in {"IN", "OUT"}
    /\ point[t] = "NONE"
    /\ Begin(p, [Idle EXCEPT !.pc = "store", !.t = t, !.place = place])

\* The checks of submitPing: neither a duplicate nor out of order.  A point that
\* is too old, too inaccurate or too far away is refused before anything is written.
BeginPing(p, t, place) ==
    /\ t \in 1..now
    /\ place \in {"IN", "OUT"}
    /\ point[t] = "NONE"
    /\ t > latest
    /\ Begin(p, [Idle EXCEPT !.pc = "store", !.t = t, !.place = place])

\* Mutant of StorePoint: the latest location is the point's number.
StoreUntyped(p) ==
    LET t == at[p].t
    IN  /\ At(p, "store")
        /\ point' = [point EXCEPT ![t] = at[p].place]
        /\ latest' = latest + t
        /\ Goto(p, "checkIns")
        /\ UNCHANGED <<now, event, zone, cache, check, overdue, source, open, reported>>
        /\ Fixed

\* createPingAndUpdateLatest: the time is unique, the latest location is moved
\* to this point whatever it is by now.
StorePoint(p) ==
    LET t == at[p].t
    IN  /\ At(p, "store")
        /\ IF point[t] = "NONE"
           THEN /\ point' = [point EXCEPT ![t] = at[p].place]
                /\ latest' = t
                /\ Goto(p, "checkIns")
           ELSE Finish(p) /\ UNCHANGED <<point, latest>>
        /\ UNCHANGED <<now, event, zone, cache, check, overdue, source, open, reported>>
        /\ Fixed

-----------------------------------------------------------------------------
(* processDueCheckIns, for a point and for the lists of check-ins and alerts *)

BeginList(p) == Begin(p, [Idle EXCEPT !.pc = "checkIns"])

\* Only a point goes on with the zones.
AfterCheckIns(p) == IF at[p].t = 0 THEN Finish(p) ELSE Goto(p, "zones")

FindDue(p) ==
    /\ At(p, "checkIns")
    /\ IF check = "PENDING" /\ overdue THEN Goto(p, "miss") ELSE AfterCheckIns(p)
    /\ Unwritten

\* By id, whatever the check-in is by now.
Miss(p) ==
    /\ At(p, "miss")
    /\ check' = "MISSED"
    /\ at' = [at EXCEPT ![p].pc = "findAlert", ![p].src = "CHECK_IN"]
    /\ UNCHANGED <<now, point, latest, event, zone, cache, overdue, source, open, reported>>
    /\ Fixed

-----------------------------------------------------------------------------
(* ensureAlert with ingestSafetyAlert *)

\* Mutant of FindAlert: any open alert of the tourist will do.
FindAnyAlert(p) ==
    /\ At(p, "findAlert")
    /\ \/ \E a \in Alerts : /\ open[a]
                            /\ at' = [at EXCEPT ![p].pc = "findIncident", ![p].a = a]
       \/ (\A a \in Alerts : ~open[a]) /\ Goto(p, "createAlert")
    /\ Unwritten

FindAlert(p) ==
    /\ At(p, "findAlert")
    /\ \/ \E a \in OpenOf(at[p].src) :
            /\ \A b \in OpenOf(at[p].src) : b <= a
            /\ at' = [at EXCEPT ![p].pc = "findIncident", ![p].a = a]
       \/ OpenOf(at[p].src) = {} /\ Goto(p, "createAlert")
    /\ Unwritten

\* Rows are taken in order.
CreateAlert(p) ==
    \E a \in Alerts :
        /\ At(p, "createAlert")
        /\ \A b \in Alerts : source[b] = "NONE" <=> b >= a
        /\ source' = [source EXCEPT ![a] = at[p].src]
        /\ open' = [open EXCEPT ![a] = TRUE]
        /\ at' = [at EXCEPT ![p].pc = "findIncident", ![p].a = a]
        /\ UNCHANGED <<now, point, latest, event, zone, cache, check, overdue, reported>>
        /\ Fixed

AfterAlert(p) == IF at[p].src = "CHECK_IN" THEN AfterCheckIns(p) ELSE Finish(p)

FindIncident(p) ==
    /\ At(p, "findIncident")
    /\ IF reported[at[p].a] THEN AfterAlert(p) ELSE Goto(p, "createIncident")
    /\ Unwritten

\* The second incident of an alert breaks the unique key and ends the evaluation.
CreateIncident(p) ==
    /\ At(p, "createIncident")
    /\ IF reported[at[p].a] THEN Finish(p) ELSE AfterAlert(p)
    /\ reported' = [reported EXCEPT ![at[p].a] = TRUE]
    /\ UNCHANGED <<now, point, latest, event, zone, cache, check, overdue, source, open>>
    /\ Fixed

-----------------------------------------------------------------------------
(* evaluateLocation, from the list of zones on *)

\* cacheGetOrSet: what the cache has, or what another miss is about to store,
\* or the rows, which are then stored.
ReadZones(p) ==
    LET missing == {q \in Requests : At(q, "fill")}
    IN  /\ At(p, "zones")
        /\ IF cache # "NONE"
           THEN at' = [at EXCEPT ![p].pc = "compare", ![p].seen = cache]
           ELSE IF missing # {}
           THEN \E q \in missing : at' = [at EXCEPT ![p].pc = "compare", ![p].seen = at[q].seen]
           ELSE at' = [at EXCEPT ![p].pc = "fill", ![p].seen = zone]
        /\ Unwritten

FillCache(p) ==
    /\ At(p, "fill")
    /\ cache' = at[p].seen
    /\ Goto(p, "compare")
    /\ UNCHANGED <<now, point, latest, event, zone, check, overdue, source, open, reported>>
    /\ Fixed

\* A zone that is off is passed over: nobody leaves it.
Compare(p) ==
    /\ At(p, "compare")
    /\ IF at[p].seen = "ON" /\ (at[p].place = "IN") # WasInside
       THEN Goto(p, "crossing") ELSE Finish(p)
    /\ Unwritten

Crossing(p) ==
    LET t == at[p].t
    IN  /\ At(p, "crossing")
        /\ IF at[p].place = "IN"
           THEN /\ event' = [event EXCEPT ![t] = "ENTER"]
                /\ at' = [at EXCEPT ![p].pc = "findAlert", ![p].src = "ZONE"]
           ELSE /\ event' = [event EXCEPT ![t] = "EXIT"]
                /\ at' = [at EXCEPT ![p].pc = "resolve", ![p].src = "ZONE"]
        /\ UNCHANGED <<now, point, latest, zone, cache, check, overdue, source, open, reported>>
        /\ Fixed

\* Mutant of ResolveOpen: resolves the first open alert of the tourist.
ResolveFirst(p) ==
    /\ At(p, "resolve")
    /\ open' = [a \in Alerts |-> open[a] /\ \E b \in Alerts : open[b] /\ b < a]
    /\ Finish(p)
    /\ UNCHANGED <<now, point, latest, event, zone, cache, check, overdue, source, reported>>
    /\ Fixed

\* resolveOpenAlert
ResolveOpen(p) ==
    /\ At(p, "resolve")
    /\ open' = [a \in Alerts |-> open[a] /\ source[a] # at[p].src]
    /\ Finish(p)
    /\ UNCHANGED <<now, point, latest, event, zone, cache, check, overdue, source, reported>>
    /\ Fixed

-----------------------------------------------------------------------------
(* The tourist's check-in *)

BeginSchedule(p) ==
    /\ check = "NONE"
    /\ Begin(p, [Idle EXCEPT !.pc = "schedule"])

\* createCheckIn; a second check-in is not followed.
Schedule(p) ==
    /\ At(p, "schedule")
    /\ check' = IF check = "NONE" THEN "PENDING" ELSE check
    /\ Finish(p)
    /\ UNCHANGED <<now, point, latest, event, zone, cache, overdue, source, open, reported>>
    /\ Fixed

BeginComplete(p) ==
    /\ check = "PENDING"
    /\ Begin(p, [Idle EXCEPT !.pc = "complete"])

Complete(p) ==
    /\ At(p, "complete")
    /\ check' = "COMPLETED"
    /\ at' = [at EXCEPT ![p].pc = "resolve", ![p].src = "CHECK_IN"]
    /\ UNCHANGED <<now, point, latest, event, zone, cache, overdue, source, open, reported>>
    /\ Fixed

-----------------------------------------------------------------------------
(* The tourist resolves an alert, staff switch the zone. *)

BeginResolve(p, a) ==
    /\ open[a]
    /\ Begin(p, [Idle EXCEPT !.pc = "resolveAlert", !.a = a])

ResolveAlert(p) ==
    /\ At(p, "resolveAlert")
    /\ open' = [open EXCEPT ![at[p].a] = FALSE]
    /\ Finish(p)
    /\ UNCHANGED <<now, point, latest, event, zone, cache, check, overdue, source, reported>>
    /\ Fixed

BeginSetActive(p) == Begin(p, [Idle EXCEPT !.pc = "setActive", !.seen = Opposite(zone)])

\* Mutant of SetActive: the cache is not told.
SetActiveOnly(p) ==
    /\ At(p, "setActive")
    /\ zone' = at[p].seen
    /\ Finish(p)
    /\ UNCHANGED <<now, point, latest, event, cache, check, overdue, source, open, reported>>
    /\ Fixed

SetActive(p) ==
    /\ At(p, "setActive")
    /\ zone' = at[p].seen
    /\ Goto(p, "invalidate")
    /\ UNCHANGED <<now, point, latest, event, cache, check, overdue, source, open, reported>>
    /\ Fixed

\* invalidateSafetyZoneCaches, which logs an error of the cache and goes on
Invalidate(p) ==
    /\ At(p, "invalidate")
    /\ cache' = "NONE"
    /\ Finish(p)
    /\ UNCHANGED <<now, point, latest, event, zone, check, overdue, source, open, reported>>
    /\ Fixed

-----------------------------------------------------------------------------
(* A query fails and ends its handler, or the process restarts. *)

Fail(p) ==
    /\ overlap \in Failing
    /\ failures < MaxFailures
    /\ at[p] # Idle
    /\ \/ Finish(p)
       \/ at' = [q \in Requests |-> Idle]
    /\ failures' = failures + 1
    /\ UNCHANGED <<overlap, rows>>

-----------------------------------------------------------------------------
BeginRequest(p) ==
    \/ \E t \in Times, place \in {"IN", "OUT"} : BeginPing(p, t, place)
    \/ BeginList(p) \/ BeginSchedule(p) \/ BeginComplete(p)
    \/ \E a \in Alerts : BeginResolve(p, a)
    \/ BeginSetActive(p)

PingStep(p) ==
    \/ StorePoint(p) \/ FindDue(p) \/ Miss(p)
    \/ FindAlert(p) \/ CreateAlert(p) \/ FindIncident(p) \/ CreateIncident(p)
    \/ ReadZones(p) \/ FillCache(p) \/ Compare(p) \/ Crossing(p) \/ ResolveOpen(p)

OtherStep(p) ==
    \/ Schedule(p) \/ Complete(p) \/ ResolveAlert(p) \/ SetActive(p) \/ Invalidate(p)

Next ==
    \/ Tick \/ FallDue \/ CacheExpires
    \/ \E p \in Requests : BeginRequest(p) \/ PingStep(p) \/ OtherStep(p) \/ Fail(p)

Spec == Init /\ [][Next]_vars

-----------------------------------------------------------------------------
(* Properties *)

Handler == [pc : {"idle", "store", "checkIns", "miss", "findAlert", "createAlert",
                  "findIncident", "createIncident", "zones", "fill", "compare", "crossing",
                  "resolve", "schedule", "complete", "resolveAlert", "setActive", "invalidate"},
            t : 0..MaxTime, place : {"NONE", "IN", "OUT"}, seen : {"NONE", "ON", "OFF"},
            src : {"NONE", "ZONE", "CHECK_IN"}, a : Alerts]

\* Every row holds a value of its column.
TypeOK ==
    /\ overlap \in BOOLEAN
    /\ now \in 0..MaxTime
    /\ point \in [Times -> {"NONE", "IN", "OUT"}]
    /\ latest \in 0..MaxTime
    /\ event \in [Times -> {"NONE", "ENTER", "EXIT"}]
    /\ zone \in {"ON", "OFF"}
    /\ cache \in {"NONE", "ON", "OFF"}
    /\ check \in {"NONE", "PENDING", "COMPLETED", "MISSED"}
    /\ overdue \in BOOLEAN
    /\ source \in [Alerts -> {"NONE", "ZONE", "CHECK_IN"}]
    /\ open \in [Alerts -> BOOLEAN]
    /\ reported \in [Alerts -> BOOLEAN]
    /\ at \in [Requests -> Handler]
    /\ failures \in 0..MaxFailures

Serial == ~overlap

\* Reports that were buffered and arrive late never move the tourist back: the
\* latest location is the newest point, also after failures.
NewestIsLatest ==
    Serial => \A t \in Times : point[t] # "NONE" => t <= latest

\* Once a report has been judged while the zone is on, the last event says where
\* the tourist is, each entry that was recorded has an alert of its own, whatever
\* became of the earlier ones and of the zone meanwhile, and outside no alert is
\* open (evaluateLocation).  It says nothing of the reports that come while the
\* zone is off: a stay outside that only they saw leaves no event, the alert from
\* before stays open through it, and the return from it raises no alert.
Entries == {t \in Times : event[t] = "ENTER"}
ZoneAlerts == {a \in Alerts : source[a] = "ZONE"}
Judged(p) == at[p].t # 0 /\ at[p].pc # "store" /\ at'[p] = Idle /\ zone = "ON"
AlarmsFollowReports ==
    [][\A p \in Requests :
         Serial /\ failures' = 0 /\ Judged(p) =>
             /\ at[p].place = "IN" <=> WasInside'
             /\ Cardinality(Entries') = Cardinality(ZoneAlerts')
             /\ at[p].place = "OUT" => OpenOf("ZONE")' = {}]_vars

\* A check-in that is shown as missed, and a risk zone that was entered, have
\* been reported to staff, whichever of the overlapping handlers noticed it and
\* whatever the tourist did at the same moment.
Raised(src) == \E a \in Alerts : source[a] = src /\ reported[a]
AlarmsAreReported ==
    Quiet /\ failures = 0 =>
        /\ \A a \in Alerts : source[a] # "NONE" => reported[a]
        /\ check = "MISSED" => Raised("CHECK_IN")
        /\ Entries # {} => Raised("ZONE")

\* A zone that was switched on or off is seen as such by the next report: the
\* cache has nothing else once the switch has been answered.
CacheIsFresh ==
    Serial /\ Quiet /\ failures = 0 => cache \in {"NONE", zone}
=============================================================================
