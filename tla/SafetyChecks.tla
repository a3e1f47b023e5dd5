----------------------------- MODULE SafetyChecks -----------------------------
(***************************************************************************)
(* What happens when a tourist's signal is lost or a member leaves the     *)
(* group: signal-loss.service.js, with the alerts and incidents it shares  *)
(* with the monitoring, the alert and the incident services, the disaster  *)
(* managers' queue and the end of the trip.                                *)
(*                                                                         *)
(* One tourist is followed.  kind says which of the three checks applies:  *)
(*   MEMBER     a member's signal is lost, the leader is asked (a case)    *)
(*   SOLO       a solo tourist's signal is lost, the tourist is asked      *)
(*   SEPARATED  a member is outside the group's radius, either is asked    *)
(* As in TripGroups a handler is split at its awaits, at[p] is what it     *)
(* remembers, and with overlap FALSE handlers run one after the other.     *)
(* Alert status ACKNOWLEDGED counts as OPEN, and so do the incident        *)
(* statuses ACKNOWLEDGED and IN_PROGRESS.                                  *)
(***************************************************************************)
EXTENDS Naturals

CONSTANTS
    Kinds,          \* the checks to explore
    Requests,       \* tourists' and staff's requests the server may be serving at a time
    Desk,           \* the request that lists the disaster managers' queue
    Sweeper,        \* signalLoss.job.js
    Lifecycle,      \* what ends the trip: the lifecycle job or a request
    MaxCases,       \* bound on the times the tourist is lost
    MaxRacing,      \* the same where handlers overlap
    MaxAlerts,      \* bound on alert rows
    Crowded,        \* bound: the checks under which a request and the listing overlap
    Monitored,      \* bound: the values of overlap under which the monitor looks, in
                    \* behaviours where nothing fails
    Failing,        \* bound: the values of overlap under which queries fail
    MaxFailures     \* bound on failed handlers and restarts

Actors == Requests \cup {Desk, Sweeper, Lifecycle}
Cases == 1..MaxCases
Checked == 1..MaxAlerts         \* the alerts of the checks
Gap == 0                        \* the monitor's own "tracking-gap" alert
Alerts == {Gap} \cup Checked

ASSUME CheckAssumption ==
    /\ Kinds \subseteq {"MEMBER", "SOLO", "SEPARATED"}
    /\ Sweeper # Lifecycle /\ Desk \notin {Sweeper, Lifecycle}
    /\ Requests \cap {Desk, Sweeper, Lifecycle} = {}
    /\ Crowded \subseteq Kinds
    /\ Monitored \subseteq BOOLEAN
    /\ Failing \subseteq BOOLEAN
    /\ MaxRacing \in 0..MaxCases
    /\ MaxCases \in 0..MaxAlerts
    /\ MaxAlerts \in Nat
    /\ MaxFailures \in Nat

VARIABLES
    kind, overlap,
    trip,       \* "ACTIVE" or "ENDED"
    place,      \* "LOST" to tracking or outside the radius, "FINE", or "UNKNOWN": with no
                \* recent location nothing is said of the distance to the group
    cse,        \* [Cases -> status of the signal-loss case]
    again,      \* [Cases -> nextReminderAt is "LATER", "NOW" past or "NEVER"]
    alert,      \* [Alerts -> status]
    caseOf,     \* [Checked -> the case in sourceId], 0 for none
    asked,      \* [Checked -> has somebody been asked (confirmationStarted)?]
    told,       \* [Checked -> escalatedToDisasterManagement]
    inc,        \* [Alerts -> status of the incident raised from the alert]
    late,       \* the cases, or alerts if kind is not MEMBER, past responseDeadlineAt
    grounds,    \* history: those past the deadline once, or whose answer was danger
    at,         \* [Actors -> what the handler in flight remembers]
    failures

rows == <<trip, place, cse, again, alert, caseOf, asked, told, inc, late, grounds>>
vars == <<kind, overlap, rows, at, failures>>

Idle == [pc |-> "idle", c |-> 0, a |-> 0, to |-> "NONE", lost |-> FALSE, asked |-> FALSE,
         told |-> FALSE, make |-> {}, shut |-> {}]

Init ==
    /\ kind \in Kinds
    /\ overlap \in BOOLEAN
    /\ trip = "ACTIVE"
    /\ place = "FINE"
    /\ cse = [c \in Cases |-> "NONE"]
    /\ again = [c \in Cases |-> "LATER"]
    /\ alert = [a \in Alerts |-> "NONE"]
    /\ caseOf = [a \in Checked |-> 0]
    /\ asked = [a \in Checked |-> FALSE]
    /\ told = [a \in Checked |-> FALSE]
    /\ inc = [a \in Alerts |-> "NONE"]
    /\ late = {}
    /\ grounds = {}
    /\ at = [p \in Actors |-> Idle]
    /\ failures = 0

-----------------------------------------------------------------------------
(* Helpers *)

Quiet == \A p \in Actors : at[p] = Idle
Served == Requests \cup {Desk}
CanStart(p) ==
    \/ Quiet
    \/ overlap /\ (p \in Served /\ kind \notin Crowded => \A q \in Served : at[q] = Idle)

\* One request is enough where none overlap.
Begin(p, next) ==
    /\ at[p] = Idle
    /\ CanStart(p)
    /\ p \in Requests /\ ~overlap => p = CHOOSE q \in Requests : TRUE
    /\ at' = [at EXCEPT ![p] = next]
    /\ UNCHANGED <<kind, overlap, rows, failures>>

At(p, pc) == at[p].pc = pc
Goto(p, pc) == at' = [at EXCEPT ![p].pc = pc]
Finish(p) == at' = [at EXCEPT ![p] = Idle]
Fixed == UNCHANGED <<kind, overlap, failures>>
Unwritten == UNCHANGED rows /\ Fixed

OpenCases == {c \in Cases : cse[c] \in {"WAITING", "ESCALATED", "FALSE_ALARM"}}
OpenAlerts == {a \in Checked : alert[a] = "OPEN"}
Latest(S, x) == x \in S /\ \A y \in S : y <= x

\* Row ids are taken in order; Room bounds how often the tourist is lost.
NewRow(f, S, x) == /\ x \in S
                   /\ \A y \in S : f[y] = "NONE" <=> y >= x
Room(f, S) == \E x \in S : f[x] = "NONE" /\ x <= IF overlap THEN MaxRacing ELSE MaxCases

-----------------------------------------------------------------------------
(* The world *)

\* Of a member nobody hears of the radius check says nothing, and just as little
\* where fewer than two members are located; the other two checks call him lost.
WhereTo == IF kind = "SEPARATED" THEN {"FINE", "LOST", "UNKNOWN"} ELSE {"FINE", "LOST"}

Move == /\ trip = "ACTIVE"
        /\ place' \in WhereTo \ {place}
        /\ UNCHANGED <<trip, cse, again, alert, caseOf, asked, told, inc, late, grounds, at>>
        /\ Fixed

\* responseDeadlineAt passes: of a case the leader has not answered, or of an
\* alert somebody was asked about.
Deadline(k) ==
    /\ k \notin late
    /\ \/ kind = "MEMBER" /\ k \in Cases /\ cse[k] = "WAITING"
       \/ kind # "MEMBER" /\ alert[k] = "OPEN" /\ asked[k]
    /\ late' = late \cup {k}
    /\ grounds' = grounds \cup {k}
    /\ UNCHANGED <<trip, place, cse, again, alert, caseOf, asked, told, inc, at>>
    /\ Fixed

\* nextReminderAt passes.
Recheck(c) ==
    /\ cse[c] = "FALSE_ALARM"
    /\ again[c] = "LATER"
    /\ again' = [again EXCEPT ![c] = "NOW"]
    /\ UNCHANGED <<trip, place, cse, alert, caseOf, asked, told, inc, late, grounds, at>>
    /\ Fixed

-----------------------------------------------------------------------------
(* The sweep: it lists the active trips and reads the last location, then  *)
(* the open case or alert, and acts on what it has read.                   *)

\* sweepGroupSeparation passes over a member without a location of the last two
\* minutes, and over a trip with fewer than two who have one.
Located == place # "UNKNOWN"

\* A sweep that passes over the tourist writes nothing.
BeginSweep ==
    /\ trip = "ACTIVE"
    /\ Located
    /\ Begin(Sweeper, [Idle EXCEPT !.pc = "look", !.lost = (place = "LOST")])

LookFor(pc, c, a) ==
    /\ at' = [at EXCEPT ![Sweeper].pc = pc, ![Sweeper].c = c, ![Sweeper].a = a,
                        ![Sweeper].asked = IF a = 0 THEN FALSE ELSE asked[a],
                        ![Sweeper].told = IF a = 0 THEN FALSE ELSE told[a]]
    /\ Unwritten

\* Mutant of DueCase: reminding the leader of a waiting case starts a new window.
RemindFirst(c) ==
    IF cse[c] = "WAITING" \/ (cse[c] = "FALSE_ALARM" /\ again[c] = "NOW")
    THEN "askAgain" ELSE "idle"

\* What the sweep does about an open case of a member who is still lost.
DueCase(c) ==
    IF cse[c] = "WAITING" /\ c \in late THEN "findAlert"
    ELSE IF cse[c] = "FALSE_ALARM" /\ again[c] = "NOW" THEN "askAgain" ELSE "idle"

\* sweepGroupTrips
LookAtCase ==
    /\ At(Sweeper, "look")
    /\ kind = "MEMBER"
    /\ \/ /\ OpenCases = {}
          /\ at[Sweeper].lost /\ Room(cse, Cases)
          /\ LookFor("openCase", 0, 0)
       \/ \E c \in Cases :
            /\ Latest(OpenCases, c)
            /\ LET pc == IF at[Sweeper].lost THEN DueCase(c) ELSE "resolveCase"
               IN  pc # "idle" /\ LookFor(pc, c, 0)
       \/ /\ OpenCases = {} => ~at[Sweeper].lost \/ ~Room(cse, Cases)
          /\ \A c \in Cases : Latest(OpenCases, c) => at[Sweeper].lost /\ DueCase(c) = "idle"
          /\ Finish(Sweeper)
          /\ Unwritten

\* What the sweep does about an open alert of a tourist who is still lost.
DueAlert(a) ==
    IF kind = "SEPARATED" /\ ~asked[a] THEN "ask"
    ELSE IF asked[a] /\ ~told[a] /\ a \in late THEN "linked" ELSE "idle"

\* sweepSoloTrips and sweepGroupSeparation
LookAtAlert ==
    /\ At(Sweeper, "look")
    /\ kind # "MEMBER"
    /\ \/ /\ OpenAlerts = {}
          /\ at[Sweeper].lost /\ Room(alert, Checked)
          /\ LookFor("prompt", 0, 0)
       \/ \E a \in Checked :
            /\ Latest(OpenAlerts, a)
            /\ LET pc == IF at[Sweeper].lost THEN DueAlert(a) ELSE "linked"
               IN  pc # "idle" /\ LookFor(pc, 0, a)
       \/ /\ OpenAlerts = {} => ~at[Sweeper].lost \/ ~Room(alert, Checked)
          /\ \A a \in Checked : Latest(OpenAlerts, a) => at[Sweeper].lost /\ DueAlert(a) = "idle"
          /\ Finish(Sweeper)
          /\ Unwritten

\* Mutant of OpenCase: the new row starts out as answered.
OpenCaseUntyped ==
    \E c \in Cases :
        /\ At(Sweeper, "openCase")
        /\ NewRow(cse, Cases, c)
        /\ cse' = [cse EXCEPT ![c] = "WAITING_FOR_LEADER"]
        /\ Finish(Sweeper)
        /\ UNCHANGED <<trip, place, again, alert, caseOf, asked, told, inc, late, grounds>>
        /\ Fixed

OpenCase ==
    \E c \in Cases :
        /\ At(Sweeper, "openCase")
        /\ NewRow(cse, Cases, c)
        /\ cse' = [cse EXCEPT ![c] = "WAITING"]
        /\ Finish(Sweeper)
        /\ UNCHANGED <<trip, place, again, alert, caseOf, asked, told, inc, late, grounds>>
        /\ Fixed

\* The case goes back to waiting by id, whatever it has become meanwhile.
AskAgain ==
    LET c == at[Sweeper].c
    IN  /\ At(Sweeper, "askAgain")
        /\ cse' = [cse EXCEPT ![c] = "WAITING"]
        /\ again' = [again EXCEPT ![c] = "LATER"]
        /\ late' = late \ {c}
        /\ Finish(Sweeper)
        /\ UNCHANGED <<trip, place, alert, caseOf, asked, told, inc, grounds>>
        /\ Fixed

ResolveCase ==
    /\ At(Sweeper, "resolveCase")
    /\ cse' = [cse EXCEPT ![at[Sweeper].c] = "RESOLVED"]
    /\ Goto(Sweeper, "resolveAlerts")
    /\ UNCHANGED <<trip, place, again, alert, caseOf, asked, told, inc, late, grounds>>
    /\ Fixed

\* resolveAlertByCase
CloseAlerts(c) ==
    alert' = [a \in Alerts |-> IF a # Gap /\ alert[a] = "OPEN" /\ caseOf[a] = c
                               THEN "RESOLVED" ELSE alert[a]]

ResolveAlerts ==
    /\ At(Sweeper, "resolveAlerts")
    /\ CloseAlerts(at[Sweeper].c)
    /\ Finish(Sweeper)
    /\ UNCHANGED <<trip, place, cse, again, caseOf, asked, told, inc, late, grounds>>
    /\ Fixed

\* The solo prompt asks at once; a separated member is warned first, and asked
\* at the second evaluation outside the radius.
Prompt ==
    \E a \in Checked :
        /\ At(Sweeper, "prompt")
        /\ NewRow(alert, Checked, a)
        /\ alert' = [alert EXCEPT ![a] = "OPEN"]
        /\ asked' = [asked EXCEPT ![a] = kind = "SOLO"]
        /\ Finish(Sweeper)
        /\ UNCHANGED <<trip, place, cse, again, caseOf, told, inc, late, grounds>>
        /\ Fixed

\* details is written back as it was read, with the new fields.
Details(p, ask, tell) ==
    /\ asked' = [asked EXCEPT ![at[p].a] = ask]
    /\ told' = [told EXCEPT ![at[p].a] = tell]

Ask ==
    /\ At(Sweeper, "ask")
    /\ Details(Sweeper, TRUE, at[Sweeper].told)
    /\ late' = late \ {at[Sweeper].a}
    /\ Finish(Sweeper)
    /\ UNCHANGED <<trip, place, cse, again, alert, caseOf, inc, grounds>>
    /\ Fixed

\* findIncidentByAlert; a separation is escalated without it.
CheckLinked ==
    LET a == at[Sweeper].a
    IN  /\ At(Sweeper, "linked")
        /\ IF inc[a] # "NONE" /\ (kind = "SOLO" \/ ~at[Sweeper].lost) THEN Finish(Sweeper)
           ELSE Goto(Sweeper, IF at[Sweeper].lost THEN "tell" ELSE "clear")
        /\ Unwritten

\* resolveSoloAlert resolves every open one; a separation is resolved by id.
Clear ==
    /\ At(Sweeper, "clear")
    /\ alert' = [a \in Alerts |->
          IF a = at[Sweeper].a \/ (kind = "SOLO" /\ a \in OpenAlerts) THEN "RESOLVED" ELSE alert[a]]
    /\ IF kind = "SOLO" THEN UNCHANGED <<asked, told>>
       ELSE Details(Sweeper, at[Sweeper].asked, at[Sweeper].told)
    /\ Finish(Sweeper)
    /\ UNCHANGED <<trip, place, cse, again, caseOf, inc, late, grounds>>
    /\ Fixed

Tell ==
    /\ At(Sweeper, "tell")
    /\ Details(Sweeper, at[Sweeper].asked, TRUE)
    /\ Goto(Sweeper, "findIncident")
    /\ UNCHANGED <<trip, place, cse, again, alert, caseOf, inc, late, grounds>>
    /\ Fixed

-----------------------------------------------------------------------------
(* escalateCase and ingestSafetyAlert, by whichever handler p *)

\* Mutant of FindAlert: a resolved alert of the case is passed over.
FindOpenAlert(p) ==
    LET mine == {a \in OpenAlerts : caseOf[a] = at[p].c}
    IN  /\ At(p, "findAlert")
        /\ IF mine = {} THEN Goto(p, "createAlert")
           ELSE \E a \in mine : at' = [at EXCEPT ![p].pc = "findIncident", ![p].a = a]
        /\ Unwritten

\* findAlertByCase, which takes a resolved alert too
FindAlert(p) ==
    LET c == at[p].c
    IN  /\ At(p, "findAlert")
        /\ \/ \E a \in Checked :
                /\ alert[a] # "NONE" /\ caseOf[a] = c
                /\ at' = [at EXCEPT ![p].pc = "findIncident", ![p].a = a]
           \/ /\ \A a \in Checked : ~(alert[a] # "NONE" /\ caseOf[a] = c)
              /\ Goto(p, "createAlert")
        /\ Unwritten

CreateAlert(p) ==
    \E a \in Checked :
        /\ At(p, "createAlert")
        /\ NewRow(alert, Checked, a)
        /\ alert' = [alert EXCEPT ![a] = "OPEN"]
        /\ caseOf' = [caseOf EXCEPT ![a] = at[p].c]
        /\ at' = [at EXCEPT ![p].pc = "findIncident", ![p].a = a]
        /\ UNCHANGED <<trip, place, cse, again, asked, told, inc, late, grounds>>
        /\ Fixed

\* Only a case has a status left to write once the incident is there.
AfterIncident(p) == IF at[p].c # 0 THEN Goto(p, "escalate") ELSE Finish(p)

FindIncident(p) ==
    /\ At(p, "findIncident")
    /\ IF inc[at[p].a] # "NONE" THEN AfterIncident(p) ELSE Goto(p, "createIncident")
    /\ Unwritten

\* Mutant of CreateIncident: the handler goes on although no row was written.
SkipIncident(p) ==
    /\ At(p, "createIncident")
    /\ AfterIncident(p)
    /\ Unwritten

\* sourceSafetyAlertId is unique: the second insert fails and ends the handler.
CreateIncident(p) ==
    LET a == at[p].a
    IN  /\ At(p, "createIncident")
        /\ IF inc[a] = "NONE"
           THEN inc' = [inc EXCEPT ![a] = "OPEN"] /\ AfterIncident(p)
           ELSE Finish(p) /\ UNCHANGED inc
        /\ UNCHANGED <<trip, place, cse, again, alert, caseOf, asked, told, late, grounds>>
        /\ Fixed

Escalate(p) ==
    /\ At(p, "escalate")
    /\ cse' = [cse EXCEPT ![at[p].c] = "ESCALATED"]
    /\ Finish(p)
    /\ UNCHANGED <<trip, place, again, alert, caseOf, asked, told, inc, late, grounds>>
    /\ Fixed

-----------------------------------------------------------------------------
(* Answers *)

\* respond: the leader, about a case that waits.
BeginRespond(r, c, pc) ==
    /\ kind = "MEMBER"
    /\ trip = "ACTIVE"
    /\ cse[c] = "WAITING"
    /\ pc \in {"clearAlerts", "confirm"}
    /\ Begin(r, [Idle EXCEPT !.pc = pc, !.c = c])

\* Mutant of ClearAlerts: the answer is about the case, its alerts are forgotten.
ClearNoAlerts(r) ==
    /\ At(r, "clearAlerts")
    /\ Goto(r, "falseAlarm")
    /\ Unwritten

ClearAlerts(r) ==
    /\ At(r, "clearAlerts")
    /\ CloseAlerts(at[r].c)
    /\ Goto(r, "falseAlarm")
    /\ UNCHANGED <<trip, place, cse, again, caseOf, asked, told, inc, late, grounds>>
    /\ Fixed

FalseAlarm(r) ==
    /\ At(r, "falseAlarm")
    /\ cse' = [cse EXCEPT ![at[r].c] = "FALSE_ALARM"]
    /\ again' = [again EXCEPT ![at[r].c] = "LATER"]
    /\ Finish(r)
    /\ UNCHANGED <<trip, place, alert, caseOf, asked, told, inc, late, grounds>>
    /\ Fixed

\* CONFIRMED_DANGER: leaderResponse and nextReminderAt now, the status with Escalate.
Confirm(r) ==
    /\ At(r, "confirm")
    /\ again' = [again EXCEPT ![at[r].c] = "NEVER"]
    /\ grounds' = grounds \cup {at[r].c}
    /\ Goto(r, "findAlert")
    /\ UNCHANGED <<trip, place, cse, alert, caseOf, asked, told, inc, late>>
    /\ Fixed

\* respondSolo and respondSeparation: refused once there is an incident, but not
\* because the alert is resolved; only the former looks at the trip.
BeginAnswer(r, a, pc) ==
    /\ kind # "MEMBER"
    /\ kind = "SOLO" => trip = "ACTIVE"
    /\ alert[a] # "NONE"
    /\ inc[a] = "NONE"
    /\ pc \in {"safe", "help"}
    /\ Begin(r, [Idle EXCEPT !.pc = pc, !.a = a, !.asked = asked[a], !.told = told[a]])

Safe(r) ==
    /\ At(r, "safe")
    /\ alert' = [alert EXCEPT ![at[r].a] = "RESOLVED"]
    /\ Details(r, at[r].asked, at[r].told)
    /\ Finish(r)
    /\ UNCHANGED <<trip, place, cse, again, caseOf, inc, late, grounds>>
    /\ Fixed

Help(r) ==
    /\ At(r, "help")
    /\ Details(r, at[r].asked, TRUE)
    /\ grounds' = grounds \cup {at[r].a}
    /\ Goto(r, "findIncident")
    /\ UNCHANGED <<trip, place, cse, again, alert, caseOf, inc, late>>
    /\ Fixed

-----------------------------------------------------------------------------
(* Others who write alerts and incidents *)

\* alertService.resolve and acknowledge by the tourist: both write by id.
BeginAlert(r, a, pc) ==
    /\ alert[a] = "OPEN"
    /\ pc \in {"resolveAlert", "acknowledge"}
    /\ Begin(r, [Idle EXCEPT !.pc = pc, !.a = a])

ResolveAlert(r) ==
    LET a == at[r].a
    IN  /\ At(r, "resolveAlert")
        /\ alert' = [alert EXCEPT ![a] = "RESOLVED"]
        /\ inc' = [inc EXCEPT ![a] = IF @ = "OPEN" THEN "RESOLVED" ELSE @]
        /\ Finish(r)
        /\ UNCHANGED <<trip, place, cse, again, caseOf, asked, told, late, grounds>>
        /\ Fixed

Acknowledge(r) ==
    /\ At(r, "acknowledge")
    /\ alert' = [alert EXCEPT ![at[r].a] = "OPEN"]
    /\ Finish(r)
    /\ UNCHANGED <<trip, place, cse, again, caseOf, asked, told, inc, late, grounds>>
    /\ Fixed

\* acknowledge, start, resolve and dismiss of an incident by staff, by id
BeginStaff(r, a, to) ==
    /\ inc[a] = "OPEN"
    /\ to \in {"OPEN", "RESOLVED", "DISMISSED"}
    /\ Begin(r, [Idle EXCEPT !.pc = "staff", !.a = a, !.to = to])

Staff(r) ==
    /\ At(r, "staff")
    /\ inc' = [inc EXCEPT ![at[r].a] = at[r].to]
    /\ Finish(r)
    /\ UNCHANGED <<trip, place, cse, again, alert, caseOf, asked, told, late, grounds>>
    /\ Fixed

\* monitoring's evaluate, as far as the tracking gap of a member goes; one row.
BeginEvaluate(r) ==
    /\ trip = "ACTIVE"
    /\ kind = "MEMBER" /\ overlap \in Monitored /\ failures = 0
    /\ IF place = "LOST" THEN alert[Gap] = "NONE" ELSE alert[Gap] = "OPEN"
    /\ Begin(r, [Idle EXCEPT !.pc = "evaluate",
                             !.to = IF place = "LOST" THEN "OPEN" ELSE "RESOLVED"])

Evaluate(r) ==
    /\ At(r, "evaluate")
    /\ alert' = [alert EXCEPT ![Gap] =
          IF @ = IF at[r].to = "OPEN" THEN "NONE" ELSE "OPEN" THEN at[r].to ELSE @]
    /\ Finish(r)
    /\ UNCHANGED <<trip, place, cse, again, caseOf, asked, told, inc, late, grounds>>
    /\ Fixed

-----------------------------------------------------------------------------
(* syncSafetyAlertIncidents, run whenever a disaster manager lists the     *)
(* queue: the alerts are read, then the trips, then the incidents.         *)

\* Mutant of Reportable: a check that waits for an answer is reported too.
ReportableAtOnce(a) == alert[a] = "OPEN"

\* An open alert that does not wait for anybody's confirmation.
Reportable(a) ==
    alert[a] = "OPEN" /\ (kind = "MEMBER" \/ told[a])

BeginSync ==
    LET made == {a \in Alerts : alert[a] # "NONE"}
        open == {a \in made : Reportable(a)}
    IN  /\ made # {}
        /\ Begin(Desk, [Idle EXCEPT !.pc = "readTrip", !.make = open, !.shut = made \ open])

SyncTrip ==
    /\ At(Desk, "readTrip")
    /\ at' = [at EXCEPT ![Desk].pc = "readIncidents",
                        ![Desk].make = IF trip = "ACTIVE" THEN @ ELSE {},
                        ![Desk].shut = IF trip = "ACTIVE" THEN @ ELSE @ \cup at[Desk].make]
    /\ Unwritten

SyncIncidents ==
    /\ At(Desk, "readIncidents")
    /\ at' = [at EXCEPT ![Desk].pc = "sync",
                        ![Desk].make = {a \in @ : inc[a] = "NONE"},
                        ![Desk].shut = {a \in @ : inc[a] = "OPEN"}]
    /\ Unwritten

\* Mutant of SyncMake: only the monitor's alert is picked up.
SyncGapOnly(a) ==
    /\ a \in at[Desk].make
    /\ at' = [at EXCEPT ![Desk].make = @ \ {a}]
    /\ inc' = [inc EXCEPT ![a] = IF a = Gap /\ @ = "NONE" THEN "OPEN" ELSE @]

\* A row that exists by now breaks the unique key, and with it the whole sync.
SyncMake(a) ==
    /\ a \in at[Desk].make
    /\ IF inc[a] = "NONE"
       THEN inc' = [inc EXCEPT ![a] = "OPEN"] /\ at' = [at EXCEPT ![Desk].make = @ \ {a}]
       ELSE Finish(Desk) /\ UNCHANGED inc

SyncShut(a) ==
    /\ a \in at[Desk].shut
    /\ at' = [at EXCEPT ![Desk].shut = @ \ {a}]
    /\ inc' = [inc EXCEPT ![a] = "RESOLVED"]

Sync ==
    /\ At(Desk, "sync")
    /\ \/ \E a \in Alerts : SyncMake(a) \/ SyncShut(a)
       \/ at[Desk].make \cup at[Desk].shut = {} /\ Finish(Desk) /\ UNCHANGED inc
    /\ UNCHANGED <<trip, place, cse, again, alert, caseOf, asked, told, late, grounds>>
    /\ Fixed

-----------------------------------------------------------------------------
(* The end of the trip, and processEndedSafetyState for what was left open *)

BeginEnd ==
    /\ trip = "ACTIVE"
    /\ Begin(Lifecycle, [Idle EXCEPT !.pc = "expire", !.to = "ENDED"])

LeftOpen == OpenCases # {} \/ \E a \in Alerts : "OPEN" \in {alert[a], inc[a]}

BeginReconcile ==
    /\ trip = "ENDED"
    /\ LeftOpen
    /\ Begin(Lifecycle, [Idle EXCEPT !.pc = "expire"])

\* expireSafetyState
Expire ==
    /\ At(Lifecycle, "expire")
    /\ alert' = [a \in Alerts |-> IF alert[a] = "OPEN" THEN "RESOLVED" ELSE alert[a]]
    /\ inc' = [a \in Alerts |-> IF inc[a] = "OPEN" THEN "DISMISSED" ELSE inc[a]]
    /\ cse' = [c \in Cases |-> IF c \in OpenCases THEN "RESOLVED" ELSE cse[c]]
    /\ IF at[Lifecycle].to = "ENDED" THEN Goto(Lifecycle, "end") ELSE Finish(Lifecycle)
    /\ UNCHANGED <<trip, place, again, caseOf, asked, told, late, grounds>>
    /\ Fixed

EndTrip ==
    /\ At(Lifecycle, "end")
    /\ trip' = "ENDED"
    /\ Finish(Lifecycle)
    /\ UNCHANGED <<place, cse, again, alert, caseOf, asked, told, inc, late, grounds>>
    /\ Fixed

-----------------------------------------------------------------------------
(* A query fails and ends its handler, or the process restarts. *)

Fail(p) ==
    /\ overlap \in Failing /\ alert[Gap] = "NONE"
    /\ failures < MaxFailures
    /\ at[p] # Idle
    /\ \/ Finish(p)
       \/ at' = [q \in Actors |-> Idle]
    /\ failures' = failures + 1
    /\ UNCHANGED <<kind, overlap, rows>>

-----------------------------------------------------------------------------
BeginRequest(r) ==
    \/ \E c \in Cases, pc \in {"clearAlerts", "confirm"} : BeginRespond(r, c, pc)
    \/ \E a \in Checked, pc \in {"safe", "help"} : BeginAnswer(r, a, pc)
    \/ \E a \in Alerts, pc \in {"resolveAlert", "acknowledge"} : BeginAlert(r, a, pc)
    \/ \E a \in Alerts, to \in {"OPEN", "RESOLVED", "DISMISSED"} : BeginStaff(r, a, to)
    \/ BeginEvaluate(r)

RequestStep(r) ==
    \/ ClearAlerts(r) \/ FalseAlarm(r) \/ Confirm(r)
    \/ Safe(r) \/ Help(r)
    \/ ResolveAlert(r) \/ Acknowledge(r) \/ Staff(r) \/ Evaluate(r)

DeskStep == SyncTrip \/ SyncIncidents \/ Sync

EscalateStep(p) ==
    FindAlert(p) \/ CreateAlert(p) \/ FindIncident(p) \/ CreateIncident(p) \/ Escalate(p)

SweepStep ==
    \/ LookAtCase \/ LookAtAlert
    \/ OpenCase \/ AskAgain \/ ResolveCase \/ ResolveAlerts
    \/ Prompt \/ Ask \/ CheckLinked \/ Clear \/ Tell

Next ==
    \/ Move
    \/ \E k \in Checked : Deadline(k)
    \/ \E c \in Cases : Recheck(c)
    \/ BeginSweep
    \/ SweepStep
    \/ \E r \in Requests : BeginRequest(r) \/ RequestStep(r)
    \/ \E p \in Actors : EscalateStep(p) \/ Fail(p)
    \/ BeginSync
    \/ DeskStep
    \/ BeginEnd
    \/ BeginReconcile
    \/ Expire
    \/ EndTrip

\* cron starts the sweep and the lifecycle job again and again, started handlers
\* go on and time passes; nobody has to answer, and no trip has to end.
SweepFairness ==
    /\ WF_vars(BeginSweep)
    /\ WF_vars(SweepStep \/ EscalateStep(Sweeper))
    /\ WF_vars(BeginReconcile)
    /\ WF_vars(Expire \/ EndTrip)
    /\ \A k \in Checked : WF_vars(Deadline(k))

Spec == Init /\ [][Next]_vars
FairSpec == Spec /\ SweepFairness

-----------------------------------------------------------------------------
(* Properties *)

Places == {"idle", "look", "openCase", "askAgain", "resolveCase", "resolveAlerts",
           "prompt", "ask", "linked", "clear", "tell", "findAlert", "createAlert",
           "findIncident", "createIncident", "escalate", "clearAlerts", "falseAlarm",
           "confirm", "safe", "help", "resolveAlert", "acknowledge", "staff",
           "evaluate", "readTrip", "readIncidents", "sync", "expire", "end"}

Handler == [pc : Places,
            c : {0} \cup Cases, a : Alerts,
            to : {"NONE", "OPEN", "RESOLVED", "DISMISSED", "ENDED"},
            lost : BOOLEAN, asked : BOOLEAN, told : BOOLEAN,
            make : SUBSET Alerts, shut : SUBSET Alerts]

\* Every row holds a value of its column's enum, every handler an id of its kind.
TypeOK ==
    /\ kind \in Kinds
    /\ overlap \in BOOLEAN
    /\ trip \in {"ACTIVE", "ENDED"}
    /\ place \in {"FINE", "LOST", "UNKNOWN"}
    /\ cse \in [Cases -> {"NONE", "WAITING", "ESCALATED", "FALSE_ALARM", "RESOLVED"}]
    /\ again \in [Cases -> {"LATER", "NOW", "NEVER"}]
    /\ alert \in [Alerts -> {"NONE", "OPEN", "RESOLVED"}]
    /\ caseOf \in [Checked -> {0} \cup Cases]
    /\ asked \in [Checked -> BOOLEAN]
    /\ told \in [Checked -> BOOLEAN]
    /\ inc \in [Alerts -> {"NONE", "OPEN", "RESOLVED", "DISMISSED"}]
    /\ late \subseteq Checked
    /\ grounds \subseteq Checked
    /\ at \in [Actors -> Handler]
    /\ failures \in 0..MaxFailures

\* A case counts as escalated only once disaster management has an incident for
\* it, however the leader's answer, the sweep, the queue and failures interleave.
EscalatedHasIncident ==
    \A c \in Cases : cse[c] = "ESCALATED" =>
        \E a \in Checked : alert[a] # "NONE" /\ caseOf[a] = c /\ inc[a] # "NONE"

\* Nobody is reported to disaster management by a check before the deadline has
\* passed or somebody has said that there is danger: not by a late answer, and
\* not by the queue, which turns open alerts into incidents by itself.
CheckOf(a) == IF kind = "MEMBER" THEN caseOf[a] ELSE a
EscalationEarned ==
    \A a \in Checked : inc[a] # "NONE" => CheckOf(a) \in grounds

Serial == ~overlap

\* One loss raises one alarm: the leader's confirmation and the sweep find the
\* alert the other has made.
OneAlarmPerLoss ==
    Serial => \A a, b \in Checked :
        (alert[a] # "NONE" /\ alert[b] # "NONE" /\ caseOf[a] = caseOf[b] /\ kind = "MEMBER") => a = b

\* A leader's FALSE_ALARM leaves no alert of the case open, also when an escalation
\* had stopped half-way and the answer came before the next try.  And unless the
\* sweep that closes a case is cut short, an alert stays open, once nobody is at
\* work, only while its case is escalated: a member's return resolves both.
AnsweredIsSettled ==
    Serial /\ kind = "MEMBER" => \A a \in OpenAlerts :
        /\ cse[caseOf[a]] # "FALSE_ALARM"
        /\ Quiet /\ failures = 0 => cse[caseOf[a]] = "ESCALATED"

\* Whoever lists the queue sees what was escalated: when the sync is through,
\* every reportable alert of an active trip has its incident, and no incident
\* stays open without one.
QueueFresh ==
    \A a \in Alerts :
        /\ trip = "ACTIVE" /\ Reportable(a) => inc[a] # "NONE"
        /\ inc[a] = "OPEN" => trip = "ACTIVE" /\ Reportable(a)
DeskSeesEscalations ==
    [][(Serial /\ At(Desk, "sync") /\ at'[Desk] = Idle /\ failures' = failures)
            => QueueFresh']_vars

\* A check never stays unanswered: a case that waits for the leader, or a tourist
\* who was asked and is known to be still lost, ends with an answer, the tourist's
\* return, the end of the trip or an incident.  Of a separated member this is said
\* only as long as he stays located: the sweep passes over one who is not, and what
\* was asked about him stays open until somebody answers, he is located again or the
\* trip ends.
Pending ==
    IF kind = "MEMBER" THEN \E c \in Cases : cse[c] = "WAITING"
    ELSE /\ place = "LOST"
         /\ OpenAlerts # {}
         /\ \A a \in OpenAlerts : ~told[a] /\ inc[a] = "NONE"
EveryCheckConcludes == (overlap /\ Pending) ~> ~Pending
=============================================================================
