\* The three checks: one request, the queue, the sweep and the end of the trip.
SPECIFICATION FairSpec
CONSTANTS
    Kinds = {"MEMBER", "SOLO", "SEPARATED"}
    Requests = {r1}
    Desk = Desk
    Sweeper = Sweeper
    Lifecycle = Lifecycle
    MaxCases = 2
    MaxRacing = 1
    MaxAlerts = 2
    Crowded = {"SOLO", "SEPARATED"}
    Monitored = {FALSE}
    Failing = {FALSE}
    MaxFailures = 1
CHECK_DEADLOCK FALSE
INVARIANTS
    TypeOK
    EscalatedHasIncident
    EscalationEarned
    OneAlarmPerLoss
    AnsweredIsSettled
PROPERTIES
    DeskSeesEscalations
    EveryCheckConcludes
