\* Three points, a check-in, a zone that is switched; two requests.
SPECIFICATION Spec
CONSTANTS
    Requests = {r1, r2}
    MaxTime = 3
    MaxRacing = 2
    MaxAlerts = 4
    Failing = {FALSE}
    MaxFailures = 1
INVARIANTS
    TypeOK
    NewestIsLatest
    AlarmsAreReported
    CacheIsFresh
PROPERTIES
    AlarmsFollowReports
