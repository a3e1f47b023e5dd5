\* One group trip and one trip alone, two tourists, two requests and the job.
SPECIFICATION FairSpec
CONSTANTS
    None = None
    Group = Group
    Trips = {t1,t2}
    Users = {u1,u2}
    GroupTrips = {t1}
    Requests = {r1,r2}
    RacingTrips = {t1}
    Failing = {FALSE}
    MaxFailures = 1
CHECK_DEADLOCK FALSE
INVARIANTS
    TypeOK
    StartedGroupIsLocked
    GroupKeepsLeader
    OneOpenTrip
    NothingOutlivesTrip
    CredentialFollowsMembership
    LockAnswersEverybody
PROPERTIES
    ExpiredTripsEnd
    KeepsRules
