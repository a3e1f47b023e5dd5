\* Overlapping requests and trip end over one dispatch and two units of different types.
SPECIFICATION Spec
CONSTANTS
    t1 = t1
    police = police
    fire = fire
    u3 = u3
    None = None
    Trips = {t1}
    Incidents = {i1}
    Units = {u1,u3}
    Dispatches = {d1}
    Types = {police,fire}
    TripOf <- TheTrip
    TypeOf <- TwoTypes
    Requests = {r1,r2}
    Enders = {}
    Job = job
    AdminMoves <- FreeByHand
    Overlap = TRUE
    MaxFailures = 0
CHECK_DEADLOCK FALSE
SYMMETRY Symmetric
INVARIANTS
    TypeOK
    NoStageSkipped
    RespondingHasUnit
    HandlersRemember
    FleetResolutionEarned
