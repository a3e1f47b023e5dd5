\* Two assignments that overlap both find the unit available.
SPECIFICATION Spec
CONSTANTS
    t1 = t1
    police = police
    fire = fire
    u3 = u3
    None = None
    Trips = {t1}
    Incidents = {i1}
    Units = {u1}
    Dispatches = {d1,d2}
    Types = {police}
    TripOf <- TheTrip
    TypeOf <- TwoTypes
    Requests = {r1,r2}
    Enders = {}
    Job = job
    AdminMoves <- ParkingMoves
    Overlap = TRUE
    MaxFailures = 0
CHECK_DEADLOCK FALSE
INVARIANTS
    UnitServesOne
