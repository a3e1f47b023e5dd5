\* One handler at a time: a dispatch whose incident staff closed outlives its trip.
SPECIFICATION Spec
CONSTANTS
    t1 = t1
    police = police
    fire = fire
    u3 = u3
    None = None
    Trips = {t1}
    Incidents = {i1,i2}
    Units = {u1,u2}
    Dispatches = {d1,d2}
    Types = {police}
    TripOf <- TheTrip
    TypeOf <- TwoTypes
    Requests = {r1}
    Enders = {e1}
    Job = job
    AdminMoves <- ParkingMoves
    Overlap = FALSE
    MaxFailures = 0
CHECK_DEADLOCK FALSE
INVARIANTS
    EndedTripStandsDown
