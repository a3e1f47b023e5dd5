\* The job closes the incidents of ended trips, under overlap and failures.
SPECIFICATION FairSpec
CONSTANTS
    t1 = t1
    police = police
    fire = fire
    u3 = u3
    None = None
    Trips = {t1}
    Incidents = {i1}
    Units = {u1}
    Dispatches = {d1}
    Types = {police}
    TripOf <- TheTrip
    TypeOf <- TwoTypes
    Requests = {r1}
    Enders = {e1}
    Job = job
    AdminMoves <- FreeByHand
    Overlap = TRUE
    MaxFailures = 1
CHECK_DEADLOCK FALSE
PROPERTIES
    EndedIncidentsClose
