\* A group credential: late gateway calls, restarts.
SPECIFICATION Spec
CONSTANTS
    None = None
    Kind = "GROUP"
    Hashes = {h1}
    Jobs = {1, 2, 3, 4}
    Payloads = {1, 2, 3, 4}
    Expiries = {1, 2}
    Workers = {w1}
    Requests = {r1}
    Calls = {c1, c2}
    MaxAttempts = 2
    MaxFaults = 1
CHECK_DEADLOCK FALSE
SYMMETRY Symmetric
INVARIANTS
    TypeOK
    ConfirmedIsAnchored
    SnapshotsInOrder
    RevokedHereFirst
    ConfirmedIsIssued
PROPERTIES
    HistoryPreserved
