\* An individual credential, revoked and issued again: no job is tried for ever.
SPECIFICATION FairSpec
CONSTANTS
    None = None
    Kind = "INDIVIDUAL"
    Hashes = {h1, h2}
    Jobs = {1, 2}
    Payloads = {1, 2}
    Expiries = {1, 2}
    Workers = {w1}
    Requests = {r1}
    Calls = {c1, c2}
    MaxAttempts = 2
    MaxFaults = 1
CHECK_DEADLOCK FALSE
INVARIANTS
    ConfirmedIsAnchored
    RevokedHereFirst
PROPERTIES
    JobsSettle
