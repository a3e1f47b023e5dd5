--------------------------- MODULE MCFleetDispatch ---------------------------
(* Finite instances of FleetDispatch for TLC. *)
EXTENDS FleetDispatch, TLC

CONSTANTS t1, police, fire, u3

\* One trip, one type of unit: every incident and unit may meet every other.
TheTrip == [i \in Incidents |-> t1]
\* One unit of another type; the rest can stand in for each other.
TwoTypes == [u \in Units |-> IF u = u3 THEN fire ELSE police]

\* The administrator may set any status.
AnyMove == UnitStatus \X UnitStatus
\* The administrator frees units by hand, ones that serve too.
FreeByHand == {<<"DISPATCHED", "AVAILABLE">>}
\* The administrator only parks idle units and brings parked ones back.
ParkingMoves == {<<"AVAILABLE", "OUT_OF_SERVICE">>, <<"OUT_OF_SERVICE", "AVAILABLE">>}

Symmetric == Permutations(Requests) \cup Permutations(Dispatches) \cup Permutations(Units \ {u3})
=============================================================================
