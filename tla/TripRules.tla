------------------------------- MODULE TripRules -------------------------------
(***************************************************************************)
(* What the trip and group documentation promises a tourist, without       *)
(* requests or queries: a party is gathered while the trip is planned,     *)
(* sealed, taken on the trip and dissolved at its end, and nobody belongs  *)
(* to two open trips.  Once strict is FALSE nothing is promised: the       *)
(* program keeps the rules for requests served one after the other.        *)
(***************************************************************************)
EXTENDS FiniteSets, Naturals

CONSTANTS Trips, Groups, Users, None

VARIABLES
    phase,      \* [Trips -> {"NONE", "PLANNED", "ACTIVE", "ENDED"}]
    party,      \* [Trips -> the tourists on the trip]
    leader,     \* [Trips -> the tourist who planned it]
    sealed,     \* the trips whose party is fixed
    strict

rvars == <<phase, party, leader, sealed, strict>>

Open == {t \in Trips : phase[t] \in {"PLANNED", "ACTIVE"}}
Free(u) == \A t \in Open : u \notin party[t]

Init == /\ phase = [t \in Trips |-> "NONE"]
        /\ party = [t \in Trips |-> {}]
        /\ sealed = {}
        /\ leader = [t \in Trips |-> None]
        /\ strict \in BOOLEAN

Plan(t, u) == /\ phase[t] = "NONE"
              /\ Free(u)
              /\ phase' = [phase EXCEPT ![t] = "PLANNED"]
              /\ party' = [party EXCEPT ![t] = {u}]
              /\ leader' = [leader EXCEPT ![t] = u]
              /\ UNCHANGED sealed

Admit(t, u) == /\ phase[t] = "PLANNED"
               /\ t \in Groups \ sealed
               /\ Free(u)
               /\ party' = [party EXCEPT ![t] = @ \cup {u}]
               /\ UNCHANGED <<phase, leader, sealed>>

\* A member may go at any time before the end, the leader may not.
Part(t, u) == /\ t \in Open
              /\ u \in party[t] \ {leader[t]}
              /\ party' = [party EXCEPT ![t] = @ \ {u}]
              /\ UNCHANGED <<phase, leader, sealed>>

Seal(t) == /\ phase[t] = "PLANNED"
           /\ Cardinality(party[t]) >= 2
           /\ sealed' = sealed \cup {t}
           /\ UNCHANGED <<phase, party, leader>>

\* A group sets out sealed and not alone.
Begin(t) == /\ phase[t] = "PLANNED"
            /\ t \in Groups => t \in sealed /\ Cardinality(party[t]) >= 2
            /\ phase' = [phase EXCEPT ![t] = "ACTIVE"]
            /\ UNCHANGED <<party, leader, sealed>>

End(t) == /\ t \in Open
          /\ phase' = [phase EXCEPT ![t] = "ENDED"]
          /\ UNCHANGED <<party, leader, sealed>>

Rules == /\ \E t \in Trips :
               \/ \E u \in Users : Plan(t, u) \/ Admit(t, u) \/ Part(t, u)
               \/ Seal(t) \/ Begin(t) \/ End(t)
         /\ UNCHANGED strict

Spec == Init /\ [][strict => Rules]_rvars
=============================================================================
