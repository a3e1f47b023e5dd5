---------------------------- MODULE ResponseBoard ----------------------------
(***************************************************************************)
(* What the dispatch documentation promises of the fleet, without requests,*)
(* queries or timestamps: a dispatch is waiting, responding or closed, a   *)
(* unit serves at most one dispatch, a closed dispatch stays closed and    *)
(* gives its unit back in the same step.                                   *)
(***************************************************************************)
CONSTANTS Dispatches, Units, None

VARIABLES
    phase,      \* [Dispatches -> {"absent", "waiting", "responding", "closed"}]
    serving     \* [Units -> the dispatch the unit serves, or None]

bvars == <<phase, serving>>

Init == /\ phase = [d \in Dispatches |-> "absent"]
        /\ serving = [u \in Units |-> None]

Ask(d) == /\ phase[d] = "absent"
          /\ phase' = [phase EXCEPT ![d] = "waiting"]
          /\ UNCHANGED serving

\* A free unit is committed to a dispatch that has none.
Commit(d, u) == /\ phase[d] \in {"absent", "waiting"}
                /\ serving[u] = None
                /\ phase' = [phase EXCEPT ![d] = "responding"]
                /\ serving' = [serving EXCEPT ![u] = d]

\* A dispatch is completed or cancelled; the end of a trip closes several.
Close(ds) == /\ \A d \in ds : phase[d] \in {"waiting", "responding"}
             /\ phase' = [d \in Dispatches |-> IF d \in ds THEN "closed" ELSE phase[d]]
             /\ serving' = [u \in Units |-> IF serving[u] \in ds THEN None ELSE serving[u]]

Next == \/ \E d \in Dispatches : Ask(d)
        \/ \E d \in Dispatches, u \in Units : Commit(d, u)
        \/ \E ds \in (SUBSET Dispatches) \ {{}} : Close(ds)

Spec == Init /\ [][Next]_bvars
=============================================================================
