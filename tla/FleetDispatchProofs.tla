------------------------- MODULE FleetDispatchProofs -------------------------
(***************************************************************************)
(* The safety invariants of FleetDispatch, for every set of rows, requests *)
(* and failures.  The argument: rows only grow (a stage, once stamped,     *)
(* stays stamped; a row keeps its incident, its type and the fact that it  *)
(* has a unit), so what a handler read before an await is still true of    *)
(* the row it writes afterwards.                                           *)
(***************************************************************************)
EXTENDS FleetDispatch, TLAPS

IInv == /\ TypeOK
        /\ NoStageSkipped
        /\ RespondingHasUnit
        /\ HandlersRemember
        /\ FleetResolutionEarned

\* What every step does to the dispatch rows other than the one handler r inserts.
Grow(r) ==
    \A d \in Dispatches :
        /\ status[d] # "NONE" =>
              /\ status'[d] # "NONE"
              /\ stamped[d] \subseteq stamped'[d]
              /\ incOf'[d] = incOf[d]
              /\ wanted'[d] = wanted[d]
              /\ unitOf[d] # None => unitOf'[d] # None
        /\ (status[d] = "NONE" /\ status'[d] # "NONE") => req[r].d = d

\* The statuses are distinct strings and the stages are the ones the timeline orders.
LEMMA Stages5 ==
    /\ \A s \in Stages : Earlier(s) \subseteq Stages /\ s # "NONE" /\ s # "CANCELLED"
    /\ Earlier("ASSIGNED") = {}
    /\ \A s \in DispatchStatus : NEXT[s] # "NONE" =>
          /\ NEXT[s] \in Stages \ {"ASSIGNED"}
          /\ s \in Stages
          /\ Earlier(NEXT[s]) = Earlier(s) \cup {s}
    /\ Earlier("COMPLETED") \cup {"COMPLETED"} = Stages
  BY DEF Earlier, Stages, Timeline, NEXT, DispatchStatus

\* A handler keeps remembering correctly while another one, r, writes.
LEMMA OthersRemember ==
    ASSUME IInv, NEW r \in Requests, NEW p \in Requests \ {r},
           Grow(r), req'[p] = req[p],
           \/ req'[r].d = req[r].d
           \/ req'[r].d = None
           \/ req'[r].d \in Dispatches /\ status[req'[r].d] # "NONE"
           \/ req'[r].d # req[p].d,
           \A q \in Requests \ {r} : req'[q] = req[q]
    PROVE  Remembers(p)'
  <1>1. Remembers(p) /\ req[p] \in Request /\ req[r] \in Request
    BY DEF IInv, HandlersRemember, TypeOK
  <1>2. ASSUME req[p].d \in Dispatches, status[req[p].d] = "NONE",
               \A q \in Requests \ {p} : req[q].d # req[p].d
        PROVE  /\ status'[req[p].d] = "NONE"
               /\ \A q \in Requests \ {p} : req'[q].d # req[p].d
    BY <1>2, <1>1, FleetAssumption DEF Grow
  <1> QED
    BY <1>1, <1>2 DEF Remembers, Grow, Request

\* Once a dispatch is completed its whole timeline is stamped, and it stays so.
LEMMA EarnedStays ==
    ASSUME IInv, NEW i \in Incidents, closer[i] = "FLEET",
           \A d \in Dispatches : status[d] # "NONE" =>
               stamped[d] \subseteq stamped'[d] /\ incOf'[d] = incOf[d]
    PROVE  \E d \in Dispatches : incOf'[d] = i /\ Stages \subseteq stamped'[d]
  <1>1. PICK d \in Dispatches : incOf[d] = i /\ Stages \subseteq stamped[d]
    BY DEF IInv, FleetResolutionEarned
  <1>2. status[d] # "NONE"
    BY <1>1 DEF IInv, HandlersRemember, RowsComplete, Stages
  <1> QED
    BY <1>1, <1>2

\* The invariant survives a step of handler r when the row invariants and r's own
\* memory do.
LEMMA HandlerStep ==
    ASSUME IInv, NEW r \in Requests, Grow(r),
           TypeOK', RowsComplete', NoStageSkipped', RespondingHasUnit', Remembers(r)',
           \A q \in Requests \ {r} : req'[q] = req[q], cln' = cln,
           \/ req'[r].d = req[r].d
           \/ req'[r].d = None
           \/ req'[r].d \in Dispatches /\ status[req'[r].d] # "NONE"
           \/ \A q \in Requests \ {r} : req'[r].d # req[q].d,
           \A i \in Incidents : closer'[i] = "FLEET" =>
               \/ closer[i] = "FLEET"
               \/ \E d \in Dispatches : incOf'[d] = i /\ Stages \subseteq stamped'[d]
    PROVE  IInv'
  <1>1. ASSUME NEW p \in Requests \ {r} PROVE Remembers(p)'
    BY <1>1, OthersRemember
  <1>2. HandlersRemember'
    BY <1>1 DEF HandlersRemember, IInv, TypeOK, Cleaning, Grow
  <1>3. FleetResolutionEarned'
    BY EarnedStays DEF FleetResolutionEarned, Grow
  <1> QED
    BY <1>2, <1>3 DEF IInv

\* A step that only changes what handler r remembers.
LEMMA MemoryStep ==
    ASSUME IInv, NEW r \in Requests, NEW n \in Request,
           req' = [req EXCEPT ![r] = n], UNCHANGED <<rows, cln, failures>>,
           Remembers(r)',
           \/ n.d = req[r].d
           \/ n.d = None
           \/ n.d \in Dispatches /\ status[n.d] # "NONE"
           \/ \A q \in Requests \ {r} : n.d # req[q].d
    PROVE  IInv'
  <1>1. TypeOK'
    BY DEF IInv, TypeOK, rows
  <1>2. Grow(r) /\ RowsComplete' /\ NoStageSkipped' /\ RespondingHasUnit'
    BY DEF IInv, Grow, HandlersRemember, RowsComplete, NoStageSkipped, RespondingHasUnit, rows
  <1>3. req'[r] = n /\ \A q \in Requests \ {r} : req'[q] = req[q]
    BY DEF IInv, TypeOK
  <1>4. closer' = closer /\ cln' = cln
    BY DEF rows
  <1> QED
    BY <1>1, <1>2, <1>3, <1>4, HandlerStep

\* A handler that finishes, or fails, forgets.
LEMMA IdleRemembers ==
    ASSUME NEW r \in Requests, req'[r] = Idle
    PROVE  Remembers(r)'
  BY DEF Remembers, Idle

LEMMA IdleRequest == Idle \in Request
  BY DEF Idle, Request, IncidentStatus

-----------------------------------------------------------------------------
(* The handlers' first steps *)

LEMMA BeginRaiseStep ==
    ASSUME IInv, NEW r \in Requests, NEW i \in Incidents, BeginRaise(r, i)
    PROVE  IInv'
  <1> DEFINE n == [Idle EXCEPT !.pc = "raise", !.i = i]
  <1>1. n \in Request /\ n.d = None /\ n.pc = "raise" /\ n.i = i
    BY DEF Idle, Request, IncidentStatus
  <1>2. req' = [req EXCEPT ![r] = n] /\ UNCHANGED <<rows, cln, failures>>
    BY DEF BeginRaise, Start, Reading
  <1>3. req'[r] = n
    BY <1>2 DEF IInv, TypeOK
  <1>4. Remembers(r)'
    BY <1>1, <1>3 DEF Remembers
  <1> QED
    BY <1>1, <1>2, <1>4, MemoryStep

LEMMA BeginIncidentStep ==
    ASSUME IInv, NEW r \in Requests, NEW i \in Incidents, NEW to \in IncidentStatus, BeginIncident(r, i, to)
    PROVE  IInv'
  <1> DEFINE n == [Idle EXCEPT !.pc = "incident", !.i = i, !.to = to]
  <1>1. n \in Request /\ n.d = None /\ n.pc = "incident" /\ n.i = i /\ n.to = to
    BY DEF BeginIncident, Idle, Request, IncidentStatus, DispatchStatus, Stages, UnitStatus
  <1>2. req' = [req EXCEPT ![r] = n] /\ UNCHANGED <<rows, cln, failures>>
    BY DEF BeginIncident, Start, Reading
  <1>3. req'[r] = n /\ UNCHANGED <<rows>>
    BY <1>2 DEF IInv, TypeOK
  <1>4. Remembers(r)'
    BY <1>1, <1>3 DEF Remembers
  <1> QED
    BY <1>1, <1>2, <1>4, MemoryStep

LEMMA BeginSetUnitStatusStep ==
    ASSUME IInv, NEW r \in Requests, NEW u \in Units, NEW to \in UnitStatus, BeginSetUnitStatus(r, u, to)
    PROVE  IInv'
  <1> DEFINE n == [Idle EXCEPT !.pc = "setUnit", !.u = u, !.to = to]
  <1>1. n \in Request /\ n.d = None /\ n.pc = "setUnit" /\ n.u = u /\ n.to = to
    BY DEF BeginSetUnitStatus, Idle, Request, IncidentStatus, DispatchStatus, Stages, UnitStatus
  <1>2. req' = [req EXCEPT ![r] = n] /\ UNCHANGED <<rows, cln, failures>>
    BY DEF BeginSetUnitStatus, Start, Reading
  <1>3. req'[r] = n /\ UNCHANGED <<rows>>
    BY <1>2 DEF IInv, TypeOK
  <1>4. Remembers(r)'
    BY <1>1, <1>3 DEF Remembers
  <1> QED
    BY <1>1, <1>2, <1>4, MemoryStep

LEMMA BeginRequestStep ==
    ASSUME IInv, NEW r \in Requests, NEW d \in Dispatches, NEW i \in Incidents, NEW type \in Types, BeginRequest(r, d, i, type)
    PROVE  IInv'
  <1> DEFINE n == [Idle EXCEPT !.pc = "insert", !.d = d, !.i = i, !.ty = type]
  <1>1. n \in Request /\ n.d = d /\ n.pc = "insert" /\ n.i = i /\ n.u = None /\ n.ty = type
    BY DEF BeginRequest, Idle, Request, IncidentStatus, DispatchStatus, Stages, UnitStatus
  <1>2. req' = [req EXCEPT ![r] = n] /\ UNCHANGED <<rows, cln, failures>>
    BY DEF BeginRequest, Start, Reading
  <1>3. req'[r] = n /\ UNCHANGED <<rows>>
    BY <1>2 DEF IInv, TypeOK
  <1>4. status[d] = "NONE" /\ \A q \in Requests : req[q].d # d
    BY DEF BeginRequest, FreshDispatch
  <1>5. \A q \in Requests \ {r} : req'[q] = req[q]
    BY <1>2 DEF IInv, TypeOK
  <1>6. Remembers(r)'
    BY <1>1, <1>3, <1>4, <1>5 DEF Remembers, rows
  <1> QED
    BY <1>1, <1>2, <1>4, <1>6, MemoryStep

LEMMA BeginCreateStep ==
    ASSUME IInv, NEW r \in Requests, NEW d \in Dispatches, NEW i \in Incidents,
           NEW u \in Units, NEW type \in Types, BeginCreate(r, d, i, u, type)
    PROVE  IInv'
  <1> DEFINE n == [Idle EXCEPT !.pc = "checkCreate", !.d = d, !.i = i, !.u = u, !.ty = type]
  <1>1. n \in Request /\ n.d = d /\ n.pc = "checkCreate" /\ n.i = i /\ n.u = u /\ n.ty = type
    BY DEF BeginCreate, Idle, Request, IncidentStatus, DispatchStatus, Stages, UnitStatus
  <1>2. req' = [req EXCEPT ![r] = n] /\ UNCHANGED <<rows, cln, failures>>
    BY DEF BeginCreate, Start, Reading
  <1>3. req'[r] = n /\ UNCHANGED <<rows>>
    BY <1>2 DEF IInv, TypeOK
  <1>4. status[d] = "NONE" /\ \A q \in Requests : req[q].d # d
    BY DEF BeginCreate, FreshDispatch
  <1>5. \A q \in Requests \ {r} : req'[q] = req[q]
    BY <1>2 DEF IInv, TypeOK
  <1>6. Remembers(r)'
    BY <1>1, <1>3, <1>4, <1>5 DEF Remembers, rows
  <1> QED
    BY <1>1, <1>2, <1>4, <1>6, MemoryStep

LEMMA BeginAssignStep ==
    ASSUME IInv, NEW r \in Requests, NEW d \in Dispatches, NEW u \in Units, BeginAssign(r, d, u)
    PROVE  IInv'
  <1> DEFINE n == [Idle EXCEPT !.pc = "checkAssign", !.d = d, !.u = u, !.ty = wanted[d]]
  <1>1. n \in Request /\ n.d = d /\ n.pc = "checkAssign" /\ n.u = u /\ n.ty = wanted[d]
    BY DEF IInv, TypeOK, BeginAssign, Idle, Request, IncidentStatus, DispatchStatus, Stages, UnitStatus
  <1>2. req' = [req EXCEPT ![r] = n] /\ UNCHANGED <<rows, cln, failures>>
    BY DEF BeginAssign, Start, Reading
  <1>3. req'[r] = n /\ UNCHANGED <<rows>>
    BY <1>2 DEF IInv, TypeOK
  <1>4. status[d] # "NONE"
    BY DEF BeginAssign, Live, Stages
  <1>5. Remembers(r)'
    BY <1>1, <1>3, <1>4 DEF Remembers, rows
  <1> QED
    BY <1>1, <1>2, <1>4, <1>5, MemoryStep

LEMMA BeginCancelStep ==
    ASSUME IInv, NEW r \in Requests, NEW d \in Dispatches, BeginCancel(r, d)
    PROVE  IInv'
  <1> DEFINE n == [Idle EXCEPT !.pc = "move", !.d = d, !.u = unitOf[d], !.to = "CANCELLED"]
  <1>1. n \in Request /\ n.d = d /\ n.pc = "move" /\ n.to = "CANCELLED"
    BY DEF IInv, TypeOK, BeginCancel, Idle, Request, IncidentStatus, DispatchStatus, Stages, UnitStatus
  <1>2. req' = [req EXCEPT ![r] = n] /\ UNCHANGED <<rows, cln, failures>>
    BY DEF BeginCancel, Start, Reading
  <1>3. req'[r] = n /\ UNCHANGED <<rows>>
    BY <1>2 DEF IInv, TypeOK
  <1>4. status[d] # "NONE"
    BY DEF BeginCancel, Live, Stages
  <1>5. Remembers(r)'
    BY <1>1, <1>3, <1>4, Stages5 DEF Remembers, rows
  <1> QED
    BY <1>1, <1>2, <1>4, <1>5, MemoryStep

LEMMA BeginAdvanceStep ==
    ASSUME IInv, NEW r \in Requests, NEW d \in Dispatches, BeginAdvance(r, d)
    PROVE  IInv'
  <1> DEFINE to == NEXT[status[d]]
             n == [Idle EXCEPT !.pc = "move", !.d = d, !.u = unitOf[d], !.to = to]
  <1>1. status[d] \in DispatchStatus /\ status[d] # "NONE" /\ unitOf[d] \in Units
    BY DEF IInv, TypeOK, BeginAdvance, Live, Stages
  <1>2. /\ to \in Stages \ {"ASSIGNED"}
        /\ status[d] \in Stages
        /\ Earlier(to) = Earlier(status[d]) \cup {status[d]}
    BY <1>1, Stages5 DEF BeginAdvance
  <1>3. Earlier(to) \subseteq stamped[d]
    BY <1>2 DEF IInv, NoStageSkipped
  <1>4. n \in Request /\ n.d = d /\ n.pc = "move" /\ n.to = to /\ n.u = unitOf[d]
    BY <1>1, <1>2 DEF Idle, Request, DispatchStatus
  <1>5. req' = [req EXCEPT ![r] = n] /\ UNCHANGED <<rows, cln, failures>>
    BY DEF BeginAdvance, Start, Reading
  <1>6. req'[r] = n /\ UNCHANGED <<rows>>
    BY <1>5 DEF IInv, TypeOK
  <1> HIDE DEF n, to
  <1>7. n.u # None
    BY <1>1, <1>4, FleetAssumption
  <1>8. status' = status /\ unitOf' = unitOf /\ stamped' = stamped
    BY <1>6 DEF rows
  <1>9. Remembers(r)'
    BY <1>1, <1>2, <1>3, <1>4, <1>6, <1>7, <1>8, FleetAssumption DEF Remembers
  <1> QED
    BY <1>1, <1>4, <1>5, <1>9, MemoryStep

LEMMA CheckUnitStep ==
    ASSUME IInv, NEW r \in Requests, CheckUnit(r)
    PROVE  IInv'
  <1>1. req[r] \in Request /\ Remembers(r) /\ UNCHANGED <<rows, cln, failures>>
    BY DEF IInv, TypeOK, HandlersRemember, CheckUnit, Reading
  <1>2. CASE Assignable(req[r].u, req[r].ty)
    <2> DEFINE pc == IF req[r].pc = "checkCreate" THEN "insert" ELSE "attach"
               n == [req[r] EXCEPT !.pc = pc]
    <2>1. req' = [req EXCEPT ![r] = n]
      BY <1>2 DEF CheckUnit, Continue
    <2>2. n \in Request /\ n.d = req[r].d
      BY <1>1 DEF Request
    <2>3. req'[r] = n /\ \A q \in Requests \ {r} : req'[q] = req[q]
      BY <2>1 DEF IInv, TypeOK
    <2>4. Remembers(r)'
      BY <1>1, <1>2, <2>3 DEF Remembers, CheckUnit, Assignable, rows, Request
    <2> QED
      BY <1>1, <2>1, <2>2, <2>4, MemoryStep
  <1>3. CASE ~Assignable(req[r].u, req[r].ty)
    <2>1. req' = [req EXCEPT ![r] = Idle]
      BY <1>3 DEF CheckUnit, Finish
    <2>2. req'[r] = Idle /\ Idle.d = None
      BY <2>1 DEF IInv, TypeOK, Idle
    <2> QED
      BY <1>1, <2>1, <2>2, IdleRequest, IdleRemembers, MemoryStep
  <1> QED
    BY <1>2, <1>3

LEMMA CountRemainingStep ==
    ASSUME IInv, NEW r \in Requests, CountRemaining(r)
    PROVE  IInv'
  <1>1. req[r] \in Request /\ Remembers(r) /\ UNCHANGED <<rows, cln, failures>>
    BY DEF IInv, TypeOK, HandlersRemember, CountRemaining, Reading
  <1>2. CASE req' = [req EXCEPT ![r] = Idle]
    <2>1. req'[r] = Idle /\ Idle.d = None
      BY <1>2 DEF IInv, TypeOK, Idle
    <2> QED
      BY <1>1, <1>2, <2>1, IdleRequest, IdleRemembers, MemoryStep
  <1>3. CASE req' = [req EXCEPT ![r].pc = "resolve"]
    <2> DEFINE n == [req[r] EXCEPT !.pc = "resolve"]
    <2>1. req' = [req EXCEPT ![r] = n]
      BY <1>3
    <2>2. n \in Request /\ n.d = req[r].d
      BY <1>1 DEF Request
    <2>3. req'[r] = n
      BY <2>1 DEF IInv, TypeOK
    <2>4. Remembers(r)'
      BY <1>1, <2>3 DEF Remembers, CountRemaining, rows, Request
    <2> QED
      BY <1>1, <2>1, <2>2, <2>4, MemoryStep
  <1> QED
    BY <1>2, <1>3 DEF CountRemaining, Continue, Finish

LEMMA FailRequestStep ==
    ASSUME IInv, NEW r \in Requests, FailRequest(r)
    PROVE  IInv'
  <1>1. req' = [req EXCEPT ![r] = Idle] /\ UNCHANGED <<rows, cln>>
    BY DEF FailRequest, Finish
  <1>2. req'[r] = Idle /\ Idle.d = None /\ \A q \in Requests \ {r} : req'[q] = req[q]
    BY <1>1 DEF IInv, TypeOK, Idle
  <1>3. failures' \in 0..MaxFailures
    BY FleetAssumption DEF FailRequest, IInv, TypeOK
  <1>4. TypeOK'
    BY <1>1, <1>3, IdleRequest DEF IInv, TypeOK, rows
  <1>5. Grow(r) /\ RowsComplete' /\ NoStageSkipped' /\ RespondingHasUnit' /\ closer' = closer /\ cln' = cln
    BY <1>1 DEF IInv, Grow, HandlersRemember, RowsComplete, NoStageSkipped,
                RespondingHasUnit, rows
  <1> QED
    BY <1>2, <1>4, <1>5, IdleRemembers, HandlerStep

-----------------------------------------------------------------------------
(* The handlers' writes *)

\* Writes to the other tables leave the dispatch invariants alone.
LEMMA DispatchRowsKept ==
    ASSUME IInv, UNCHANGED <<status, unitOf, incOf, wanted, stamped>>
    PROVE  /\ \A r \in Requests : Grow(r)
           /\ RowsComplete'
           /\ NoStageSkipped'
           /\ RespondingHasUnit'
  BY DEF IInv, Grow, HandlersRemember, RowsComplete, NoStageSkipped, RespondingHasUnit

LEMMA RaiseStep ==
    ASSUME IInv, NEW r \in Requests, Raise(r)
    PROVE  IInv'
  <1>1. Remembers(r) /\ req[r] \in Request
    BY DEF IInv, TypeOK, HandlersRemember
  <1>2. /\ req' = [req EXCEPT ![r] = Idle]
        /\ UNCHANGED <<status, unitOf, incOf, wanted, stamped>>
    BY DEF Raise, Finish
  <1>3. req'[r] = Idle /\ Idle.d = None /\ \A q \in Requests \ {r} : req'[q] = req[q]
    BY <1>2 DEF IInv, TypeOK, Idle
  <1>4. TypeOK'
    BY <1>1, <1>2, IdleRequest DEF IInv, TypeOK, Raise, Remembers, IncidentStatus, IncidentOpen
  <1>5. closer' = closer /\ cln' = cln
    BY DEF Raise
  <1> QED
    BY <1>2, <1>3, <1>4, <1>5, IdleRemembers, DispatchRowsKept, HandlerStep

LEMMA MoveIncidentStep ==
    ASSUME IInv, NEW r \in Requests, MoveIncident(r)
    PROVE  IInv'
  <1>1. Remembers(r) /\ req[r] \in Request
    BY DEF IInv, TypeOK, HandlersRemember
  <1>2. /\ req' = [req EXCEPT ![r] = Idle]
        /\ UNCHANGED <<status, unitOf, incOf, wanted, stamped>>
    BY DEF MoveIncident, Finish
  <1>3. req'[r] = Idle /\ Idle.d = None /\ \A q \in Requests \ {r} : req'[q] = req[q]
    BY <1>2 DEF IInv, TypeOK, Idle
  <1>4. TypeOK'
    BY <1>1, <1>2, IdleRequest DEF IInv, TypeOK, MoveIncident, Remembers
  <1>5. cln' = cln /\ \A i \in Incidents : closer'[i] = "FLEET" => closer[i] = "FLEET"
    BY DEF IInv, TypeOK, MoveIncident
  <1> QED
    BY <1>2, <1>3, <1>4, <1>5, IdleRemembers, DispatchRowsKept, HandlerStep

LEMMA SetUnitStatusStep ==
    ASSUME IInv, NEW r \in Requests, SetUnitStatus(r)
    PROVE  IInv'
  <1>1. Remembers(r) /\ req[r] \in Request
    BY DEF IInv, TypeOK, HandlersRemember
  <1>2. /\ req' = [req EXCEPT ![r] = Idle]
        /\ UNCHANGED <<status, unitOf, incOf, wanted, stamped>>
    BY DEF SetUnitStatus, Finish
  <1>3. req'[r] = Idle /\ Idle.d = None /\ \A q \in Requests \ {r} : req'[q] = req[q]
    BY <1>2 DEF IInv, TypeOK, Idle
  <1>4. TypeOK'
    BY <1>1, <1>2, IdleRequest DEF IInv, TypeOK, SetUnitStatus, Remembers
  <1>5. closer' = closer /\ cln' = cln
    BY DEF SetUnitStatus
  <1> QED
    BY <1>2, <1>3, <1>4, <1>5, IdleRemembers, DispatchRowsKept, HandlerStep

LEMMA HoldStep ==
    ASSUME IInv, NEW r \in Requests, Hold(r)
    PROVE  IInv'
  <1>1. Remembers(r) /\ req[r] \in Request
    BY DEF IInv, TypeOK, HandlersRemember
  <1>2. /\ req' = [req EXCEPT ![r] = Idle]
        /\ UNCHANGED <<status, unitOf, incOf, wanted, stamped>>
    BY DEF Hold, Finish
  <1>3. req'[r] = Idle /\ Idle.d = None /\ \A q \in Requests \ {r} : req'[q] = req[q]
    BY <1>2 DEF IInv, TypeOK, Idle
  <1>4. TypeOK'
    BY <1>1, <1>2, IdleRequest DEF IInv, TypeOK, Hold, Remembers, UnitStatus
  <1>5. closer' = closer /\ cln' = cln
    BY DEF Hold
  <1> QED
    BY <1>2, <1>3, <1>4, <1>5, IdleRemembers, DispatchRowsKept, HandlerStep

LEMMA ResolveIncidentStep ==
    ASSUME IInv, NEW r \in Requests, ResolveIncident(r)
    PROVE  IInv'
  <1> DEFINE d == req[r].d
  <1>1. Remembers(r) /\ req[r] \in Request /\ req[r].pc = "resolve"
    BY DEF IInv, TypeOK, HandlersRemember, ResolveIncident
  <1>2. d \in Dispatches /\ status[d] # "NONE" /\ "COMPLETED" \in stamped[d]
    BY <1>1 DEF Remembers
  <1>3. Stages \subseteq stamped[d] /\ incOf[d] \in Incidents
    BY <1>2, Stages5 DEF IInv, NoStageSkipped, HandlersRemember, RowsComplete
  <1>4. /\ req' = [req EXCEPT ![r] = Idle]
        /\ UNCHANGED <<status, unitOf, incOf, wanted, stamped>>
    BY DEF ResolveIncident, Finish
  <1>5. req'[r] = Idle /\ Idle.d = None /\ \A q \in Requests \ {r} : req'[q] = req[q]
    BY <1>4 DEF IInv, TypeOK, Idle
  <1>6. TypeOK'
    BY <1>3, <1>4, IdleRequest
       DEF IInv, TypeOK, ResolveIncident, IncidentStatus
  <1>7. cln' = cln /\ \A i \in Incidents : closer'[i] = "FLEET" =>
          \/ closer[i] = "FLEET"
          \/ \E e \in Dispatches : incOf'[e] = i /\ Stages \subseteq stamped'[e]
    BY <1>2, <1>3, <1>4 DEF ResolveIncident, IInv, TypeOK
  <1> QED
    BY <1>4, <1>5, <1>6, <1>7, IdleRemembers, DispatchRowsKept, HandlerStep

LEMMA ReleaseStep ==
    ASSUME IInv, NEW r \in Requests, Release(r)
    PROVE  IInv'
  <1>1. Remembers(r) /\ req[r] \in Request /\ req[r].u \in Units
    BY DEF IInv, TypeOK, HandlersRemember, Release, Remembers
  <1>2. /\ UNCHANGED <<status, unitOf, incOf, wanted, stamped>>
        /\ UNCHANGED <<trip, inc, closer, cln, failures>>
        /\ unit' \in [Units -> UnitStatus \cup {"NONE"}]
    BY <1>1 DEF Release, IInv, TypeOK, UnitStatus
  <1>3. CASE req' = [req EXCEPT ![r] = Idle]
    <2>1. req'[r] = Idle /\ Idle.d = None /\ \A q \in Requests \ {r} : req'[q] = req[q]
      BY <1>3 DEF IInv, TypeOK, Idle
    <2>2. TypeOK'
      BY <1>2, <1>3, IdleRequest DEF IInv, TypeOK
    <2> QED
      BY <1>2, <2>1, <2>2, IdleRemembers, DispatchRowsKept, HandlerStep
  <1>4. CASE req[r].to = "COMPLETED" /\ req' = [req EXCEPT ![r].pc = "count"]
    <2>1. /\ req'[r] = [req[r] EXCEPT !.pc = "count"]
          /\ \A q \in Requests \ {r} : req'[q] = req[q]
      BY <1>4 DEF IInv, TypeOK
    <2>2. req'[r] \in Request /\ req'[r].d = req[r].d /\ req'[r].pc = "count"
      BY <1>1, <2>1 DEF Request
    <2>3. TypeOK'
      BY <1>2, <1>4, <2>2 DEF IInv, TypeOK
    <2>4. Remembers(r)'
      BY <1>1, <1>2, <1>4, <2>2 DEF Remembers, Release
    <2> QED
      BY <1>2, <2>1, <2>2, <2>3, <2>4, DispatchRowsKept, HandlerStep
  <1> QED
    BY <1>3, <1>4 DEF Release, Continue, Finish

LEMMA MoveStep ==
    ASSUME IInv, NEW r \in Requests, Move(r)
    PROVE  IInv'
  <1> DEFINE d == req[r].d
             to == req[r].to
  <1>1. Remembers(r) /\ req[r] \in Request /\ req[r].pc = "move"
    BY DEF IInv, TypeOK, HandlersRemember, Move
  <1>2. /\ d \in Dispatches /\ status[d] # "NONE"
        /\ to \in (Stages \ {"ASSIGNED"}) \cup {"CANCELLED"}
        /\ to \in Stages => unitOf[d] # None /\ Earlier(to) \subseteq stamped[d]
    BY <1>1 DEF Remembers
  <1>3. to # "NONE" /\ to \in DispatchStatus /\ to # "REQUESTED"
    BY <1>2 DEF Stages, DispatchStatus
  <1>4. /\ status' = [status EXCEPT ![d] = to]
        /\ stamped' = [stamped EXCEPT ![d] = @ \cup ({to} \cap Stages)]
        /\ UNCHANGED <<trip, inc, closer, unitOf, incOf, wanted, unit, cln, failures>>
    BY DEF Move
  <1>5. status' \in [Dispatches -> DispatchStatus] /\ stamped' \in [Dispatches -> SUBSET Stages]
    BY <1>2, <1>3, <1>4 DEF IInv, TypeOK
  <1>6. Grow(r)
    BY <1>2, <1>3, <1>4 DEF Grow, IInv, TypeOK
  <1>7. RowsComplete'
    BY <1>2, <1>3, <1>4, <1>5 DEF RowsComplete, IInv, HandlersRemember, TypeOK
  <1>8. NoStageSkipped'
    BY <1>2, <1>3, <1>4, <1>5 DEF NoStageSkipped, IInv, TypeOK
  <1>9. RespondingHasUnit'
    BY <1>2, <1>3, <1>4, <1>5 DEF RespondingHasUnit, IInv, TypeOK, HandlersRemember, RowsComplete
  <1>10. CASE req' = [req EXCEPT ![r] = Idle]
    <2>1. req'[r] = Idle /\ Idle.d = None /\ \A q \in Requests \ {r} : req'[q] = req[q]
      BY <1>10 DEF IInv, TypeOK, Idle
    <2>2. TypeOK'
      BY <1>4, <1>5, <1>10, IdleRequest DEF IInv, TypeOK
    <2> QED
      BY <1>4, <1>6, <1>7, <1>8, <1>9, <2>1, <2>2, IdleRemembers, HandlerStep
  <1>11. CASE req[r].u # None /\ req' = [req EXCEPT ![r].pc = "release"]
    <2>1. /\ req'[r] = [req[r] EXCEPT !.pc = "release"]
          /\ \A q \in Requests \ {r} : req'[q] = req[q]
      BY <1>11 DEF IInv, TypeOK
    <2>2. /\ req'[r] \in Request /\ req'[r].d = d /\ req'[r].pc = "release"
          /\ req'[r].u = req[r].u /\ req'[r].to = to
      BY <1>1, <2>1 DEF Request
    <2>3. TypeOK'
      BY <1>4, <1>5, <1>11, <2>2 DEF IInv, TypeOK
    <2>4. req[r].u \in Units /\ (to = "COMPLETED" => "COMPLETED" \in stamped'[d])
      <3>1. req[r].u \in Units
        BY <1>1, <1>11 DEF Request
      <3>2. ASSUME to = "COMPLETED" PROVE "COMPLETED" \in stamped'[d]
        <4>1. to \in Stages
          BY <3>2 DEF Stages
        <4>2. stamped'[d] = stamped[d] \cup ({to} \cap Stages)
          BY <1>2, <1>4 DEF IInv, TypeOK
        <4> QED
          BY <3>2, <4>1, <4>2
      <3> QED
        BY <3>1, <3>2
    <2>5. Remembers(r)'
      BY <1>2, <1>3, <1>4, <2>2, <2>4 DEF Remembers, IInv, TypeOK
    <2> QED
      BY <1>4, <1>6, <1>7, <1>8, <1>9, <2>1, <2>2, <2>3, <2>5, HandlerStep
  <1> QED
    BY <1>10, <1>11 DEF Move, Continue, Finish

\* What the insertion of row d leaves of the invariant: every other row is as it
\* was, and the new one is complete.
LEMMA InsertStep ==
    ASSUME IInv, NEW r \in Requests, Insert(r)
    PROVE  IInv'
  <1> DEFINE d == req[r].d
             u == req[r].u
             st == IF u = None THEN "REQUESTED" ELSE "ASSIGNED"
             tm == IF u = None THEN {} ELSE {"ASSIGNED"}
  <1>1. Remembers(r) /\ req[r] \in Request /\ req[r].pc = "insert"
    BY DEF IInv, TypeOK, HandlersRemember, Insert
  <1>2. /\ d \in Dispatches /\ status[d] = "NONE"
        /\ req[r].i \in Incidents /\ req[r].ty \in Types
        /\ u # None => TypeOf[u] = req[r].ty
        /\ u \in Units \cup {None}
        /\ \A p \in Requests \ {r} : req[p].d # d
    BY <1>1 DEF Remembers, Request
  <1>3. /\ status' = [status EXCEPT ![d] = st]
        /\ stamped' = [stamped EXCEPT ![d] = tm]
        /\ unitOf' = [unitOf EXCEPT ![d] = u]
        /\ incOf' = [incOf EXCEPT ![d] = req[r].i]
        /\ wanted' = [wanted EXCEPT ![d] = req[r].ty]
        /\ UNCHANGED <<trip, inc, closer, unit, cln, failures>>
    BY DEF Insert
  <1>4. st \in DispatchStatus /\ st # "NONE" /\ tm \subseteq Stages /\ (st \in Stages <=> u # None)
    BY DEF DispatchStatus, Stages
  <1>5. st \in Stages => st \in tm
    BY <1>4 DEF Stages
  <1>6. \A s \in tm : Earlier(s) = {}
    BY Stages5
  <1>7. /\ status'[d] = st /\ stamped'[d] = tm /\ unitOf'[d] = u
        /\ incOf'[d] = req[r].i /\ wanted'[d] = req[r].ty
        /\ \A e \in Dispatches \ {d} :
              /\ status'[e] = status[e] /\ stamped'[e] = stamped[e] /\ unitOf'[e] = unitOf[e]
              /\ incOf'[e] = incOf[e] /\ wanted'[e] = wanted[e]
    BY <1>2, <1>3 DEF IInv, TypeOK
  <1>8. /\ status' \in [Dispatches -> DispatchStatus]
        /\ stamped' \in [Dispatches -> SUBSET Stages]
        /\ unitOf' \in [Dispatches -> Units \cup {None}]
        /\ incOf' \in [Dispatches -> Incidents \cup {None}]
        /\ wanted' \in [Dispatches -> Types \cup {None}]
    BY <1>2, <1>3, <1>4 DEF IInv, TypeOK
  <1> HIDE DEF st, tm
  <1>9. Grow(r)
    BY <1>2, <1>7 DEF Grow
  <1>10. RowsComplete'
    BY <1>2, <1>4, <1>7 DEF RowsComplete, IInv, HandlersRemember
  <1>11. NoStageSkipped'
    BY <1>2, <1>5, <1>6, <1>7 DEF NoStageSkipped, IInv
  <1>12. RespondingHasUnit'
    BY <1>2, <1>4, <1>7 DEF RespondingHasUnit, IInv
  <1>13. CASE req' = [req EXCEPT ![r] = Idle]
    <2>1. req'[r] = Idle /\ Idle.d = None /\ \A q \in Requests \ {r} : req'[q] = req[q]
      BY <1>13 DEF IInv, TypeOK, Idle
    <2>2. TypeOK'
      BY <1>3, <1>8, <1>13, IdleRequest DEF IInv, TypeOK
    <2> QED
      BY <1>3, <1>9, <1>10, <1>11, <1>12, <2>1, <2>2, IdleRemembers, HandlerStep
  <1>14. CASE u # None /\ req' = [req EXCEPT ![r].pc = "hold"]
    <2>1. /\ req'[r] = [req[r] EXCEPT !.pc = "hold"]
          /\ \A q \in Requests \ {r} : req'[q] = req[q]
      BY <1>14 DEF IInv, TypeOK
    <2>2. /\ req'[r] \in Request /\ req'[r].d = d /\ req'[r].pc = "hold"
          /\ req'[r].u = u
      BY <1>1, <2>1 DEF Request
    <2>3. TypeOK'
      BY <1>3, <1>8, <1>14, <2>2 DEF IInv, TypeOK
    <2>4. Remembers(r)'
      BY <1>2, <1>14, <2>2 DEF Remembers
    <2> QED
      BY <1>3, <1>9, <1>10, <1>11, <1>12, <2>1, <2>2, <2>3, <2>4, HandlerStep
  <1> QED
    BY <1>13, <1>14 DEF Insert, Continue, Finish

LEMMA AttachStep ==
    ASSUME IInv, NEW r \in Requests, Attach(r)
    PROVE  IInv'
  <1> DEFINE d == req[r].d
             u == req[r].u
  <1>1. Remembers(r) /\ req[r] \in Request /\ req[r].pc = "attach"
    BY DEF IInv, TypeOK, HandlersRemember, Attach
  <1>2. d \in Dispatches /\ status[d] # "NONE" /\ u \in Units /\ u # None /\ TypeOf[u] = wanted[d]
    BY <1>1, FleetAssumption DEF Remembers
  <1>3. /\ status' = [status EXCEPT ![d] = "ASSIGNED"]
        /\ stamped' = [stamped EXCEPT ![d] = @ \cup {"ASSIGNED"}]
        /\ unitOf' = [unitOf EXCEPT ![d] = u]
        /\ req' = [req EXCEPT ![r].pc = "hold"]
        /\ UNCHANGED <<trip, inc, closer, incOf, wanted, unit, cln, failures>>
    BY DEF Attach, Continue
  <1>4. "ASSIGNED" \in DispatchStatus /\ "ASSIGNED" \in Stages /\ Earlier("ASSIGNED") = {}
    BY Stages5 DEF DispatchStatus, Stages
  <1>5. /\ status'[d] = "ASSIGNED" /\ stamped'[d] = stamped[d] \cup {"ASSIGNED"} /\ unitOf'[d] = u
        /\ \A e \in Dispatches \ {d} :
              status'[e] = status[e] /\ stamped'[e] = stamped[e] /\ unitOf'[e] = unitOf[e]
    BY <1>2, <1>3 DEF IInv, TypeOK
  <1>6. /\ status' \in [Dispatches -> DispatchStatus]
        /\ stamped' \in [Dispatches -> SUBSET Stages]
        /\ unitOf' \in [Dispatches -> Units \cup {None}]
    BY <1>2, <1>3, <1>4 DEF IInv, TypeOK
  <1>7. Grow(r)
    BY <1>2, <1>3, <1>5 DEF Grow
  <1>8. RowsComplete'
    BY <1>2, <1>3, <1>5 DEF RowsComplete, IInv, HandlersRemember
  <1>9. NoStageSkipped'
    BY <1>2, <1>4, <1>5 DEF NoStageSkipped, IInv
  <1>10. RespondingHasUnit'
    BY <1>2, <1>3, <1>5 DEF RespondingHasUnit, IInv
  <1>11. /\ req'[r] = [req[r] EXCEPT !.pc = "hold"]
         /\ \A q \in Requests \ {r} : req'[q] = req[q]
    BY <1>3 DEF IInv, TypeOK
  <1>12. req'[r] \in Request /\ req'[r].d = d /\ req'[r].pc = "hold" /\ req'[r].u = u
    BY <1>1, <1>11 DEF Request
  <1>13. TypeOK'
    BY <1>3, <1>6, <1>12 DEF IInv, TypeOK
  <1>14. Remembers(r)'
    BY <1>2, <1>12 DEF Remembers
  <1> QED
    BY <1>3, <1>7, <1>8, <1>9, <1>10, <1>11, <1>12, <1>13, <1>14, HandlerStep

-----------------------------------------------------------------------------
(* Steps outside the requests: registration and the clean-up *)

\* No request moves, and no dispatch row changes more than its status, to CANCELLED.
LEMMA OutsideStep ==
    ASSUME IInv, TypeOK', UNCHANGED <<req, unitOf, incOf, wanted, stamped>>,
           \A d \in Dispatches : \/ status'[d] = status[d]
                                 \/ status[d] # "NONE" /\ status'[d] = "CANCELLED",
           \A c \in Cleaners : \A d \in cln'[c].dsps : status[d] # "NONE",
           \A i \in Incidents : closer'[i] = "FLEET" => closer[i] = "FLEET"
    PROVE  IInv'
  <1>1. RowsComplete'
    BY DEF RowsComplete, IInv, HandlersRemember
  <1>2. NoStageSkipped' /\ RespondingHasUnit'
    BY Stages5 DEF NoStageSkipped, RespondingHasUnit, IInv
  <1>3. \A d \in Dispatches : status'[d] = "NONE" <=> status[d] = "NONE"
    OBVIOUS
  <1>4. ASSUME NEW r \in Requests PROVE Remembers(r)'
    BY <1>3 DEF IInv, HandlersRemember, Remembers
  <1>5. HandlersRemember'
    BY <1>1, <1>3, <1>4 DEF HandlersRemember, TypeOK, Cleaning
  <1>6. FleetResolutionEarned'
    BY DEF FleetResolutionEarned, IInv
  <1> QED
    BY <1>2, <1>5, <1>6 DEF IInv

\* A step that only changes what clean-up c has collected.
LEMMA CollectStep ==
    ASSUME IInv, NEW c \in Cleaners, NEW n \in Cleaning,
           cln' = [cln EXCEPT ![c] = n], \A d \in n.dsps : status[d] # "NONE",
           trip' \in [Trips -> {"ACTIVE", "ENDED"}], failures' \in 0..MaxFailures,
           UNCHANGED <<inc, closer, status, unitOf, incOf, wanted, stamped, unit, req>>
    PROVE  IInv'
  <1>1. TypeOK'
    BY DEF IInv, TypeOK
  <1>2. \A b \in Cleaners : \A d \in cln'[b].dsps : status[d] # "NONE"
    BY DEF IInv, TypeOK, HandlersRemember
  <1> QED
    BY <1>1, <1>2, OutsideStep

LEMMA RestCleaning == Rest \in Cleaning /\ Rest.dsps = {}
  BY DEF Rest, Cleaning

LEMMA RegisterUnitStep ==
    ASSUME IInv, NEW u \in Units, RegisterUnit(u)
    PROVE  IInv'
  <1>1. TypeOK'
    BY DEF RegisterUnit, IInv, TypeOK, UnitStatus
  <1> QED
    BY <1>1, OutsideStep DEF RegisterUnit, IInv, HandlersRemember

LEMMA StartCleaningStep ==
    ASSUME IInv, NEW c \in Cleaners, NEW t \in Trips, NEW end \in BOOLEAN,
           StartCleaning(c, t, end)
    PROVE  IInv'
  <1> DEFINE n == [Rest EXCEPT !.pc = "incidents", !.t = t, !.end = end]
  <1>1. n \in Cleaning /\ n.dsps = {}
    BY DEF Rest, Cleaning
  <1>2. cln' = [cln EXCEPT ![c] = n] /\ UNCHANGED <<rows, req, failures>>
    BY DEF StartCleaning
  <1> QED
    BY <1>1, <1>2, CollectStep DEF IInv, TypeOK, rows

LEMMA FindIncidentsStep ==
    ASSUME IInv, NEW c \in Cleaners, FindIncidents(c)
    PROVE  IInv'
  <1> DEFINE found == {i \in Incidents : TripOf[i] = cln[c].t /\ inc[i] \in IncidentOpen}
             n == [cln[c] EXCEPT !.pc = "dispatches", !.incs = found]
  <1>1. cln[c] \in Cleaning /\ \A d \in cln[c].dsps : status[d] # "NONE"
    BY DEF IInv, TypeOK, HandlersRemember
  <1>2. n \in Cleaning /\ n.dsps = cln[c].dsps
    BY <1>1 DEF Cleaning
  <1>3. cln' = [cln EXCEPT ![c] = n] /\ UNCHANGED <<rows, req, failures>>
    BY DEF FindIncidents, IInv, TypeOK
  <1> QED
    BY <1>1, <1>2, <1>3, CollectStep DEF IInv, TypeOK, rows

LEMMA FindDispatchesStep ==
    ASSUME IInv, NEW c \in Cleaners, FindDispatches(c)
    PROVE  IInv'
  <1> DEFINE found == UNION {LiveFor(i) : i \in cln[c].incs}
             held == {unitOf[d] : d \in found} \ {None}
             n == [cln[c] EXCEPT !.pc = "expire", !.dsps = found, !.units = held]
  <1>1. found \subseteq Dispatches /\ \A d \in found : status[d] # "NONE"
    BY DEF LiveFor, Live, Stages
  <1>2. held \subseteq Units
    BY <1>1 DEF IInv, TypeOK
  <1>3. cln[c] \in Cleaning
    BY DEF IInv, TypeOK
  <1>4. n \in Cleaning /\ n.dsps = found
    BY <1>1, <1>2, <1>3 DEF Cleaning
  <1>5. cln' = [cln EXCEPT ![c] = n] /\ UNCHANGED <<rows, req, failures>>
    BY DEF FindDispatches, IInv, TypeOK
  <1> QED
    BY <1>1, <1>4, <1>5, CollectStep DEF IInv, TypeOK, rows

LEMMA ExpireStep ==
    ASSUME IInv, NEW c \in Cleaners, Expire(c)
    PROVE  IInv'
  <1> DEFINE n == IF cln[c].end THEN [Rest EXCEPT !.pc = "end", !.t = cln[c].t] ELSE Rest
  <1>1. cln[c] \in Cleaning /\ \A d \in cln[c].dsps : status[d] # "NONE"
    BY DEF IInv, TypeOK, HandlersRemember
  <1>2. n \in Cleaning /\ n.dsps = {}
    BY <1>1, RestCleaning DEF Rest, Cleaning
  <1>3. cln' = [cln EXCEPT ![c] = n]
    BY DEF Expire
  <1>4. /\ status' \in [Dispatches -> DispatchStatus]
        /\ unit' \in [Units -> UnitStatus \cup {"NONE"}]
        /\ inc' \in [Incidents -> IncidentStatus]
        /\ closer' \in [Incidents -> {"NOBODY", "STAFF", "FLEET", "TRIP_END"}]
    BY DEF Expire, IInv, TypeOK, DispatchStatus, UnitStatus, IncidentStatus
  <1>5. TypeOK'
    BY <1>2, <1>3, <1>4 DEF Expire, IInv, TypeOK
  <1>6. \A d \in Dispatches : \/ status'[d] = status[d]
                              \/ status[d] # "NONE" /\ status'[d] = "CANCELLED"
    BY <1>1 DEF Expire
  <1>7. \A b \in Cleaners : \A d \in cln'[b].dsps : status[d] # "NONE"
    BY <1>2, <1>3 DEF IInv, TypeOK, HandlersRemember
  <1>8. \A i \in Incidents : closer'[i] = "FLEET" => closer[i] = "FLEET"
    BY DEF Expire
  <1> QED
    BY <1>5, <1>6, <1>7, <1>8, OutsideStep DEF Expire

LEMMA EndTripStep ==
    ASSUME IInv, NEW c \in Cleaners, EndTrip(c)
    PROVE  IInv'
  <1>1. trip' \in [Trips -> {"ACTIVE", "ENDED"}]
    BY DEF EndTrip, IInv, TypeOK
  <1> QED
    BY <1>1, RestCleaning, CollectStep DEF EndTrip, IInv, TypeOK

LEMMA FailCleanerStep ==
    ASSUME IInv, NEW c \in Cleaners, FailCleaner(c)
    PROVE  IInv'
  <1>1. failures' \in 0..MaxFailures
    BY FleetAssumption DEF FailCleaner, IInv, TypeOK
  <1> QED
    BY <1>1, RestCleaning, CollectStep DEF FailCleaner, IInv, TypeOK, rows

-----------------------------------------------------------------------------
(* The theorems *)

LEMMA InitHolds == Init => IInv
  <1> SUFFICES ASSUME Init PROVE IInv
    OBVIOUS
  <1>1. TypeOK
    BY IdleRequest, RestCleaning, FleetAssumption
       DEF Init, TypeOK, IncidentStatus, DispatchStatus
  <1>2. NoStageSkipped /\ RespondingHasUnit
    BY DEF Init, NoStageSkipped, RespondingHasUnit, Stages
  <1>3. RowsComplete /\ \A r \in Requests : Remembers(r)
    BY DEF Init, RowsComplete, Remembers, Idle
  <1>4. HandlersRemember
    BY <1>3, RestCleaning DEF Init, HandlersRemember
  <1>5. FleetResolutionEarned
    BY DEF Init, FleetResolutionEarned
  <1> QED
    BY <1>1, <1>2, <1>4, <1>5 DEF IInv

LEMMA RequestKeeps ==
    ASSUME IInv, NEW r \in Requests, RequestStep(r)
    PROVE  IInv'
  BY BeginRaiseStep, BeginIncidentStep, BeginSetUnitStatusStep, BeginRequestStep,
     BeginCreateStep, BeginAssignStep, BeginCancelStep, BeginAdvanceStep, RaiseStep,
     MoveIncidentStep, SetUnitStatusStep, CheckUnitStep, InsertStep, AttachStep, HoldStep,
     MoveStep, ReleaseStep, CountRemainingStep, ResolveIncidentStep, FailRequestStep
     DEF RequestStep

LEMMA CleanerKeeps ==
    ASSUME IInv, NEW c \in Cleaners, CleanerStep(c)
    PROVE  IInv'
  BY StartCleaningStep, FindIncidentsStep, FindDispatchesStep, ExpireStep, EndTripStep,
     FailCleanerStep DEF CleanerStep, BeginEndTrip

LEMMA NextKeeps == IInv /\ [Next]_vars => IInv'
  <1> SUFFICES ASSUME IInv, [Next]_vars PROVE IInv'
    OBVIOUS
  <1>1. CASE \E u \in Units : RegisterUnit(u)
    BY <1>1, RegisterUnitStep
  <1>2. CASE \E r \in Requests : RequestStep(r)
    BY <1>2, RequestKeeps
  <1>3. CASE \E c \in Cleaners : CleanerStep(c)
    BY <1>3, CleanerKeeps
  <1>4. CASE \E t \in Trips : BeginReconcile(t)
    BY <1>4, StartCleaningStep DEF BeginReconcile, Cleaners
  <1>5. CASE UNCHANGED vars
    <2>1. TypeOK' /\ UNCHANGED <<req, cln, closer, status, unitOf, incOf, wanted, stamped>>
      BY <1>5 DEF vars, rows, IInv, TypeOK
    <2> QED
      BY <2>1, OutsideStep DEF IInv, HandlersRemember
  <1> QED
    BY <1>1, <1>2, <1>3, <1>4, <1>5 DEF Next

\* The inductive invariant holds in every behaviour, for any number of trips,
\* incidents, units, dispatches, overlapping handlers and failures.
THEOREM Invariance == Spec => []IInv
  BY InitHolds, NextKeeps, PTL DEF Spec

\* Every row holds a value of its column's enum, and every handler remembers
\* rows of the right kind: dispatch.service.js and trip.repository.js never
\* write one table's id into another.
THEOREM TypeCorrect == Spec => []TypeOK
  <1>1. IInv => TypeOK
    BY DEF IInv
  <1> QED
    BY <1>1, Invariance, PTL

\* The stages of a dispatch are stamped without a gap, however the transitions
\* of staff (dispatch.service.js), fleet (emergency-service.service.js) and trip
\* end (trip.repository.js) overlap.
THEOREM TimelineWhole == Spec => []NoStageSkipped
  <1>1. IInv => NoStageSkipped
    BY DEF IInv
  <1> QED
    BY <1>1, Invariance, PTL

\* A dispatch at any stage names a unit of the requested type, although the unit
\* is checked before the dispatch row is written (create, autoAssign, assign).
THEOREM ResponseHasUnit == Spec => []RespondingHasUnit
  <1>1. IInv => RespondingHasUnit
    BY DEF IInv
  <1> QED
    BY <1>1, Invariance, PTL

\* What a handler read before an await still holds of the row it writes after it.
THEOREM MemoryHolds == Spec => []HandlersRemember
  <1>1. IInv => HandlersRemember
    BY DEF IInv
  <1> QED
    BY <1>1, Invariance, PTL

\* resolveIncidentWhenResponsesComplete closes an incident as answered by the
\* fleet only when some dispatch of it went through every stage.
THEOREM ResolutionEarned == Spec => []FleetResolutionEarned
  <1>1. IInv => FleetResolutionEarned
    BY DEF IInv
  <1> QED
    BY <1>1, Invariance, PTL
=============================================================================
