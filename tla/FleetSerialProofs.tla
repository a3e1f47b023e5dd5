--------------------------- MODULE FleetSerialProofs ---------------------------
(***************************************************************************)
(* FleetDispatch with one handler at a time: BusyIffServing,               *)
(* TripEndStandsDown and the refinement BoardSpec, for every set of rows.  *)
(*                                                                         *)
(* Two assignments that overlap book a unit twice (the run                 *)
(* fleet_double_booking), a failure strands the unit, and an administrator *)
(* who frees a unit by hand takes it from its dispatch: OneAtATime says    *)
(* that none of this happens.  The argument then is that everybody else    *)
(* rests (Alone), so that what a handler has read still holds when it      *)
(* writes (Knows, CleanerKnows), and that only the unit it holds or        *)
(* releases may differ from the dispatches (Busy).                         *)
(***************************************************************************)
EXTENDS FleetDispatchProofs

\* One handler at a time, no failures, and an administrator who leaves alone the
\* units that serve.
OneAtATime == /\ Overlap = FALSE
              /\ MaxFailures = 0
              /\ \A m \in AdminMoves : m[1] # "DISPATCHED" /\ m[2] # "DISPATCHED"

Alone ==
    /\ \A r, s \in Requests : req[r] # Idle /\ req[s] # Idle => r = s
    /\ \A c, e \in Cleaners : cln[c] # Rest /\ cln[e] # Rest => c = e
    /\ \A r \in Requests, c \in Cleaners : req[r] = Idle \/ cln[c] = Rest

\* What the handler in flight has read still holds when it goes on.
Knows(q) ==
    /\ q.pc = "raise" => inc[q.i] = "NONE"
    /\ q.pc \in {"incident", "checkCreate", "insert"} => inc[q.i] \in IncidentOpen
    /\ q.pc = "setUnit" => unit[q.u] # "DISPATCHED" /\ q.to # "DISPATCHED"
    /\ q.pc \in {"checkAssign", "attach"} => status[q.d] = "REQUESTED"
    /\ q.pc = "insert" => q.u = None \/ unit[q.u] = "AVAILABLE"
    /\ q.pc = "attach" => unit[q.u] = "AVAILABLE"
    /\ q.pc = "hold" => q.d \in Dispatches /\ Serves(q.d, q.u)
    /\ q.pc = "move" => status[q.d] \in Live /\ q.u = unitOf[q.d]
    /\ q.pc = "release" => \A d \in Dispatches : ~Serves(d, q.u)

CleanerKnows(k) ==
    k.pc = "expire" =>
        /\ k.dsps = UNION {LiveFor(i) : i \in k.incs}
        /\ k.units = {unitOf[d] : d \in k.dsps} \ {None}

\* A handler is between the dispatch row and the unit row.
Turning(u) == \E r \in Requests : req[r].pc \in {"hold", "release"} /\ req[r].u = u

ServesOne == \A u \in Units : \A d, e \in Dispatches : Serves(d, u) /\ Serves(e, u) => d = e
WaitingHasNone == \A d \in Dispatches : status[d] = "REQUESTED" => unitOf[d] = None
Busy == \A u \in Units :
    Turning(u) \/ (unit[u] = "DISPATCHED" <=> \E d \in Dispatches : Serves(d, u))
StoodDown == \A i \in Incidents :
    closer[i] = "TRIP_END" => LiveFor(i) = {} /\ inc[i] = "DISMISSED"

BoardInv ==
    /\ Alone
    /\ ServesOne /\ WaitingHasNone /\ Busy /\ StoodDown
    /\ \A r \in Requests : Knows(req[r])
    /\ \A c \in Cleaners : CleanerKnows(cln[c])

-----------------------------------------------------------------------------
(* Who is in flight *)

Others(r) == /\ \A s \in Requests \ {r} : req[s] = Idle
             /\ \A c \in Cleaners : cln[c] = Rest

LEMMA IdleKnows ==
  /\ Idle.pc = "idle" /\ Rest.pc = "idle"
  /\ Knows(Idle) /\ Knows(Idle)'
  /\ CleanerKnows(Rest) /\ CleanerKnows(Rest)'
  BY DEF Idle, Rest, Knows, CleanerKnows

LEMMA QuietIsAlone ==
  ASSUME Quiet, NEW r \in Requests
  PROVE  Others(r)
  BY DEF Quiet, Others

LEMMA InFlight ==
  ASSUME BoardInv, NEW r \in Requests, req[r].pc # "idle"
  PROVE  Others(r)
  BY IdleKnows DEF BoardInv, Alone, Others

\* A unit is only in between rows where the handler says so.
LEMMA StrictlyBusy ==
  ASSUME BoardInv, NEW r \in Requests, Others(r), req[r].pc \notin {"hold", "release"},
         NEW u \in Units
  PROVE  unit[u] = "DISPATCHED" <=> \E d \in Dispatches : Serves(d, u)
<1>1. ~Turning(u)
  BY IdleKnows DEF Turning, Others
<1>. QED BY <1>1 DEF BoardInv, Busy

\* The handler of r goes on to remember n.
LEMMA RequestMoves ==
  ASSUME IInv, BoardInv, NEW r \in Requests, NEW n, Others(r),
         req' = [req EXCEPT ![r] = n], cln' = cln,
         Knows(n)', ServesOne', WaitingHasNone', StoodDown',
         \A u \in Units :
            \/ n.pc \in {"hold", "release"} /\ n.u = u
            \/ unit'[u] = "DISPATCHED" <=> \E d \in Dispatches : Serves(d, u)'
  PROVE  BoardInv'
<1>1. req'[r] = n /\ \A s \in Requests \ {r} : req'[s] = Idle
  BY DEF IInv, TypeOK, Others
<1>2. \A c \in Cleaners : cln'[c] = Rest
  BY DEF Others
<1>3. Alone'
  BY <1>1, <1>2 DEF Alone
<1>4. Busy'
  <2>. SUFFICES ASSUME NEW u \in Units
                PROVE  Turning(u)' \/ (unit'[u] = "DISPATCHED" <=> \E d \in Dispatches : Serves(d, u)')
    BY DEF Busy
  <2>1. n.pc \in {"hold", "release"} /\ n.u = u => Turning(u)'
    BY <1>1 DEF Turning
  <2>. QED BY <2>1
<1>5. ASSUME NEW s \in Requests PROVE Knows(req[s])'
  <2>1. Knows(Idle)' /\ (req'[s] = n \/ req'[s] = Idle)
    BY <1>1, IdleKnows
  <2>. QED BY <2>1 DEF Knows, Serves
<1>6. ASSUME NEW c \in Cleaners PROVE CleanerKnows(cln[c])'
  BY <1>2, IdleKnows DEF CleanerKnows
<1>. QED BY <1>3, <1>4, <1>5, <1>6 DEF BoardInv

\* It only reads.
LEMMA RequestReads ==
  ASSUME IInv, BoardInv, NEW r \in Requests, NEW n, Others(r),
         req' = [req EXCEPT ![r] = n], Reading,
         req[r].pc \notin {"hold", "release"}, Knows(n)
  PROVE  BoardInv'
<1>1. UNCHANGED <<trip, inc, closer, status, unitOf, incOf, wanted, unit, cln>>
  BY DEF Reading, rows
<1>2. Knows(n)'
  BY <1>1 DEF Knows, Serves
<1>3. ServesOne' /\ WaitingHasNone' /\ StoodDown'
  BY <1>1 DEF BoardInv, ServesOne, Serves, WaitingHasNone, StoodDown, LiveFor
<1>4. ASSUME NEW u \in Units
      PROVE  unit'[u] = "DISPATCHED" <=> \E d \in Dispatches : Serves(d, u)'
  BY <1>1, <1>4, StrictlyBusy DEF Serves
<1>. QED BY <1>1, <1>2, <1>3, <1>4, RequestMoves

LEMMA Started ==
  ASSUME OneAtATime, IInv, BoardInv, NEW r \in Requests, NEW n, Start(r, n), Reading, Knows(n)
  PROVE  BoardInv'
<1>1. Others(r) /\ req[r].pc = "idle" /\ req' = [req EXCEPT ![r] = n]
  BY QuietIsAlone, IdleKnows DEF Start, CanStart, OneAtATime
<1>. QED BY <1>1, RequestReads

-----------------------------------------------------------------------------
(* The handlers' first steps *)

LEMMA BeginRaiseBoard ==
  ASSUME OneAtATime, IInv, BoardInv, NEW r \in Requests, NEW i \in Incidents, BeginRaise(r, i)
  PROVE  BoardInv'
<1>1. PICK n : n = [Idle EXCEPT !.pc = "raise", !.i = i]
  OBVIOUS
<1>2. n.pc = "raise" /\ n.i = i
  BY <1>1 DEF Idle
<1>3. Knows(n)
  BY <1>2 DEF Knows, BeginRaise, FreshIncident
<1>. QED BY <1>1, <1>3, Started DEF BeginRaise

LEMMA BeginIncidentBoard ==
  ASSUME OneAtATime, IInv, BoardInv, NEW r \in Requests, NEW i \in Incidents,
         NEW to \in IncidentStatus, BeginIncident(r, i, to)
  PROVE  BoardInv'
<1>1. PICK n : n = [Idle EXCEPT !.pc = "incident", !.i = i, !.to = to]
  OBVIOUS
<1>2. n.pc = "incident" /\ n.i = i
  BY <1>1 DEF Idle
<1>3. inc[i] \in IncidentOpen
  BY DEF BeginIncident, StaffMayMove, IncidentOpen
<1>4. Knows(n)
  BY <1>2, <1>3 DEF Knows
<1>. QED BY <1>1, <1>4, Started DEF BeginIncident

LEMMA BeginSetUnitStatusBoard ==
  ASSUME OneAtATime, IInv, BoardInv, NEW r \in Requests, NEW u \in Units, NEW to \in UnitStatus,
         BeginSetUnitStatus(r, u, to)
  PROVE  BoardInv'
<1>1. PICK n : n = [Idle EXCEPT !.pc = "setUnit", !.u = u, !.to = to]
  OBVIOUS
<1>2. n.pc = "setUnit" /\ n.u = u /\ n.to = to
  BY <1>1 DEF Idle
<1>3. unit[u] # "DISPATCHED" /\ to # "DISPATCHED"
  BY DEF BeginSetUnitStatus, OneAtATime
<1>4. Knows(n)
  BY <1>2, <1>3 DEF Knows
<1>. QED BY <1>1, <1>4, Started DEF BeginSetUnitStatus

LEMMA BeginRequestBoard ==
  ASSUME OneAtATime, IInv, BoardInv, NEW r \in Requests, NEW d \in Dispatches,
         NEW i \in Incidents, NEW type \in Types, BeginRequest(r, d, i, type)
  PROVE  BoardInv'
<1>1. PICK n : n = [Idle EXCEPT !.pc = "insert", !.d = d, !.i = i, !.ty = type]
  OBVIOUS
<1>2. n.pc = "insert" /\ n.i = i /\ n.u = None
  BY <1>1 DEF Idle
<1>3. Knows(n)
  BY <1>2 DEF Knows, BeginRequest, Dispatchable
<1>. QED BY <1>1, <1>3, Started DEF BeginRequest

LEMMA BeginCreateBoard ==
  ASSUME OneAtATime, IInv, BoardInv, NEW r \in Requests, NEW d \in Dispatches,
         NEW i \in Incidents, NEW u \in Units, NEW type \in Types, BeginCreate(r, d, i, u, type)
  PROVE  BoardInv'
<1>1. PICK n : n = [Idle EXCEPT !.pc = "checkCreate", !.d = d, !.i = i, !.u = u, !.ty = type]
  OBVIOUS
<1>2. n.pc = "checkCreate" /\ n.i = i
  BY <1>1 DEF Idle
<1>3. Knows(n)
  BY <1>2 DEF Knows, BeginCreate, Dispatchable
<1>. QED BY <1>1, <1>3, Started DEF BeginCreate

LEMMA BeginAssignBoard ==
  ASSUME OneAtATime, IInv, BoardInv, NEW r \in Requests, NEW d \in Dispatches, NEW u \in Units,
         BeginAssign(r, d, u)
  PROVE  BoardInv'
<1>1. PICK n : n = [Idle EXCEPT !.pc = "checkAssign", !.d = d, !.u = u, !.ty = wanted[d]]
  OBVIOUS
<1>2. n.pc = "checkAssign" /\ n.d = d
  BY <1>1 DEF Idle
<1>3. status[d] = "REQUESTED"
  <2>1. status[d] \in Stages \cup {"REQUESTED"} /\ unitOf[d] = None
    BY DEF BeginAssign, Live
  <2>. QED BY <2>1, FleetAssumption DEF IInv, RespondingHasUnit
<1>4. Knows(n)
  BY <1>2, <1>3 DEF Knows
<1>. QED BY <1>1, <1>4, Started DEF BeginAssign

LEMMA BeginCancelBoard ==
  ASSUME OneAtATime, IInv, BoardInv, NEW r \in Requests, NEW d \in Dispatches, BeginCancel(r, d)
  PROVE  BoardInv'
<1>1. PICK n : n = [Idle EXCEPT !.pc = "move", !.d = d, !.u = unitOf[d], !.to = "CANCELLED"]
  OBVIOUS
<1>2. n.pc = "move" /\ n.d = d /\ n.u = unitOf[d]
  BY <1>1 DEF Idle
<1>3. Knows(n)
  BY <1>2 DEF Knows, BeginCancel
<1>. QED BY <1>1, <1>3, Started DEF BeginCancel

LEMMA BeginAdvanceBoard ==
  ASSUME OneAtATime, IInv, BoardInv, NEW r \in Requests, NEW d \in Dispatches, BeginAdvance(r, d)
  PROVE  BoardInv'
<1>1. PICK n : n = [Idle EXCEPT !.pc = "move", !.d = d, !.u = unitOf[d], !.to = NEXT[status[d]]]
  OBVIOUS
<1>2. n.pc = "move" /\ n.d = d /\ n.u = unitOf[d]
  BY <1>1 DEF Idle
<1>3. Knows(n)
  BY <1>2 DEF Knows, BeginAdvance
<1>. QED BY <1>1, <1>3, Started DEF BeginAdvance

-----------------------------------------------------------------------------
(* Later steps that only read *)

LEMMA CheckUnitBoard ==
  ASSUME IInv, BoardInv, NEW r \in Requests, CheckUnit(r)
  PROVE  BoardInv'
<1>1. /\ Others(r) /\ Knows(req[r]) /\ Reading
      /\ req[r].pc \in {"checkCreate", "checkAssign"}
  BY InFlight DEF BoardInv, CheckUnit
<1>2. CASE Assignable(req[r].u, req[r].ty)
  <2>1. PICK pc : pc = IF req[r].pc = "checkCreate" THEN "insert" ELSE "attach"
    OBVIOUS
  <2>2. PICK n : n = [req[r] EXCEPT !.pc = pc]
    OBVIOUS
  <2>3. req' = [req EXCEPT ![r] = n]
    BY <1>2, <2>1, <2>2 DEF CheckUnit, Continue
  <2>4. n.pc = pc /\ n.i = req[r].i /\ n.u = req[r].u /\ n.d = req[r].d
    BY <2>2 DEF IInv, TypeOK, Request
  <2>5. Knows(n)
    BY <1>1, <1>2, <2>1, <2>4 DEF Knows, Assignable
  <2>. QED BY <1>1, <2>3, <2>5, RequestReads
<1>3. CASE ~Assignable(req[r].u, req[r].ty)
  BY <1>1, <1>3, IdleKnows, RequestReads DEF CheckUnit, Finish
<1>. QED BY <1>2, <1>3

LEMMA CountRemainingBoard ==
  ASSUME IInv, BoardInv, NEW r \in Requests, CountRemaining(r)
  PROVE  BoardInv'
<1>1. Others(r) /\ Reading /\ req[r].pc = "count"
  BY InFlight DEF CountRemaining
<1>2. PICK n : req' = [req EXCEPT ![r] = n] /\ (n = Idle \/ n = [req[r] EXCEPT !.pc = "resolve"])
  BY DEF CountRemaining, Continue, Finish
<1>3. n.pc \in {"idle", "resolve"}
  BY <1>2, IdleKnows DEF IInv, TypeOK, Request
<1>4. Knows(n)
  BY <1>3 DEF Knows
<1>. QED BY <1>1, <1>2, <1>4, RequestReads

-----------------------------------------------------------------------------
(* Later steps that write *)

\* An incident moves, the dispatches and the units stay.
LEMMA IncidentMoves ==
  ASSUME IInv, BoardInv, NEW r \in Requests, Others(r), Finish(r),
         UNCHANGED <<status, unitOf, incOf, unit, cln>>,
         req[r].pc \notin {"hold", "release"}, StoodDown'
  PROVE  BoardInv'
<1>1. ServesOne' /\ WaitingHasNone'
  BY DEF BoardInv, ServesOne, Serves, WaitingHasNone
<1>2. ASSUME NEW u \in Units
      PROVE  unit'[u] = "DISPATCHED" <=> \E d \in Dispatches : Serves(d, u)'
  BY <1>2, StrictlyBusy DEF Serves
<1>. QED BY <1>1, <1>2, IdleKnows, RequestMoves DEF Finish

LEMMA RaiseBoard ==
  ASSUME IInv, BoardInv, NEW r \in Requests, Raise(r)
  PROVE  BoardInv'
<1>1. Others(r) /\ req[r].pc = "raise" /\ inc[req[r].i] = "NONE"
  BY InFlight DEF BoardInv, Raise, Knows
<1>2. StoodDown'
  BY <1>1 DEF IInv, TypeOK, BoardInv, StoodDown, LiveFor, Raise
<1>. QED BY <1>1, <1>2, IncidentMoves DEF Raise

LEMMA MoveIncidentBoard ==
  ASSUME IInv, BoardInv, NEW r \in Requests, MoveIncident(r)
  PROVE  BoardInv'
<1>1. Others(r) /\ req[r].pc = "incident" /\ inc[req[r].i] \in IncidentOpen
  BY InFlight DEF BoardInv, MoveIncident, Knows
<1>2. inc[req[r].i] # "DISMISSED"
  BY <1>1 DEF IncidentOpen
<1>3. ASSUME NEW i \in Incidents, closer'[i] = "TRIP_END"
      PROVE  closer[i] = "TRIP_END" /\ (inc[i] = "DISMISSED" => inc'[i] = inc[i])
  BY <1>2, <1>3 DEF IInv, TypeOK, MoveIncident
<1>4. StoodDown'
  BY <1>3 DEF BoardInv, StoodDown, LiveFor, MoveIncident
<1>. QED BY <1>1, <1>4, IncidentMoves DEF MoveIncident

LEMMA ResolveIncidentBoard ==
  ASSUME IInv, BoardInv, NEW r \in Requests, ResolveIncident(r)
  PROVE  BoardInv'
<1>1. Others(r) /\ req[r].pc = "resolve"
  BY InFlight DEF BoardInv, ResolveIncident
<1>2. ASSUME NEW i \in Incidents, closer'[i] = "TRIP_END"
      PROVE  closer[i] = "TRIP_END" /\ inc'[i] = inc[i]
  BY <1>2 DEF IInv, TypeOK, ResolveIncident
<1>3. StoodDown'
  BY <1>2 DEF BoardInv, StoodDown, LiveFor, ResolveIncident
<1>. QED BY <1>1, <1>3, IncidentMoves DEF ResolveIncident

LEMMA SetUnitStatusBoard ==
  ASSUME IInv, BoardInv, NEW r \in Requests, SetUnitStatus(r)
  PROVE  BoardInv'
<1>1. /\ Others(r) /\ req[r].pc = "setUnit"
      /\ unit[req[r].u] # "DISPATCHED" /\ req[r].to # "DISPATCHED"
  BY InFlight DEF BoardInv, SetUnitStatus, Knows
<1>2. ServesOne' /\ WaitingHasNone' /\ StoodDown'
  BY DEF BoardInv, ServesOne, Serves, WaitingHasNone, StoodDown, LiveFor, SetUnitStatus
<1>3. ASSUME NEW u \in Units
      PROVE  unit'[u] = "DISPATCHED" <=> unit[u] = "DISPATCHED"
  BY <1>1 DEF IInv, TypeOK, SetUnitStatus
<1>4. ASSUME NEW u \in Units
      PROVE  unit'[u] = "DISPATCHED" <=> \E d \in Dispatches : Serves(d, u)'
  BY <1>1, <1>3, StrictlyBusy DEF Serves, SetUnitStatus
<1>. QED BY <1>1, <1>2, <1>4, IdleKnows, RequestMoves DEF SetUnitStatus, Finish

\* A unit that is available serves nobody, so that it may be taken.
LEMMA Available ==
  ASSUME BoardInv, NEW r \in Requests, Others(r), req[r].pc \notin {"hold", "release"},
         NEW u \in Units, unit[u] = "AVAILABLE"
  PROVE  \A d \in Dispatches : ~Serves(d, u)
  BY StrictlyBusy

LEMMA InsertBoard ==
  ASSUME IInv, BoardInv, NEW r \in Requests, Insert(r)
  PROVE  BoardInv'
<1>1. /\ Others(r) /\ req[r].pc = "insert" /\ Knows(req[r])
      /\ req[r] \in Request /\ Remembers(r)
  BY InFlight DEF BoardInv, Insert, IInv, HandlersRemember, TypeOK
<1>. DEFINE d == req[r].d
            u == req[r].u
            i == req[r].i
<1>2. /\ d \in Dispatches /\ status[d] = "NONE" /\ i \in Incidents /\ inc[i] \in IncidentOpen
      /\ u \in Units \cup {None} /\ (u = None \/ unit[u] = "AVAILABLE")
  BY <1>1 DEF Remembers, Request, Knows
<1>3. ASSUME u # None PROVE \A e \in Dispatches : ~Serves(e, u)
  BY <1>1, <1>2, <1>3, Available
<1>4. /\ status' = [status EXCEPT ![d] = IF u = None THEN "REQUESTED" ELSE "ASSIGNED"]
      /\ unitOf' = [unitOf EXCEPT ![d] = u]
      /\ incOf' = [incOf EXCEPT ![d] = i]
      /\ UNCHANGED <<inc, closer, unit, cln>>
  BY DEF Insert
<1>5. /\ status'[d] = (IF u = None THEN "REQUESTED" ELSE "ASSIGNED")
      /\ unitOf'[d] = u /\ incOf'[d] = i
      /\ \A e \in Dispatches : e # d =>
           status'[e] = status[e] /\ unitOf'[e] = unitOf[e] /\ incOf'[e] = incOf[e]
  BY <1>2, <1>4 DEF IInv, TypeOK
<1>6. ASSUME NEW v \in Units, NEW e \in Dispatches
      PROVE  Serves(e, v)' <=> IF e = d THEN v = u ELSE Serves(e, v)
  BY <1>2, <1>5, FleetAssumption DEF Serves, Live, Stages
<1>7. PICK n : /\ req' = [req EXCEPT ![r] = n]
               /\ IF u = None THEN n = Idle ELSE n = [req[r] EXCEPT !.pc = "hold"]
  BY DEF Insert, Continue, Finish
<1>8. u # None => n.pc = "hold" /\ n.d = d /\ n.u = u
  BY <1>1, <1>7 DEF Request
<1>9. \A v \in Units : ~Serves(d, v)
  BY <1>2 DEF Serves, Live, Stages
<1>. HIDE DEF d, u, i
<1>10. Knows(n)'
  BY <1>2, <1>6, <1>7, <1>8, IdleKnows DEF Knows
<1>11. ServesOne'
  BY <1>2, <1>3, <1>6, FleetAssumption DEF BoardInv, ServesOne
<1>12. WaitingHasNone'
  BY <1>2, <1>5 DEF BoardInv, WaitingHasNone
<1>13. StoodDown'
  <2>. SUFFICES ASSUME NEW j \in Incidents, closer[j] = "TRIP_END"
                PROVE  LiveFor(j)' = {} /\ inc[j] = "DISMISSED"
    BY <1>4 DEF StoodDown
  <2>1. LiveFor(j) = {} /\ inc[j] = "DISMISSED"
    BY DEF BoardInv, StoodDown
  <2>2. j # i
    BY <1>2, <2>1 DEF IncidentOpen
  <2>. QED BY <1>5, <2>1, <2>2 DEF LiveFor
<1>14. ASSUME NEW v \in Units
       PROVE  \/ n.pc \in {"hold", "release"} /\ n.u = v
              \/ unit'[v] = "DISPATCHED" <=> \E e \in Dispatches : Serves(e, v)'
  <2>1. unit[v] = "DISPATCHED" <=> \E e \in Dispatches : Serves(e, v)
    BY <1>1, StrictlyBusy
  <2>2. CASE v = u
    BY <1>8, <2>2, FleetAssumption
  <2>3. CASE v # u
    BY <1>4, <1>6, <1>9, <2>1, <2>3
  <2>. QED BY <2>2, <2>3
<1>. QED BY <1>1, <1>4, <1>7, <1>10, <1>11, <1>12, <1>13, <1>14, RequestMoves

LEMMA AttachBoard ==
  ASSUME IInv, BoardInv, NEW r \in Requests, Attach(r)
  PROVE  BoardInv'
<1>1. /\ Others(r) /\ req[r].pc = "attach" /\ Knows(req[r])
      /\ req[r] \in Request /\ Remembers(r)
  BY InFlight DEF BoardInv, Attach, IInv, HandlersRemember, TypeOK
<1>. DEFINE d == req[r].d
            u == req[r].u
<1>2. /\ d \in Dispatches /\ status[d] = "REQUESTED" /\ unitOf[d] = None
      /\ u \in Units /\ unit[u] = "AVAILABLE" /\ u # None
  BY <1>1, FleetAssumption DEF Remembers, Knows, BoardInv, WaitingHasNone
<1>3. \A e \in Dispatches : ~Serves(e, u)
  BY <1>1, <1>2, Available
<1>4. /\ status' = [status EXCEPT ![d] = "ASSIGNED"]
      /\ unitOf' = [unitOf EXCEPT ![d] = u]
      /\ UNCHANGED <<inc, closer, incOf, unit, cln>>
  BY DEF Attach
<1>5. /\ status'[d] = "ASSIGNED" /\ unitOf'[d] = u
      /\ \A e \in Dispatches : e # d => status'[e] = status[e] /\ unitOf'[e] = unitOf[e]
  BY <1>2, <1>4 DEF IInv, TypeOK
<1>6. ASSUME NEW v \in Units, NEW e \in Dispatches
      PROVE  Serves(e, v)' <=> IF e = d THEN v = u ELSE Serves(e, v)
  BY <1>5 DEF Serves, Live, Stages
<1>7. PICK n : req' = [req EXCEPT ![r] = n] /\ n = [req[r] EXCEPT !.pc = "hold"]
  BY DEF Attach, Continue
<1>8. n.pc = "hold" /\ n.d = d /\ n.u = u
  BY <1>1, <1>7 DEF Request
<1>9. \A v \in Units : ~Serves(d, v)
  BY <1>2, FleetAssumption DEF Serves
<1>. HIDE DEF d, u
<1>11. Knows(n)'
  BY <1>2, <1>5, <1>8 DEF Knows, Serves, Live, Stages
<1>12. ServesOne'
  BY <1>2, <1>3, <1>6 DEF BoardInv, ServesOne
<1>13. WaitingHasNone'
  BY <1>2, <1>5 DEF BoardInv, WaitingHasNone
<1>14. StoodDown'
  <2>1. \A e \in Dispatches : status'[e] \in Live => status[e] \in Live
    BY <1>2, <1>5 DEF Live
  <2>. QED BY <1>4, <2>1 DEF BoardInv, StoodDown, LiveFor
<1>15. ASSUME NEW v \in Units
       PROVE  \/ n.pc \in {"hold", "release"} /\ n.u = v
              \/ unit'[v] = "DISPATCHED" <=> \E e \in Dispatches : Serves(e, v)'
  <2>1. unit[v] = "DISPATCHED" <=> \E e \in Dispatches : Serves(e, v)
    BY <1>1, StrictlyBusy
  <2>2. CASE v = u
    BY <1>8, <2>2
  <2>3. CASE v # u
    BY <1>4, <1>6, <1>9, <2>1, <2>3
  <2>. QED BY <2>2, <2>3
<1>. QED BY <1>1, <1>4, <1>7, <1>11, <1>12, <1>13, <1>14, <1>15, RequestMoves

\* The other units are not in anybody's hands while r turns one.
LEMMA OthersBusy ==
  ASSUME BoardInv, NEW r \in Requests, Others(r), NEW u \in Units, u # req[r].u
  PROVE  unit[u] = "DISPATCHED" <=> \E d \in Dispatches : Serves(d, u)
<1>1. ~Turning(u)
  BY IdleKnows DEF Turning, Others
<1>. QED BY <1>1 DEF BoardInv, Busy

LEMMA HoldBoard ==
  ASSUME IInv, BoardInv, NEW r \in Requests, Hold(r)
  PROVE  BoardInv'
<1>1. /\ Others(r) /\ req[r].pc = "hold" /\ req[r].u \in Units
      /\ req[r].d \in Dispatches /\ Serves(req[r].d, req[r].u)
  BY InFlight DEF BoardInv, Hold, Knows, IInv, HandlersRemember, Remembers
<1>2. ServesOne' /\ WaitingHasNone' /\ StoodDown'
  BY DEF BoardInv, ServesOne, Serves, WaitingHasNone, StoodDown, LiveFor, Hold
<1>3. ASSUME NEW v \in Units
      PROVE  unit'[v] = "DISPATCHED" <=> \E e \in Dispatches : Serves(e, v)'
  <2>1. CASE v = req[r].u
    BY <1>1, <2>1 DEF Serves, Hold, IInv, TypeOK
  <2>2. CASE v # req[r].u
    <3>1. unit'[v] = unit[v]
      BY <2>2 DEF Hold, IInv, TypeOK
    <3>. QED BY <1>1, <2>2, <3>1, OthersBusy DEF Serves, Hold
  <2>. QED BY <2>1, <2>2
<1>. QED BY <1>1, <1>2, <1>3, IdleKnows, RequestMoves DEF Hold, Finish

LEMMA ReleaseBoard ==
  ASSUME IInv, BoardInv, NEW r \in Requests, Release(r)
  PROVE  BoardInv'
<1>1. /\ Others(r) /\ req[r].pc = "release" /\ req[r].u \in Units
      /\ \A e \in Dispatches : ~Serves(e, req[r].u)
  BY InFlight DEF BoardInv, Release, Knows, IInv, HandlersRemember, Remembers
<1>2. ServesOne' /\ WaitingHasNone' /\ StoodDown'
  BY DEF BoardInv, ServesOne, Serves, WaitingHasNone, StoodDown, LiveFor, Release
<1>3. ASSUME NEW v \in Units
      PROVE  unit'[v] = "DISPATCHED" <=> \E e \in Dispatches : Serves(e, v)'
  <2>1. CASE v = req[r].u
    <3>1. unit'[v] = "AVAILABLE"
      BY <2>1 DEF Release, IInv, TypeOK
    <3>. QED BY <1>1, <2>1, <3>1 DEF Serves, Release
  <2>2. CASE v # req[r].u
    <3>1. unit'[v] = unit[v]
      BY <2>2 DEF Release, IInv, TypeOK
    <3>. QED BY <1>1, <2>2, <3>1, OthersBusy DEF Serves, Release
  <2>. QED BY <2>1, <2>2
<1>4. PICK n : /\ req' = [req EXCEPT ![r] = n]
               /\ n = Idle \/ n = [req[r] EXCEPT !.pc = "count"]
  BY DEF Release, Continue, Finish
<1>5. n.pc \in {"idle", "count"}
  BY <1>4, IdleKnows DEF IInv, TypeOK, Request
<1>6. Knows(n)'
  BY <1>5 DEF Knows
<1>. QED BY <1>1, <1>2, <1>3, <1>4, <1>6, RequestMoves DEF Release

\* A dispatch that is closed gives its unit up; one that is advanced keeps it.
LEMMA MoveBoard ==
  ASSUME IInv, BoardInv, NEW r \in Requests, Move(r)
  PROVE  BoardInv'
<1>1. /\ Others(r) /\ req[r].pc = "move" /\ Knows(req[r])
      /\ req[r] \in Request /\ Remembers(r)
  BY InFlight DEF BoardInv, Move, IInv, HandlersRemember, TypeOK
<1>. DEFINE d == req[r].d
            u == req[r].u
            to == req[r].to
<1>2. /\ d \in Dispatches /\ status[d] \in Live /\ u = unitOf[d]
      /\ to \in (Stages \ {"ASSIGNED"}) \cup {"CANCELLED"}
      /\ u \in Units \cup {None}
  BY <1>1 DEF Remembers, Knows, Request
<1>3. /\ status' = [status EXCEPT ![d] = to]
      /\ UNCHANGED <<inc, closer, unitOf, incOf, unit, cln>>
  BY DEF Move
<1>4. status'[d] = to /\ \A e \in Dispatches : e # d => status'[e] = status[e]
  BY <1>2, <1>3 DEF IInv, TypeOK
<1>5. PICK closes \in BOOLEAN : closes <=> to \in {"COMPLETED", "CANCELLED"}
  OBVIOUS
<1>6. to \in Live <=> ~closes
  BY <1>2, <1>5 DEF Live, Stages
<1>7. \A v \in Units, e \in Dispatches : Serves(e, v)' <=> Serves(e, v) /\ ~(closes /\ e = d)
  BY <1>2, <1>3, <1>4, <1>6 DEF Serves
<1>8. PICK n : /\ req' = [req EXCEPT ![r] = n]
               /\ IF closes /\ u # None THEN n = [req[r] EXCEPT !.pc = "release"] ELSE n = Idle
  BY <1>5 DEF Move, Continue, Finish
<1>9. closes /\ u # None => n.pc = "release" /\ n.u = u
  BY <1>1, <1>8 DEF Request
<1>10. closes => \A v \in Units : Serves(d, v) => v = u
  BY <1>2 DEF Serves
<1>. HIDE DEF d, u, to
<1>11. ServesOne'
  BY <1>7 DEF BoardInv, ServesOne
<1>12. ASSUME closes, u # None PROVE \A e \in Dispatches : ~(Serves(e, u) /\ ~(closes /\ e = d))
  <2>1. Serves(d, u)
    BY <1>2 DEF Serves
  <2>. QED BY <1>2, <1>12, <2>1 DEF BoardInv, ServesOne
<1>13. Knows(n)'
  <2>1. CASE closes /\ u # None
    <3>1. \A e \in Dispatches : ~Serves(e, n.u)'
      BY <1>2, <1>7, <1>9, <1>12, <2>1
    <3>. QED BY <1>9, <2>1, <3>1 DEF Knows
  <2>2. CASE ~(closes /\ u # None)
    BY <1>8, <2>2, IdleKnows
  <2>. QED BY <2>1, <2>2
<1>14. WaitingHasNone'
  <2>1. to # "REQUESTED"
    BY <1>2 DEF Stages
  <2>. QED BY <1>3, <1>4, <2>1 DEF BoardInv, WaitingHasNone
<1>15. StoodDown'
  <2>1. \A e \in Dispatches : status'[e] \in Live => status[e] \in Live
    BY <1>2, <1>4
  <2>. QED BY <1>3, <2>1 DEF BoardInv, StoodDown, LiveFor
<1>16. ASSUME NEW v \in Units
       PROVE  \/ n.pc \in {"hold", "release"} /\ n.u = v
              \/ unit'[v] = "DISPATCHED" <=> \E e \in Dispatches : Serves(e, v)'
  <2>1. unit[v] = "DISPATCHED" <=> \E e \in Dispatches : Serves(e, v)
    BY <1>1, StrictlyBusy
  <2>2. CASE closes /\ v = u
    BY <1>9, <2>2, FleetAssumption
  <2>3. CASE ~closes \/ v # u
    BY <1>3, <1>7, <1>10, <2>1, <2>3
  <2>. QED BY <2>2, <2>3
<1>. QED BY <1>1, <1>3, <1>8, <1>11, <1>13, <1>14, <1>15, <1>16, RequestMoves

-----------------------------------------------------------------------------
(* The end of a trip, the inventory *)

OnlyCleaner(c) == /\ \A r \in Requests : req[r] = Idle
                  /\ \A e \in Cleaners \ {c} : cln[e] = Rest

LEMMA CleanerInFlight ==
  ASSUME BoardInv, NEW c \in Cleaners, cln[c].pc # "idle"
  PROVE  OnlyCleaner(c)
  BY IdleKnows DEF BoardInv, Alone, OnlyCleaner

LEMMA NobodyTurns ==
  ASSUME BoardInv, \A r \in Requests : req[r] = Idle, NEW u \in Units
  PROVE  unit[u] = "DISPATCHED" <=> \E d \in Dispatches : Serves(d, u)
<1>1. ~Turning(u)
  BY IdleKnows DEF Turning
<1>. QED BY <1>1 DEF BoardInv, Busy

\* The clean-up of c goes on to remember k.
LEMMA CleanerMoves ==
  ASSUME IInv, BoardInv, NEW c \in Cleaners, NEW k, OnlyCleaner(c),
         cln' = [cln EXCEPT ![c] = k], req' = req,
         CleanerKnows(k)', ServesOne', WaitingHasNone', StoodDown',
         \A u \in Units : unit'[u] = "DISPATCHED" <=> \E d \in Dispatches : Serves(d, u)'
  PROVE  BoardInv'
<1>1. cln'[c] = k /\ \A e \in Cleaners \ {c} : cln'[e] = Rest
  BY DEF IInv, TypeOK, OnlyCleaner
<1>2. \A r \in Requests : req'[r] = Idle
  BY DEF OnlyCleaner
<1>3. Alone'
  BY <1>1, <1>2 DEF Alone
<1>4. Busy'
  BY DEF Busy
<1>5. ASSUME NEW r \in Requests PROVE Knows(req[r])'
  <2>1. req'[r] = Idle /\ Knows(Idle)'
    BY <1>2, IdleKnows
  <2>. QED BY <2>1 DEF Knows, Serves
<1>6. ASSUME NEW e \in Cleaners PROVE CleanerKnows(cln[e])'
  <2>1. CleanerKnows(Rest)' /\ (cln'[e] = k \/ cln'[e] = Rest)
    BY <1>1, IdleKnows
  <2>. QED BY <2>1 DEF CleanerKnows, LiveFor
<1>. QED BY <1>3, <1>4, <1>5, <1>6 DEF BoardInv

LEMMA CleanerReads ==
  ASSUME IInv, BoardInv, NEW c \in Cleaners, NEW k, OnlyCleaner(c),
         cln' = [cln EXCEPT ![c] = k], CleanerKnows(k),
         UNCHANGED <<inc, closer, status, unitOf, incOf, unit, req>>
  PROVE  BoardInv'
<1>1. CleanerKnows(k)'
  BY DEF CleanerKnows, LiveFor
<1>2. ServesOne' /\ WaitingHasNone' /\ StoodDown'
  BY DEF BoardInv, ServesOne, Serves, WaitingHasNone, StoodDown, LiveFor
<1>3. ASSUME NEW u \in Units
      PROVE  unit'[u] = "DISPATCHED" <=> \E d \in Dispatches : Serves(d, u)'
  BY <1>3, NobodyTurns DEF Serves, OnlyCleaner
<1>. QED BY <1>1, <1>2, <1>3, CleanerMoves

LEMMA StartCleaningBoard ==
  ASSUME OneAtATime, IInv, BoardInv, NEW c \in Cleaners, NEW t \in Trips, NEW end \in BOOLEAN,
         StartCleaning(c, t, end)
  PROVE  BoardInv'
<1>1. PICK k : k = [Rest EXCEPT !.pc = "incidents", !.t = t, !.end = end]
  OBVIOUS
<1>2. k.pc = "incidents"
  BY <1>1 DEF Rest
<1>3. CleanerKnows(k)
  BY <1>2 DEF CleanerKnows
<1>4. OnlyCleaner(c)
  BY DEF StartCleaning, CanStart, OneAtATime, Quiet, OnlyCleaner
<1>5. cln' = [cln EXCEPT ![c] = k] /\ UNCHANGED <<inc, closer, status, unitOf, incOf, unit, req>>
  BY <1>1 DEF StartCleaning, rows
<1>. QED BY <1>3, <1>4, <1>5, CleanerReads

LEMMA FindIncidentsBoard ==
  ASSUME IInv, BoardInv, NEW c \in Cleaners, FindIncidents(c)
  PROVE  BoardInv'
<1>1. PICK k : k = [cln[c] EXCEPT !.pc = "dispatches",
                                  !.incs = {i \in Incidents : TripOf[i] = cln[c].t
                                                              /\ inc[i] \in IncidentOpen}]
  OBVIOUS
<1>2. k.pc = "dispatches"
  BY <1>1 DEF IInv, TypeOK, Cleaning
<1>3. CleanerKnows(k)
  BY <1>2 DEF CleanerKnows
<1>4. OnlyCleaner(c)
  BY CleanerInFlight DEF FindIncidents
<1>5. cln' = [cln EXCEPT ![c] = k] /\ UNCHANGED <<inc, closer, status, unitOf, incOf, unit, req>>
  BY <1>1 DEF FindIncidents, rows
<1>. QED BY <1>3, <1>4, <1>5, CleanerReads

LEMMA FindDispatchesBoard ==
  ASSUME IInv, BoardInv, NEW c \in Cleaners, FindDispatches(c)
  PROVE  BoardInv'
<1>. DEFINE found == UNION {LiveFor(i) : i \in cln[c].incs}
<1>1. PICK k : k = [cln[c] EXCEPT !.pc = "expire", !.dsps = found,
                                  !.units = {unitOf[d] : d \in found} \ {None}]
  OBVIOUS
<1>2. /\ k.incs = cln[c].incs /\ k.dsps = found
      /\ k.units = {unitOf[d] : d \in found} \ {None}
  BY <1>1 DEF IInv, TypeOK, Cleaning
<1>3. CleanerKnows(k)
  BY <1>2 DEF CleanerKnows
<1>4. OnlyCleaner(c)
  BY CleanerInFlight DEF FindDispatches
<1>5. cln' = [cln EXCEPT ![c] = k] /\ UNCHANGED <<inc, closer, status, unitOf, incOf, unit, req>>
  BY <1>1 DEF FindDispatches, rows
<1>. QED BY <1>3, <1>4, <1>5, CleanerReads

LEMMA EndTripBoard ==
  ASSUME IInv, BoardInv, NEW c \in Cleaners, EndTrip(c)
  PROVE  BoardInv'
<1>1. OnlyCleaner(c)
  BY CleanerInFlight DEF EndTrip
<1>. QED BY <1>1, IdleKnows, CleanerReads DEF EndTrip

\* The units that are freed are the ones the cancelled dispatches held, and no
\* other dispatch holds them.
LEMMA ExpireBoard ==
  ASSUME IInv, BoardInv, NEW c \in Cleaners, Expire(c)
  PROVE  BoardInv'
<1>1. /\ OnlyCleaner(c) /\ cln[c] \in Cleaning
      /\ cln[c].dsps = UNION {LiveFor(i) : i \in cln[c].incs}
      /\ cln[c].units = {unitOf[d] : d \in cln[c].dsps} \ {None}
  BY CleanerInFlight DEF BoardInv, CleanerKnows, Expire, IInv, TypeOK
<1>. DEFINE ds == cln[c].dsps
            is == cln[c].incs
<1>2. \A d \in Dispatches : d \in ds <=> status[d] \in Live /\ incOf[d] \in is
  BY <1>1 DEF LiveFor
<1>3. /\ \A d \in Dispatches : status'[d] = IF d \in ds THEN "CANCELLED" ELSE status[d]
      /\ \A u \in Units : unit'[u] = IF u \in cln[c].units THEN "AVAILABLE" ELSE unit[u]
      /\ \A i \in Incidents : /\ inc'[i] = IF i \in is THEN "DISMISSED" ELSE inc[i]
                              /\ closer'[i] = IF i \in is THEN "TRIP_END" ELSE closer[i]
      /\ UNCHANGED <<unitOf, incOf, req>>
  BY DEF Expire
<1>4. \A u \in Units, d \in Dispatches : Serves(d, u)' <=> Serves(d, u) /\ d \notin ds
  BY <1>3 DEF Serves, Live, Stages
<1>5. \A u \in Units : u \in cln[c].units <=> \E d \in Dispatches : d \in ds /\ Serves(d, u)
  <2>1. ds \subseteq Dispatches
    BY <1>1 DEF Cleaning
  <2>2. \A u \in Units : u # None
    BY FleetAssumption
  <2>. QED BY <1>1, <1>2, <2>1, <2>2 DEF Serves
<1>. HIDE DEF ds, is
<1>6. PICK k : /\ cln' = [cln EXCEPT ![c] = k]
               /\ k = IF cln[c].end THEN [Rest EXCEPT !.pc = "end", !.t = cln[c].t] ELSE Rest
  BY DEF Expire
<1>7. k.pc # "expire"
  <2>1. [Rest EXCEPT !.pc = "end", !.t = cln[c].t].pc = "end"
    BY DEF Rest
  <2>. QED BY <1>6, <2>1, IdleKnows
<1>8. CleanerKnows(k)'
  BY <1>7 DEF CleanerKnows
<1>9. ServesOne'
  BY <1>4 DEF BoardInv, ServesOne
<1>10. WaitingHasNone'
  BY <1>3 DEF BoardInv, WaitingHasNone
<1>11. StoodDown'
  <2>. SUFFICES ASSUME NEW i \in Incidents, closer'[i] = "TRIP_END"
                PROVE  LiveFor(i)' = {} /\ inc'[i] = "DISMISSED"
    BY DEF StoodDown
  <2>1. CASE i \in is
    BY <1>2, <1>3, <2>1 DEF LiveFor, Live, Stages
  <2>2. CASE i \notin is
    <3>1. LiveFor(i) = {} /\ inc[i] = "DISMISSED"
      BY <1>3, <2>2 DEF BoardInv, StoodDown
    <3>. QED BY <1>3, <2>2, <3>1 DEF LiveFor, Live, Stages
  <2>. QED BY <2>1, <2>2
<1>12. ASSUME NEW u \in Units
       PROVE  unit'[u] = "DISPATCHED" <=> \E d \in Dispatches : Serves(d, u)'
  <2>1. unit[u] = "DISPATCHED" <=> \E d \in Dispatches : Serves(d, u)
    BY <1>1, NobodyTurns DEF OnlyCleaner
  <2>2. CASE u \in cln[c].units
    <3>1. PICK d \in Dispatches : d \in ds /\ Serves(d, u)
      BY <1>5, <2>2
    <3>2. \A e \in Dispatches : Serves(e, u) => e = d
      BY <3>1 DEF BoardInv, ServesOne
    <3>. QED BY <1>3, <1>4, <2>2, <3>1, <3>2
  <2>3. CASE u \notin cln[c].units
    BY <1>3, <1>4, <1>5, <2>1, <2>3
  <2>. QED BY <2>2, <2>3
<1>. QED BY <1>1, <1>3, <1>6, <1>8, <1>9, <1>10, <1>11, <1>12, CleanerMoves

LEMMA RegisterUnitBoard ==
  ASSUME OneAtATime, IInv, BoardInv, NEW u \in Units, RegisterUnit(u)
  PROVE  BoardInv'
<1>1. Quiet
  BY DEF RegisterUnit, CanStart, OneAtATime
<1>2. Alone' /\ ServesOne' /\ WaitingHasNone' /\ StoodDown'
  BY DEF RegisterUnit, BoardInv, Alone, ServesOne, Serves, WaitingHasNone, StoodDown, LiveFor
<1>3. Busy'
  <2>. SUFFICES ASSUME NEW v \in Units
                PROVE  unit'[v] = "DISPATCHED" <=> \E d \in Dispatches : Serves(d, v)'
    BY DEF Busy
  <2>1. unit[v] = "DISPATCHED" <=> \E d \in Dispatches : Serves(d, v)
    BY <1>1, NobodyTurns DEF Quiet
  <2>2. unit'[v] = "DISPATCHED" <=> unit[v] = "DISPATCHED"
    BY DEF RegisterUnit, IInv, TypeOK
  <2>. QED BY <2>1, <2>2 DEF RegisterUnit, Serves
<1>4. ASSUME NEW r \in Requests PROVE Knows(req[r])'
  <2>1. req'[r] = Idle /\ Knows(Idle)'
    BY <1>1, IdleKnows DEF RegisterUnit, Quiet
  <2>. QED BY <2>1 DEF Knows, Serves
<1>5. ASSUME NEW c \in Cleaners PROVE CleanerKnows(cln[c])'
  <2>1. cln'[c] = Rest /\ CleanerKnows(Rest)'
    BY <1>1, IdleKnows DEF RegisterUnit, Quiet
  <2>. QED BY <2>1 DEF CleanerKnows, LiveFor
<1>. QED BY <1>2, <1>3, <1>4, <1>5 DEF BoardInv

-----------------------------------------------------------------------------
(* The invariant *)

LEMMA InitBoard ==
  ASSUME Init
  PROVE  BoardInv
<1>1. \A r \in Requests : req[r] = Idle
  BY DEF Init
<1>2. \A c \in Cleaners : cln[c] = Rest
  BY DEF Init
<1>3. \A d \in Dispatches, u \in Units : ~Serves(d, u)
  BY DEF Init, Serves, Live, Stages
<1>4. Alone /\ ServesOne /\ Busy
  BY <1>1, <1>2, <1>3 DEF Alone, ServesOne, Busy, Init
<1>5. WaitingHasNone /\ StoodDown
  BY DEF Init, WaitingHasNone, StoodDown
<1>. QED BY <1>1, <1>2, <1>4, <1>5, IdleKnows DEF BoardInv

LEMMA StutterBoard ==
  ASSUME BoardInv, UNCHANGED vars
  PROVE  BoardInv'
  BY DEF vars, rows, BoardInv, Alone, ServesOne, Serves, WaitingHasNone, Busy, Turning, StoodDown,
         LiveFor, Knows, CleanerKnows

LEMMA NextBoard ==
  ASSUME OneAtATime, IInv, BoardInv, [Next]_vars
  PROVE  BoardInv'
<1>1. ASSUME NEW r \in Requests, RequestStep(r) PROVE BoardInv'
  <2>1. ~FailRequest(r)
    BY DEF FailRequest, OneAtATime, IInv, TypeOK
  <2>. QED BY <1>1, <2>1, BeginRaiseBoard, BeginIncidentBoard, BeginSetUnitStatusBoard,
              BeginRequestBoard, BeginCreateBoard, BeginAssignBoard, BeginCancelBoard,
              BeginAdvanceBoard, RaiseBoard, MoveIncidentBoard, SetUnitStatusBoard,
              CheckUnitBoard, InsertBoard, AttachBoard, HoldBoard, MoveBoard, ReleaseBoard,
              CountRemainingBoard, ResolveIncidentBoard DEF RequestStep
<1>2. ASSUME NEW c \in Cleaners, CleanerStep(c) PROVE BoardInv'
  <2>1. ~FailCleaner(c)
    BY DEF FailCleaner, OneAtATime, IInv, TypeOK
  <2>. QED BY <1>2, <2>1, StartCleaningBoard, FindIncidentsBoard, FindDispatchesBoard,
              ExpireBoard, EndTripBoard DEF CleanerStep, BeginEndTrip
<1>3. ASSUME NEW t \in Trips, BeginReconcile(t) PROVE BoardInv'
  <2>1. Job \in Cleaners
    BY DEF Cleaners
  <2>. QED BY <1>3, <2>1, StartCleaningBoard DEF BeginReconcile
<1>. QED BY <1>1, <1>2, <1>3, RegisterUnitBoard, StutterBoard DEF Next

\* With one handler at a time what a handler has read still holds when it writes.
THEOREM BoardInvariance ==
  ASSUME OneAtATime
  PROVE  Spec => [](IInv /\ BoardInv)
<1>1. Init => IInv /\ BoardInv
  BY InitHolds, InitBoard
<1>2. IInv /\ BoardInv /\ [Next]_vars => (IInv /\ BoardInv)'
  BY NextKeeps, NextBoard
<1>. QED BY <1>1, <1>2, PTL DEF Spec

\* Where handlers do not overlap and none fails, a unit is DISPATCHED exactly
\* when an open dispatch holds it (emergencyDispatch.service.js and the trip end
\* write the dispatch and the unit in two steps).
THEOREM BusyAreServing ==
  ASSUME OneAtATime
  PROVE  Spec => []BusyIffServing
<1>1. BoardInv => BusyIffServing
  BY NobodyTurns DEF BusyIffServing, Quiet
<1>. QED BY <1>1, BoardInvariance, PTL

\* Under the same conditions an incident that the end of its trip dismissed has
\* no open dispatch (expireSafetyState cancels what it finds for it).
THEOREM TripEndIsThorough ==
  ASSUME OneAtATime
  PROVE  Spec => []TripEndStandsDown
<1>1. BoardInv => TripEndStandsDown
  BY DEF BoardInv, StoodDown, TripEndStandsDown
<1>. QED BY <1>1, BoardInvariance, PTL

-----------------------------------------------------------------------------
(* The rows implement the response board *)

\* The dispatch a unit serves, where there is one, and there is at most one.
LEMMA ServingIs ==
  ASSUME ServesOne, NEW u \in Units
  PROVE  /\ \A d \in Dispatches : Serves(d, u) => Serving[u] = d
         /\ (\A d \in Dispatches : ~Serves(d, u)) => Serving[u] = None
  BY DEF Serving, ServesOne

LEMMA ServingIsThen ==
  ASSUME ServesOne', NEW u \in Units
  PROVE  /\ \A d \in Dispatches : Serves(d, u)' => Serving'[u] = d
         /\ (\A d \in Dispatches : ~Serves(d, u)') => Serving'[u] = None
  BY DEF Serving, ServesOne

LEMMA PhaseIs ==
  ASSUME TypeOK, NEW d \in Dispatches
  PROVE  Phase[d] = CASE status[d] = "NONE"      -> "absent"
                      [] status[d] = "REQUESTED" -> "waiting"
                      [] status[d] \in {"ASSIGNED", "DISPATCHED", "EN_ROUTE", "ON_SCENE"}
                                                 -> "responding"
                      [] status[d] \in {"COMPLETED", "CANCELLED"} -> "closed"
<1>1. status[d] \in {"NONE", "REQUESTED", "ASSIGNED", "DISPATCHED", "EN_ROUTE", "ON_SCENE",
                     "COMPLETED", "CANCELLED"}
  BY DEF TypeOK, DispatchStatus, Stages
<1>2. status[d] \in Live \ {"REQUESTED"} <=>
        status[d] \in {"ASSIGNED", "DISPATCHED", "EN_ROUTE", "ON_SCENE"}
  BY DEF Live, Stages
<1>. QED BY <1>1, <1>2 DEF Phase

LEMMA PhaseIsThen ==
  ASSUME TypeOK', NEW d \in Dispatches
  PROVE  Phase'[d] = CASE status'[d] = "NONE"      -> "absent"
                       [] status'[d] = "REQUESTED" -> "waiting"
                       [] status'[d] \in {"ASSIGNED", "DISPATCHED", "EN_ROUTE", "ON_SCENE"}
                                                   -> "responding"
                       [] status'[d] \in {"COMPLETED", "CANCELLED"} -> "closed"
<1>1. status'[d] \in {"NONE", "REQUESTED", "ASSIGNED", "DISPATCHED", "EN_ROUTE", "ON_SCENE",
                     "COMPLETED", "CANCELLED"}
  BY DEF TypeOK, DispatchStatus, Stages
<1>2. status'[d] \in Live \ {"REQUESTED"} <=>
        status'[d] \in {"ASSIGNED", "DISPATCHED", "EN_ROUTE", "ON_SCENE"}
  BY DEF Live, Stages
<1>. QED BY <1>1, <1>2 DEF Phase

LEMMA BoardStays ==
  ASSUME UNCHANGED <<status, unitOf>>
  PROVE  UNCHANGED Board!bvars
<1>1. Phase' = Phase
  BY DEF Phase
<1>2. Serving' = Serving
  BY DEF Serving, Serves
<1>. QED BY <1>1, <1>2 DEF Board!bvars

\* Only the dispatch d changes.
LEMMA PhaseMoves ==
  ASSUME TypeOK, TypeOK', NEW d \in Dispatches, NEW p, Phase'[d] = p,
         \A e \in Dispatches : e # d => status'[e] = status[e]
  PROVE  Phase' = [Phase EXCEPT ![d] = p]
<1>1. \A e \in Dispatches : e # d => Phase'[e] = Phase[e]
  BY PhaseIs, PhaseIsThen
<1>2. /\ Phase = [e \in Dispatches |-> Phase[e]]
      /\ Phase' = [e \in Dispatches |-> Phase'[e]]
  BY DEF Phase
<1>. QED BY <1>1, <1>2

LEMMA AskStep ==
  ASSUME TypeOK, TypeOK', ServesOne, ServesOne', NEW d \in Dispatches,
         status[d] = "NONE", status'[d] = "REQUESTED",
         \A e \in Dispatches : e # d => status'[e] = status[e],
         \A e \in Dispatches, u \in Units : Serves(e, u)' <=> Serves(e, u)
  PROVE  Board!Ask(d)
<1>1. Phase[d] = "absent" /\ Phase'[d] = "waiting"
  BY PhaseIs, PhaseIsThen
<1>2. \A u \in Units : Serving'[u] = Serving[u]
  BY ServingIs, ServingIsThen
<1>3. Serving' = Serving
  BY <1>2 DEF Serving
<1>. QED BY <1>1, <1>3, PhaseMoves DEF Board!Ask

LEMMA CommitStep ==
  ASSUME TypeOK, TypeOK', ServesOne, ServesOne', NEW d \in Dispatches, NEW u \in Units,
         status[d] \in {"NONE", "REQUESTED"}, status'[d] = "ASSIGNED",
         \A e \in Dispatches : e # d => status'[e] = status[e],
         \A e \in Dispatches : ~Serves(e, u),
         \A v \in Units : ~Serves(d, v),
         \A e \in Dispatches, v \in Units :
            Serves(e, v)' <=> IF e = d THEN v = u ELSE Serves(e, v)
  PROVE  Board!Commit(d, u)
<1>1. Phase[d] \in {"absent", "waiting"} /\ Phase'[d] = "responding"
  BY PhaseIs, PhaseIsThen
<1>2. Serving[u] = None /\ Serving'[u] = d
  BY ServingIs, ServingIsThen
<1>3. \A v \in Units : v # u => Serving'[v] = Serving[v]
  BY ServingIs, ServingIsThen
<1>4. Serving' = [Serving EXCEPT ![u] = d]
  BY <1>2, <1>3 DEF Serving
<1>. QED BY <1>1, <1>2, <1>4, PhaseMoves DEF Board!Commit

LEMMA CloseStep ==
  ASSUME TypeOK, TypeOK', ServesOne, ServesOne', NEW ds \in SUBSET Dispatches,
         \A d \in ds : status[d] \in Live,
         \A d \in ds : status'[d] \in {"COMPLETED", "CANCELLED"},
         \A d \in Dispatches \ ds : status'[d] = status[d],
         \A d \in Dispatches, u \in Units : Serves(d, u)' <=> Serves(d, u) /\ d \notin ds
  PROVE  Board!Close(ds)
<1>1. \A d \in ds : Phase[d] \in {"waiting", "responding"}
  BY PhaseIs DEF Live, Stages
<1>2. Phase' = [d \in Dispatches |-> IF d \in ds THEN "closed" ELSE Phase[d]]
  <2>1. \A d \in Dispatches : Phase'[d] = IF d \in ds THEN "closed" ELSE Phase[d]
    BY PhaseIs, PhaseIsThen
  <2>. QED BY <2>1 DEF Phase
<1>3. ASSUME NEW u \in Units
      PROVE  Serving'[u] = IF Serving[u] \in ds THEN None ELSE Serving[u]
  <2>1. CASE \E d \in Dispatches : Serves(d, u)
    <3>1. PICK d \in Dispatches : Serves(d, u)
      BY <2>1
    <3>2. Serving[u] = d /\ \A e \in Dispatches : Serves(e, u) => e = d
      BY <3>1, ServingIs DEF ServesOne
    <3>3. CASE d \in ds
      <4>1. \A e \in Dispatches : ~Serves(e, u)'
        BY <3>2, <3>3
      <4>. QED BY <3>2, <3>3, <4>1, ServingIsThen
    <3>4. CASE d \notin ds
      <4>1. Serves(d, u)'
        BY <3>1, <3>4
      <4>. QED BY <3>2, <3>4, <4>1, ServingIsThen
    <3>. QED BY <3>3, <3>4
  <2>2. CASE \A d \in Dispatches : ~Serves(d, u)
    BY <2>2, ServingIs, ServingIsThen, FleetAssumption
  <2>. QED BY <2>1, <2>2
<1>4. Serving' = [u \in Units |-> IF Serving[u] \in ds THEN None ELSE Serving[u]]
  BY <1>3 DEF Serving
<1>. QED BY <1>1, <1>2, <1>4 DEF Board!Close

LEMMA InsertImplements ==
  ASSUME IInv, BoardInv, TypeOK', ServesOne', NEW r \in Requests, Insert(r)
  PROVE  Board!Next
<1>1. /\ Others(r) /\ req[r].pc = "insert" /\ Knows(req[r])
      /\ req[r] \in Request /\ Remembers(r)
  BY InFlight DEF BoardInv, Insert, IInv, HandlersRemember, TypeOK
<1>2. PICK d, u : d = req[r].d /\ u = req[r].u
  OBVIOUS
<1>3. /\ d \in Dispatches /\ status[d] = "NONE"
      /\ u \in Units \cup {None} /\ (u = None \/ unit[u] = "AVAILABLE")
  BY <1>1, <1>2 DEF Remembers, Request, Knows
<1>4. /\ status'[d] = (IF u = None THEN "REQUESTED" ELSE "ASSIGNED")
      /\ unitOf'[d] = u
      /\ \A e \in Dispatches : e # d => status'[e] = status[e] /\ unitOf'[e] = unitOf[e]
  BY <1>2, <1>3 DEF IInv, TypeOK, Insert
<1>5. \A e \in Dispatches, v \in Units : Serves(e, v)' <=> IF e = d THEN v = u ELSE Serves(e, v)
  BY <1>3, <1>4, FleetAssumption DEF Serves, Live, Stages
<1>6. \A v \in Units : ~Serves(d, v)
  BY <1>3 DEF Serves, Live, Stages
<1>7. TypeOK /\ ServesOne
  BY DEF IInv, BoardInv
<1>8. CASE u = None
  <2>1. \A e \in Dispatches, v \in Units : Serves(e, v)' <=> Serves(e, v)
    BY <1>5, <1>6, <1>8, FleetAssumption
  <2>. QED BY <1>3, <1>4, <1>7, <1>8, <2>1, AskStep DEF Board!Next
<1>9. CASE u # None
  <2>1. \A e \in Dispatches : ~Serves(e, u)
    BY <1>1, <1>3, <1>9, Available
  <2>2. Board!Commit(d, u)
    BY <1>3, <1>4, <1>5, <1>6, <1>7, <1>9, <2>1, CommitStep
  <2>. QED BY <1>3, <1>9, <2>2 DEF Board!Next
<1>. QED BY <1>8, <1>9

LEMMA AttachImplements ==
  ASSUME IInv, BoardInv, TypeOK', ServesOne', NEW r \in Requests, Attach(r)
  PROVE  Board!Next
<1>1. /\ Others(r) /\ req[r].pc = "attach" /\ Knows(req[r])
      /\ req[r] \in Request /\ Remembers(r)
  BY InFlight DEF BoardInv, Attach, IInv, HandlersRemember, TypeOK
<1>2. PICK d, u : d = req[r].d /\ u = req[r].u
  OBVIOUS
<1>3. /\ d \in Dispatches /\ status[d] = "REQUESTED" /\ unitOf[d] = None
      /\ u \in Units /\ unit[u] = "AVAILABLE"
  BY <1>1, <1>2 DEF Remembers, Knows, BoardInv, WaitingHasNone
<1>4. /\ status'[d] = "ASSIGNED" /\ unitOf'[d] = u
      /\ \A e \in Dispatches : e # d => status'[e] = status[e] /\ unitOf'[e] = unitOf[e]
  BY <1>2, <1>3 DEF IInv, TypeOK, Attach
<1>5. \A e \in Dispatches, v \in Units : Serves(e, v)' <=> IF e = d THEN v = u ELSE Serves(e, v)
  BY <1>4 DEF Serves, Live, Stages
<1>6. \A v \in Units : ~Serves(d, v)
  BY <1>3, FleetAssumption DEF Serves
<1>7. \A e \in Dispatches : ~Serves(e, u)
  BY <1>1, <1>3, Available
<1>8. TypeOK /\ ServesOne
  BY DEF IInv, BoardInv
<1>9. Board!Commit(d, u)
  BY <1>3, <1>4, <1>5, <1>6, <1>7, <1>8, CommitStep
<1>. QED BY <1>3, <1>9 DEF Board!Next

\* A move between the stages is not seen on the board.
LEMMA MoveImplements ==
  ASSUME IInv, BoardInv, TypeOK', ServesOne', NEW r \in Requests, Move(r)
  PROVE  Board!Next \/ UNCHANGED Board!bvars
<1>1. /\ req[r].pc = "move" /\ Knows(req[r]) /\ Remembers(r)
  BY DEF BoardInv, Move, IInv, HandlersRemember
<1>2. PICK d, to : d = req[r].d /\ to = req[r].to
  OBVIOUS
<1>3. /\ d \in Dispatches /\ status[d] \in Live
      /\ to \in (Stages \ {"ASSIGNED"}) \cup {"CANCELLED"}
      /\ to \in Stages => unitOf[d] # None
  BY <1>1, <1>2 DEF Remembers, Knows
<1>4. /\ status'[d] = to /\ unitOf' = unitOf
      /\ \A e \in Dispatches : e # d => status'[e] = status[e]
  BY <1>2, <1>3 DEF IInv, TypeOK, Move
<1>5. TypeOK /\ ServesOne
  BY DEF IInv, BoardInv
<1>6. CASE to \in {"COMPLETED", "CANCELLED"}
  <2>1. \A e \in Dispatches, u \in Units : Serves(e, u)' <=> Serves(e, u) /\ e \notin {d}
    BY <1>3, <1>4, <1>6 DEF Serves, Live, Stages
  <2>2. Board!Close({d})
    BY <1>3, <1>4, <1>5, <1>6, <2>1, CloseStep
  <2>. QED BY <1>3, <2>2 DEF Board!Next
<1>7. CASE to \notin {"COMPLETED", "CANCELLED"}
  <2>1. /\ status[d] \in {"ASSIGNED", "DISPATCHED", "EN_ROUTE", "ON_SCENE"}
        /\ to \in {"DISPATCHED", "EN_ROUTE", "ON_SCENE"}
    BY <1>3, <1>7 DEF BoardInv, WaitingHasNone, Live, Stages
  <2>2. \A e \in Dispatches, u \in Units : Serves(e, u)' <=> Serves(e, u)
    BY <1>3, <1>4, <2>1 DEF Serves, Live, Stages
  <2>3. \A e \in Dispatches : Phase'[e] = Phase[e]
    BY <1>4, <1>5, <2>1, PhaseIs, PhaseIsThen
  <2>4. \A u \in Units : Serving'[u] = Serving[u]
    BY <1>5, <2>2, ServingIs, ServingIsThen
  <2>5. Phase' = Phase
    BY <2>3 DEF Phase
  <2>6. Serving' = Serving
    BY <2>4 DEF Serving
  <2>. QED BY <2>5, <2>6 DEF Board!bvars
<1>. QED BY <1>6, <1>7

LEMMA ExpireImplements ==
  ASSUME IInv, BoardInv, TypeOK', ServesOne', NEW c \in Cleaners, Expire(c)
  PROVE  Board!Next \/ UNCHANGED Board!bvars
<1>1. PICK ds : ds = cln[c].dsps
  OBVIOUS
<1>2. ds \in SUBSET Dispatches /\ \A d \in ds : status[d] \in Live
  BY <1>1 DEF BoardInv, CleanerKnows, LiveFor, Expire, IInv, TypeOK, Cleaning
<1>3. /\ \A d \in Dispatches : status'[d] = IF d \in ds THEN "CANCELLED" ELSE status[d]
      /\ unitOf' = unitOf
  BY <1>1 DEF Expire
<1>4. TypeOK /\ ServesOne
  BY DEF IInv, BoardInv
<1>5. \A e \in Dispatches, u \in Units : Serves(e, u)' <=> Serves(e, u) /\ e \notin ds
  BY <1>3 DEF Serves, Live, Stages
<1>6. Board!Close(ds)
  BY <1>2, <1>3, <1>4, <1>5, CloseStep
<1>7. CASE ds = {}
  <2>1. status' = status
    BY <1>3, <1>7 DEF Expire, IInv, TypeOK
  <2>. QED BY <1>3, <2>1, BoardStays
<1>8. CASE ds # {}
  BY <1>2, <1>6, <1>8 DEF Board!Next
<1>. QED BY <1>7, <1>8

LEMMA NextImplements ==
  ASSUME IInv, BoardInv, TypeOK', ServesOne', [Next]_vars
  PROVE  Board!Next \/ UNCHANGED Board!bvars
<1>1. ASSUME NEW r \in Requests, RequestStep(r)
      PROVE  Board!Next \/ UNCHANGED Board!bvars
  <2>1. CASE Insert(r) \/ Attach(r) \/ Move(r)
    BY <2>1, InsertImplements, AttachImplements, MoveImplements
  <2>2. CASE ~(Insert(r) \/ Attach(r) \/ Move(r))
    <3>1. UNCHANGED <<status, unitOf>>
      BY <1>1, <2>2
         DEF RequestStep, BeginRaise, BeginIncident, BeginSetUnitStatus, BeginRequest, BeginCreate,
             BeginAssign, BeginCancel, BeginAdvance, Raise, MoveIncident, SetUnitStatus, CheckUnit,
             Hold, Release, CountRemaining, ResolveIncident, FailRequest, Reading, rows
    <3>. QED BY <3>1, BoardStays
  <2>. QED BY <2>1, <2>2
<1>2. ASSUME NEW c \in Cleaners, CleanerStep(c)
      PROVE  Board!Next \/ UNCHANGED Board!bvars
  <2>1. CASE Expire(c)
    BY <2>1, ExpireImplements
  <2>2. CASE ~Expire(c)
    <3>1. UNCHANGED <<status, unitOf>>
      BY <1>2, <2>2 DEF CleanerStep, BeginEndTrip, StartCleaning, FindIncidents, FindDispatches,
                        EndTrip, FailCleaner, rows
    <3>. QED BY <3>1, BoardStays
  <2>. QED BY <2>1, <2>2
<1>3. ASSUME (\E t \in Trips : BeginReconcile(t)) \/ (\E u \in Units : RegisterUnit(u)) \/ UNCHANGED vars
      PROVE  Board!Next \/ UNCHANGED Board!bvars
  <2>1. UNCHANGED <<status, unitOf>>
    BY <1>3 DEF BeginReconcile, StartCleaning, RegisterUnit, vars, rows
  <2>. QED BY <2>1, BoardStays
<1>. QED BY <1>1, <1>2, <1>3 DEF Next

\* One handler at a time, the rows implement the response board: every step of the
\* backend is a step of the board or leaves it as it is (create, autoAssign, assign,
\* the stages and the end of a trip against what docs promise of a dispatch).
THEOREM RowsImplementBoard ==
  ASSUME OneAtATime
  PROVE  Spec => BoardSpec
<1>1. Init => Board!Init
  <2>. SUFFICES ASSUME Init PROVE Board!Init
    OBVIOUS
  <2>1. Phase = [d \in Dispatches |-> "absent"]
    BY DEF Init, Phase, Live, Stages
  <2>2. \A d \in Dispatches, u \in Units : ~Serves(d, u)
    BY DEF Init, Serves, Live, Stages
  <2>3. Serving = [u \in Units |-> None]
    BY <2>2 DEF Serving
  <2>. QED BY <2>1, <2>3 DEF Board!Init
<1>2. (IInv /\ BoardInv) /\ (IInv /\ BoardInv)' /\ [Next]_vars => [Board!Next]_(Board!bvars)
  BY NextImplements DEF IInv, BoardInv
<1>. QED BY <1>1, <1>2, BoardInvariance, PTL DEF Spec, BoardSpec, Board!Spec
=============================================================================
