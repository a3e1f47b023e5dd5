------------------------- MODULE LocationWatchProofs -------------------------
(***************************************************************************)
(* The type invariant and the four safety properties of LocationWatch, for *)
(* any number of requests, points and alerts.                              *)
(*                                                                         *)
(* None of them is inductive.  IInv adds, for every handler in flight,     *)
(* what it has in its hands: with overlap (Reports) the alert or incident  *)
(* that is still to be written; without overlap, where nobody else moves   *)
(* (Alone), also that the newest point has no event yet, that the last     *)
(* event is the one it read, and that a cache that differs from the        *)
(* database is about to be invalidated.  Each step is shown to move one    *)
(* handler (Moves) and each part of IInv to survive under conditions that  *)
(* most steps meet at once (NewestStep, FreshStep, ReportsStep,            *)
(* CountedStep); what is left is said at the steps that write.             *)
(*                                                                         *)
(* What a report leaves behind once it has been judged is a property of    *)
(* the step that ends it; for that Judging adds, without overlap and       *)
(* failures, what that handler knows until then.                           *)
(***************************************************************************)
EXTENDS LocationWatch, FiniteSetTheorems, TLAPS

Places == {"idle", "store", "checkIns", "miss", "findAlert", "createAlert",
           "findIncident", "createIncident", "zones", "fill", "compare", "crossing",
           "resolve", "schedule", "complete", "resolveAlert", "setActive", "invalidate"}

RowTypes ==
    /\ overlap \in BOOLEAN
    /\ now \in 0..MaxTime
    /\ point \in [Times -> {"NONE", "IN", "OUT"}]
    /\ latest \in 0..MaxTime
    /\ event \in [Times -> {"NONE", "ENTER", "EXIT"}]
    /\ zone \in {"ON", "OFF"}
    /\ cache \in {"NONE", "ON", "OFF"}
    /\ check \in {"NONE", "PENDING", "COMPLETED", "MISSED"}
    /\ overdue \in BOOLEAN
    /\ source \in [Alerts -> {"NONE", "ZONE", "CHECK_IN"}]
    /\ open \in [Alerts -> BOOLEAN]
    /\ reported \in [Alerts -> BOOLEAN]
    /\ failures \in 0..MaxFailures

Handlers == at \in [Requests -> Handler]

\* The handler of p goes on to remember h, the others do not move.
Moves(p, h) == at' = [at EXCEPT ![p] = h]

LEMMA Typed == TypeOK <=> RowTypes /\ Handlers
  BY DEF TypeOK, RowTypes, Handlers

LEMMA Fields ==
  ASSUME NEW h \in Handler
  PROVE  /\ h.pc \in Places
         /\ h.t \in 0..MaxTime
         /\ h.place \in {"NONE", "IN", "OUT"}
         /\ h.seen \in {"NONE", "ON", "OFF"}
         /\ h.src \in {"NONE", "ZONE", "CHECK_IN"}
         /\ h.a \in Alerts
  BY DEF Handler, Places

LEMMA IdleIsHandler == Idle \in Handler
  BY WatchAssumption DEF Idle, Handler, Alerts

\* A handler that moves: what it remembers then, and that nobody else does.
LEMMA MovesTo ==
  ASSUME Handlers, NEW p \in Requests, NEW h \in Handler, Moves(p, h)
  PROVE  /\ Handlers'
         /\ at'[p] = h
         /\ \A q \in Requests : q # p => at'[q] = at[q]
  BY DEF Handlers, Moves

LEMMA Finished ==
  ASSUME Handlers, NEW p \in Requests, Finish(p)
  PROVE  Moves(p, Idle)
  BY DEF Finish, Moves

LEMMA Went ==
  ASSUME Handlers, NEW p \in Requests, NEW pc \in Places, Goto(p, pc)
  PROVE  \E h \in Handler :
           /\ Moves(p, h)
           /\ h.pc = pc /\ h.t = at[p].t /\ h.place = at[p].place
           /\ h.seen = at[p].seen /\ h.src = at[p].src /\ h.a = at[p].a
<1>. DEFINE h == [at[p] EXCEPT !.pc = pc]
<1>1. /\ Moves(p, h)
      /\ h \in Handler /\ h.pc = pc /\ h.t = at[p].t /\ h.place = at[p].place
      /\ h.seen = at[p].seen /\ h.src = at[p].src /\ h.a = at[p].a
  BY DEF Handlers, Goto, Moves, Handler, Places
<1>. QED BY <1>1

-----------------------------------------------------------------------------
(* The inductive invariant *)

Raising == {"findAlert", "createAlert"}
Reporting == {"findIncident", "createIncident"}
InZone == {"zones", "fill", "compare", "crossing"}

\* Without overlap only one handler is in flight.
Alone == Serial => \A p, q \in Requests : at[p] # Idle /\ at[q] # Idle => p = q

\* Points and events up to the latest location, and a point about to be stored
\* is newer than that.
Newest == Serial =>
    /\ \A u \in Times : point[u] # "NONE" => u <= latest
    /\ \A u \in Times : event[u] # "NONE" => u <= latest
    /\ \A p \in Requests : at[p].pc = "store" => at[p].t > latest

\* A cache that has something else is about to be invalidated, and what is about
\* to be cached is what the database has.
Fresh == Serial /\ failures = 0 =>
    /\ cache \in {"NONE", zone} \/ \E p \in Requests : at[p].pc = "invalidate"
    /\ \A p \in Requests : at[p].pc = "fill" => at[p].seen = zone

\* The alarm has been raised, or some handler is about to raise it.
Coming(src) ==
    \E p \in Requests : at[p].pc \in Raising \cup Reporting /\ at[p].src = src
InHand(a) == \E p \in Requests : at[p].pc \in Reporting /\ at[p].a = a
\* What a handler knows, with and without overlap
Knows(h) ==
    /\ h.pc = "setActive" => h.seen # "NONE"
    /\ h.pc \in Raising \cup Reporting => h.src # "NONE"
    /\ h.pc \in Reporting => source[h.a] = h.src
Reports ==
    /\ \A p \in Requests : Knows(at[p])
    /\ failures = 0 =>
         /\ \A a \in Alerts : source[a] # "NONE" => reported[a] \/ InHand(a)
         /\ check = "MISSED" => Raised("CHECK_IN") \/ Coming("CHECK_IN")
         /\ Entries # {} => Raised("ZONE") \/ Coming("ZONE")

\* What the one handler in flight has in hand: the newest point, whose event is
\* not written yet, and an alarm that is missing.
OnPoint(h) == \/ h.pc \in {"checkIns", "miss"} \cup InZone
              \/ h.pc \in Raising \cup Reporting /\ h.src = "CHECK_IN"
Raises(h) == h.pc \in Raising /\ h.src = "ZONE"
ClearsZone(h) == h.pc = "resolve" /\ h.src = "ZONE"
Good(h) ==
    /\ h.pc \in {"store"} \cup InZone => h.t # 0
    /\ OnPoint(h) /\ h.t # 0 => h.t = latest /\ event[h.t] = "NONE"
    /\ h.pc = "crossing" => (h.place = "IN" <=> ~WasInside)
    /\ failures = 0 /\ Raises(h) => OpenOf("ZONE") = {} /\ WasInside

\* The handlers that owe the entry its alert
Owed == {p \in Requests : Raises(at[p])}
Even ==
    /\ Cardinality(Entries) = Cardinality(ZoneAlerts) + Cardinality(Owed)
    /\ WasInside \/ OpenOf("ZONE") = {} \/ \E p \in Requests : ClearsZone(at[p])
Counted == Serial =>
    /\ \A p \in Requests : Good(at[p])
    /\ failures = 0 => Even

IInv == TypeOK /\ Alone /\ Newest /\ Fresh /\ Reports /\ Counted

-----------------------------------------------------------------------------
(* What a step leaves alone *)

Others(p) == Serial => \A q \in Requests : q # p => at[q] = Idle

LEMMA IdleFields ==
  /\ Idle.pc = "idle"
  /\ ~OnPoint(Idle) /\ ~Raises(Idle) /\ ~ClearsZone(Idle)
  /\ Good(Idle) /\ Good(Idle)'
  /\ Knows(Idle) /\ Knows(Idle)'
  BY DEF Idle, OnPoint, Raises, ClearsZone, Good, Knows, Raising, Reporting, InZone

LEMMA InFlight ==
  ASSUME Alone, NEW p \in Requests, at[p].pc # "idle"
  PROVE  Others(p)
  BY IdleFields DEF Alone, Others

LEMMA AloneStep ==
  ASSUME Handlers, NEW p \in Requests, Others(p), NEW h \in Handler, Moves(p, h),
         overlap' = overlap
  PROVE  Alone'
  BY MovesTo DEF Others, Alone, Serial

LEMMA NewestStep ==
  ASSUME Handlers, Newest, NEW p \in Requests, NEW h \in Handler, Moves(p, h),
         UNCHANGED <<overlap, point, latest, event>>,
         h.pc = "store" => h.t > latest
  PROVE  Newest'
  BY MovesTo DEF Newest, Serial

LEMMA FreshStep ==
  ASSUME Handlers, Fresh, NEW p \in Requests, NEW h \in Handler, Moves(p, h),
         UNCHANGED <<overlap, zone, failures>>, cache' \in {cache, "NONE"},
         at[p].pc # "invalidate",
         Serial /\ h.pc = "fill" => h.seen = zone
  PROVE  Fresh'
<1>. SUFFICES ASSUME Serial', failures' = 0
              PROVE  /\ cache' \in {"NONE", zone'} \/ \E q \in Requests : at'[q].pc = "invalidate"
                     /\ \A q \in Requests : at'[q].pc = "fill" => at'[q].seen = zone'
  BY DEF Fresh
<1>1. /\ cache \in {"NONE", zone} \/ \E q \in Requests : at[q].pc = "invalidate"
      /\ \A q \in Requests : at[q].pc = "fill" => at[q].seen = zone
  BY DEF Fresh, Serial
<1>. QED BY <1>1, MovesTo DEF Serial

\* Alerts and incidents are only added, and what the handler had in hand is
\* reported or still in its hands.
LEMMA ReportsStep ==
  ASSUME Handlers, Reports, NEW p \in Requests, NEW h \in Handler, Moves(p, h),
         failures' = failures,
         \A a \in Alerts : source[a] # "NONE" => source'[a] = source[a],
         \A a \in Alerts : reported[a] => reported'[a],
         Knows(h)',
         \A a \in Alerts : source'[a] # "NONE" =>
           source[a] # "NONE" \/ (h.pc \in Reporting /\ h.a = a),
         at[p].pc \in Reporting =>
           reported'[at[p].a] \/ (h.pc \in Reporting /\ h.a = at[p].a),
         \A src : at[p].pc \in Raising \cup Reporting /\ at[p].src = src =>
           Raised(src)' \/ (h.pc \in Raising \cup Reporting /\ h.src = src),
         check' = "MISSED" =>
           check = "MISSED" \/ (h.pc \in Raising \cup Reporting /\ h.src = "CHECK_IN"),
         Entries' # {} =>
           Entries # {} \/ (h.pc \in Raising \cup Reporting /\ h.src = "ZONE")
  PROVE  Reports'
<1>0. \A q \in Requests : at[q] \in Handler /\ at[q].a \in Alerts
  BY Fields DEF Handlers
<1>1. \A q \in Requests : Knows(at[q])'
  <2>. SUFFICES ASSUME NEW q \in Requests PROVE Knows(at[q])'
    OBVIOUS
  <2>1. CASE q = p
    BY <2>1, MovesTo DEF Knows
  <2>2. CASE q # p
    BY <2>2, <1>0, MovesTo DEF Knows, Reports
  <2>. QED BY <2>1, <2>2
<1>2. SUFFICES ASSUME failures = 0
              PROVE  /\ \A a \in Alerts : source'[a] # "NONE" => reported'[a] \/ InHand(a)'
                     /\ check' = "MISSED" => Raised("CHECK_IN")' \/ Coming("CHECK_IN")'
                     /\ Entries' # {} => Raised("ZONE")' \/ Coming("ZONE")'
  BY <1>1 DEF Reports
<1>3. ASSUME NEW a \in Alerts, InHand(a) PROVE reported'[a] \/ InHand(a)'
  BY <1>3, MovesTo DEF InHand
<1>4. \A a \in Alerts : h.pc \in Reporting /\ h.a = a => InHand(a)'
  BY MovesTo DEF InHand
<1>5. ASSUME NEW src \in {"CHECK_IN", "ZONE"}, Raised(src) \/ Coming(src)
      PROVE  Raised(src)' \/ Coming(src)'
  <2>1. CASE Raised(src)
    BY <1>5, <2>1 DEF Raised
  <2>2. CASE Coming(src)
    <3>1. PICK q \in Requests : at[q].pc \in Raising \cup Reporting /\ at[q].src = src
      BY <2>2 DEF Coming
    <3>2. CASE q = p
      <4>1. Raised(src)' \/ (h.pc \in Raising \cup Reporting /\ h.src = src)
        BY <3>1, <3>2 DEF Raised
      <4>. QED BY <4>1, MovesTo DEF Coming
    <3>3. CASE q # p
      BY <3>1, <3>3, MovesTo DEF Coming
    <3>. QED BY <3>2, <3>3
  <2>. QED BY <1>5, <2>1, <2>2
<1>6. \A src : h.pc \in Raising \cup Reporting /\ h.src = src => Coming(src)'
  BY MovesTo DEF Coming
<1>. QED BY <1>2, <1>3, <1>4, <1>5, <1>6 DEF Reports

LEMMA CountedStep ==
  ASSUME Handlers, Counted, NEW p \in Requests, NEW h \in Handler, Moves(p, h), Others(p),
         UNCHANGED <<overlap, failures, event>>, ZoneAlerts' = ZoneAlerts,
         OpenOf("ZONE")' \subseteq OpenOf("ZONE"),
         Serial /\ failures = 0 => (Raises(at[p]) <=> Raises(h)),
         ClearsZone(at[p]) => OpenOf("ZONE")' = {},
         Serial => Good(h)'
  PROVE  Counted'
<1>. SUFFICES ASSUME Serial' PROVE (\A q \in Requests : Good(at[q])') /\ (failures' = 0 => Even')
  BY DEF Counted
<1>1. \A q \in Requests : Good(at[q])'
  <2>. SUFFICES ASSUME NEW q \in Requests PROVE Good(at[q])'
    OBVIOUS
  <2>1. at'[q] = h \/ at'[q] = Idle
    BY MovesTo DEF Others, Serial
  <2>2. Good(h)' /\ Good(Idle)'
    BY IdleFields DEF Serial
  <2>. QED BY <2>1, <2>2 DEF Good, WasInside, OpenOf
<1>2. ASSUME failures = 0 PROVE Owed' = Owed
  BY <1>2, MovesTo DEF Owed, Serial
<1>3. (\E q \in Requests : ClearsZone(at[q]))
        => OpenOf("ZONE")' = {} \/ \E q \in Requests : ClearsZone(at'[q])
  BY MovesTo
<1>4. OpenOf("ZONE") = {} => OpenOf("ZONE")' = {}
  OBVIOUS
<1>5. (WasInside <=> WasInside') /\ Entries' = Entries
  BY DEF WasInside, Entries
<1>6. (\E q \in Requests : ClearsZone(at'[q])) => \E q \in Requests : ClearsZone(at[q])'
  BY DEF ClearsZone
<1>. QED BY <1>1, <1>2, <1>3, <1>4, <1>5, <1>6 DEF Counted, Even, Serial

LEMMA TypeStep ==
  ASSUME RowTypes', Handlers, NEW p \in Requests, NEW h \in Handler, Moves(p, h)
  PROVE  TypeOK'
<1>1. Handlers'
  BY MovesTo
<1>. QED BY <1>1 DEF TypeOK, RowTypes, Handlers

-----------------------------------------------------------------------------
(* The steps of the handlers *)

\* A step that raises nothing and stores nothing.
LEMMA CalmStep ==
  ASSUME IInv, RowTypes', Fresh', NEW p \in Requests, NEW h \in Handler, Moves(p, h), Others(p),
         UNCHANGED <<overlap, failures, point, latest, event, source, reported>>,
         check' = check \/ check' # "MISSED",
         at[p].pc \notin Raising \cup Reporting,
         h.pc \notin Raising \cup Reporting,
         OpenOf("ZONE")' \subseteq OpenOf("ZONE"),
         ClearsZone(at[p]) => OpenOf("ZONE")' = {},
         h.pc = "store" => h.t > latest,
         h.pc = "setActive" => h.seen # "NONE",
         Serial => Good(h)
  PROVE  IInv'
<1>. Handlers /\ Alone /\ Newest /\ Reports /\ Counted
  BY Typed DEF IInv
<1>1. ~Raises(at[p]) /\ ~Raises(h)
  BY DEF Raises
<1>2. TypeOK' /\ Alone'
  BY TypeStep, AloneStep
<1>3. Newest'
  BY NewestStep
<1>4. Reports'
  BY ReportsStep DEF Knows, Entries
<1>5. Serial => Good(h)'
  BY <1>1 DEF Good, WasInside
<1>6. ZoneAlerts' = ZoneAlerts
  BY DEF ZoneAlerts
<1>7. Counted'
  BY <1>1, <1>5, <1>6, CountedStep
<1>. QED BY <1>2, <1>3, <1>4, <1>7 DEF IInv

\* Nor does it close an alert or switch the zone.
LEMMA QuietStep ==
  ASSUME IInv, RowTypes', NEW p \in Requests, NEW h \in Handler, Moves(p, h), Others(p),
         UNCHANGED <<overlap, failures, point, latest, event, zone, source, open, reported>>,
         cache' \in {cache, "NONE"},
         check' = check \/ check' # "MISSED",
         at[p].pc \notin Raising \cup Reporting \cup {"resolve", "invalidate"},
         h.pc \notin Raising \cup Reporting,
         Serial => Good(h),
         h.pc = "store" => h.t > latest,
         h.pc = "setActive" => h.seen # "NONE",
         Serial /\ h.pc = "fill" => h.seen = zone
  PROVE  IInv'
<1>. Handlers /\ Fresh
  BY Typed DEF IInv
<1>1. Fresh'
  BY FreshStep
<1>2. ~ClearsZone(at[p]) /\ OpenOf("ZONE")' = OpenOf("ZONE")
  BY DEF ClearsZone, OpenOf
<1>. QED BY <1>1, <1>2, CalmStep

LEMMA Still ==
  ASSUME TypeOK, Unwritten
  PROVE  /\ RowTypes'
         /\ UNCHANGED <<overlap, failures, now, point, latest, event, zone, cache, check,
                         overdue, source, open, reported>>
  BY DEF TypeOK, RowTypes, Unwritten, rows, Fixed

LEMMA Begun ==
  ASSUME IInv, NEW p \in Requests, NEW h \in Handler, Begin(p, h),
         h.pc \in {"store", "checkIns", "schedule", "complete", "resolveAlert", "setActive"},
         h.pc = "store" => h.t > latest,
         h.pc = "setActive" => h.seen # "NONE",
         h.pc = "checkIns" => h.t = 0
  PROVE  IInv'
<1>1. Moves(p, h) /\ Others(p) /\ at[p].pc = "idle" /\ Unwritten
  BY IdleFields DEF Begin, Moves, Others, Quiet, Serial
<1>2. TypeOK /\ latest \in 0..MaxTime /\ h.t \in 0..MaxTime
  BY DEF IInv, TypeOK, Handler
<1>3. Good(h)
  BY <1>2, WatchAssumption DEF Good, OnPoint, Raises, InZone, Raising, Reporting
<1>. QED BY <1>1, <1>2, <1>3, Still, QuietStep DEF Raising, Reporting

LEMMA BeginStep ==
  ASSUME IInv, NEW p \in Requests, BeginRequest(p)
  PROVE  IInv'
<1>1. ASSUME NEW t \in Times, NEW place \in {"IN", "OUT"}, BeginPing(p, t, place)
      PROVE  IInv'
  <2>. DEFINE h == [Idle EXCEPT !.pc = "store", !.t = t, !.place = place]
  <2>1. h \in Handler /\ h.pc = "store" /\ h.t = t
    <3>1. t \in 0..MaxTime
      BY WatchAssumption DEF Times
    <3>. QED BY <3>1, IdleIsHandler DEF Idle, Handler
  <2>2. Begin(p, h) /\ t > latest
    BY <1>1 DEF BeginPing
  <2>. HIDE DEF h
  <2>. QED BY <2>1, <2>2, Begun
<1>2. ASSUME NEW h, h = [Idle EXCEPT !.pc = "checkIns"], Begin(p, h) PROVE IInv'
  <2>1. h \in Handler /\ h.pc = "checkIns" /\ h.t = 0
    BY <1>2, IdleIsHandler DEF Idle, Handler
  <2>. QED BY <1>2, <2>1, Begun
<1>3. ASSUME NEW h, h = [Idle EXCEPT !.pc = "schedule"], Begin(p, h) PROVE IInv'
  <2>1. h \in Handler /\ h.pc = "schedule"
    BY <1>3, IdleIsHandler DEF Idle, Handler
  <2>. QED BY <1>3, <2>1, Begun
<1>4. ASSUME NEW h, h = [Idle EXCEPT !.pc = "complete"], Begin(p, h) PROVE IInv'
  <2>1. h \in Handler /\ h.pc = "complete"
    BY <1>4, IdleIsHandler DEF Idle, Handler
  <2>. QED BY <1>4, <2>1, Begun
<1>5. ASSUME NEW a \in Alerts, NEW h, h = [Idle EXCEPT !.pc = "resolveAlert", !.a = a],
             Begin(p, h)
      PROVE  IInv'
  <2>1. h \in Handler /\ h.pc = "resolveAlert"
    BY <1>5, IdleIsHandler DEF Idle, Handler
  <2>. QED BY <1>5, <2>1, Begun
<1>6. ASSUME NEW h, h = [Idle EXCEPT !.pc = "setActive", !.seen = Opposite(zone)], Begin(p, h)
      PROVE  IInv'
  <2>1. h \in Handler /\ h.pc = "setActive" /\ h.seen # "NONE"
    BY <1>6, IdleIsHandler DEF Idle, Handler, Opposite
  <2>. QED BY <1>6, <2>1, Begun
<1>. QED BY <1>1, <1>2, <1>3, <1>4, <1>5, <1>6
         DEF BeginRequest, BeginList, BeginSchedule, BeginComplete, BeginResolve, BeginSetActive

\* A step that only moves the handler.
LEMMA MoveOn ==
  ASSUME IInv, NEW p \in Requests, NEW h \in Handler, Moves(p, h), Unwritten,
         at[p].pc \notin Raising \cup Reporting \cup {"idle", "resolve", "invalidate"},
         h.pc \notin Raising \cup Reporting \cup {"store", "setActive"},
         Serial => Good(h),
         Serial /\ h.pc = "fill" => h.seen = zone
  PROVE  IInv'
<1>1. Others(p) /\ TypeOK
  BY InFlight DEF IInv
<1>. QED BY <1>1, Still, QuietStep

\* Where a handler is done with the check-ins.
LEMMA CheckInsDone ==
  ASSUME Handlers, NEW p \in Requests, AfterCheckIns(p)
  PROVE  \E h \in Handler :
           /\ Moves(p, h)
           /\ \/ h = Idle
              \/ h.pc = "zones" /\ h.t = at[p].t /\ h.t # 0
<1>1. CASE at[p].t = 0
  BY <1>1, Finished, IdleIsHandler DEF AfterCheckIns
<1>2. CASE at[p].t # 0
  BY <1>2, Went DEF AfterCheckIns, Places
<1>. QED BY <1>1, <1>2

LEMMA FindDueStep ==
  ASSUME IInv, NEW p \in Requests, FindDue(p)
  PROVE  IInv'
<1>. Handlers /\ Unwritten /\ at[p].pc = "checkIns"
  BY Typed DEF IInv, FindDue, At
<1>1. PICK h \in Handler :
        /\ Moves(p, h)
        /\ \/ h = Idle
           \/ h.pc \in {"zones", "miss"} /\ h.t = at[p].t /\ (h.pc = "zones" => h.t # 0)
  BY CheckInsDone, Went DEF FindDue, Places
<1>2. Serial => Good(at[p])
  BY DEF IInv, Counted
<1>3. Serial => Good(h)
  BY <1>1, <1>2, IdleFields DEF Good, OnPoint, Raises, InZone, Raising, Reporting
<1>. QED BY <1>1, <1>3, MoveOn, IdleFields DEF Raising, Reporting

LEMMA ReadZonesStep ==
  ASSUME IInv, NEW p \in Requests, ReadZones(p)
  PROVE  IInv'
<1>. Handlers /\ Unwritten /\ at[p].pc = "zones"
  BY Typed DEF IInv, ReadZones, At
<1>. zone \in {"ON", "OFF"} /\ cache \in {"NONE", "ON", "OFF"}
  BY DEF IInv, TypeOK
<1>1. PICK pc \in {"compare", "fill"}, s \in {"NONE", "ON", "OFF"} :
        /\ at' = [at EXCEPT ![p].pc = pc, ![p].seen = s]
        /\ pc = "fill" => s = zone
  BY Fields DEF ReadZones, Handlers
<1>. DEFINE h == [at[p] EXCEPT !.pc = pc, !.seen = s]
<1>2. /\ h \in Handler /\ Moves(p, h)
      /\ h.pc = pc /\ h.seen = s /\ h.t = at[p].t
  BY <1>1 DEF Handlers, Handler, Moves
<1>. HIDE DEF h
<1>3. Serial => Good(at[p])
  BY DEF IInv, Counted
<1>4. Serial => Good(h)
  BY <1>2, <1>3 DEF Good, OnPoint, Raises, InZone, Raising, Reporting
<1>. QED BY <1>1, <1>2, <1>4, MoveOn DEF Raising, Reporting

LEMMA CompareStep ==
  ASSUME IInv, NEW p \in Requests, Compare(p)
  PROVE  IInv'
<1>. Handlers /\ Unwritten /\ at[p].pc = "compare"
  BY Typed DEF IInv, Compare, At
<1>1. PICK h \in Handler :
        /\ Moves(p, h)
        /\ \/ h = Idle
           \/ /\ h.pc = "crossing" /\ h.t = at[p].t /\ h.place = at[p].place
              /\ at[p].place = "IN" <=> ~WasInside
  <2>1. CASE at[p].seen = "ON" /\ (at[p].place = "IN") # WasInside
    <3>1. at[p].place = "IN" <=> ~WasInside
      BY <2>1, Zenon DEF WasInside
    <3>. QED BY <2>1, <3>1, Went DEF Compare, Places
  <2>2. CASE ~(at[p].seen = "ON" /\ (at[p].place = "IN") # WasInside)
    BY <2>2, Finished, IdleIsHandler DEF Compare
  <2>. QED BY <2>1, <2>2
<1>2. Serial => Good(at[p])
  BY DEF IInv, Counted
<1>3. Serial => Good(h)
  BY <1>1, <1>2, IdleFields DEF Good, OnPoint, Raises, InZone, Raising, Reporting
<1>. QED BY <1>1, <1>3, MoveOn, IdleFields DEF Raising, Reporting

\* The other calls that only write a row of their own
LEMMA ScheduleStep ==
  ASSUME IInv, NEW p \in Requests, Schedule(p)
  PROVE  IInv'
<1>1. RowTypes'
  BY DEF IInv, TypeOK, RowTypes, Schedule, Fixed
<1>2. Handlers /\ Others(p) /\ at[p].pc = "schedule"
  BY Typed, InFlight DEF IInv, Schedule, At
<1>3. Moves(p, Idle) /\ Idle \in Handler
  BY <1>2, Finished, IdleIsHandler DEF Schedule
<1>. QED BY <1>1, <1>2, <1>3, QuietStep, IdleFields DEF Raising, Reporting, Schedule, Fixed

LEMMA CompleteStep ==
  ASSUME IInv, NEW p \in Requests, Complete(p)
  PROVE  IInv'
<1>1. RowTypes'
  BY DEF IInv, TypeOK, RowTypes, Complete, Fixed
<1>2. Handlers /\ Others(p) /\ at[p].pc = "complete"
  BY Typed, InFlight DEF IInv, Complete, At
<1>. DEFINE h == [at[p] EXCEPT !.pc = "resolve", !.src = "CHECK_IN"]
<1>3. /\ h \in Handler /\ Moves(p, h)
      /\ h.pc = "resolve" /\ h.src = "CHECK_IN"
  BY <1>2 DEF Handlers, Handler, Moves, Complete
<1>. HIDE DEF h
<1>4. Good(h)
  BY <1>3 DEF Good, OnPoint, Raises, InZone, Raising, Reporting
<1>. QED BY <1>1, <1>2, <1>3, <1>4, QuietStep DEF Raising, Reporting, Complete, Fixed

LEMMA ResolveAlertStep ==
  ASSUME IInv, NEW p \in Requests, ResolveAlert(p)
  PROVE  IInv'
<1>1. RowTypes'
  BY DEF IInv, TypeOK, RowTypes, ResolveAlert, Fixed
<1>2. Handlers /\ Fresh /\ Others(p) /\ at[p].pc = "resolveAlert"
  BY Typed, InFlight DEF IInv, ResolveAlert, At
<1>3. Moves(p, Idle) /\ Idle \in Handler
  BY <1>2, Finished, IdleIsHandler DEF ResolveAlert
<1>4. OpenOf("ZONE")' \subseteq OpenOf("ZONE") /\ ~ClearsZone(at[p])
  BY <1>2 DEF OpenOf, ClearsZone, ResolveAlert, IInv, TypeOK
<1>5. Fresh'
  BY <1>2, <1>3, FreshStep, IdleFields DEF ResolveAlert, Fixed
<1>. QED BY <1>1, <1>2, <1>3, <1>4, <1>5, CalmStep, IdleFields
         DEF Raising, Reporting, ResolveAlert, Fixed

LEMMA ResolveOpenStep ==
  ASSUME IInv, NEW p \in Requests, ResolveOpen(p)
  PROVE  IInv'
<1>1. RowTypes'
  BY DEF IInv, TypeOK, RowTypes, ResolveOpen, Fixed
<1>2. Handlers /\ Fresh /\ Others(p) /\ at[p].pc = "resolve"
  BY Typed, InFlight DEF IInv, ResolveOpen, At
<1>3. Moves(p, Idle) /\ Idle \in Handler
  BY <1>2, Finished, IdleIsHandler DEF ResolveOpen
<1>4. /\ OpenOf("ZONE")' \subseteq OpenOf("ZONE")
      /\ ClearsZone(at[p]) => OpenOf("ZONE")' = {}
  BY <1>2 DEF OpenOf, ClearsZone, ResolveOpen
<1>5. Fresh'
  BY <1>2, <1>3, FreshStep, IdleFields DEF ResolveOpen, Fixed
<1>. QED BY <1>1, <1>2, <1>3, <1>4, <1>5, CalmStep, IdleFields
         DEF Raising, Reporting, ResolveOpen, Fixed

-----------------------------------------------------------------------------
(* The zone and its cache *)

LEMMA FillCacheStep ==
  ASSUME IInv, NEW p \in Requests, FillCache(p)
  PROVE  IInv'
<1>2. Handlers /\ Fresh /\ Others(p) /\ at[p].pc = "fill" /\ at[p].seen \in {"NONE", "ON", "OFF"}
  BY Typed, InFlight, Fields DEF IInv, FillCache, At, Handlers
<1>1. RowTypes'
  BY <1>2 DEF IInv, TypeOK, RowTypes, FillCache, Fixed
<1>3. PICK h \in Handler : Moves(p, h) /\ h.pc = "compare" /\ h.t = at[p].t
  BY <1>2, Went DEF FillCache, Places
<1>4. Fresh'
  <2>. SUFFICES ASSUME Serial, failures = 0
                PROVE  cache' = zone' /\ \A q \in Requests : at'[q].pc # "fill"
    BY DEF Fresh, FillCache, Fixed, Serial
  <2>1. cache' = zone'
    BY <1>2 DEF Fresh, FillCache
  <2>2. \A q \in Requests : q # p => at'[q].pc = "idle"
    BY <1>2, <1>3, MovesTo, IdleFields DEF Others
  <2>. QED BY <2>1, <2>2, <1>2, <1>3, MovesTo
<1>5. Serial => Good(h)
  <2>1. Serial => Good(at[p])
    BY DEF IInv, Counted
  <2>. QED BY <1>2, <1>3, <2>1 DEF Good, OnPoint, Raises, InZone, Raising, Reporting
<1>6. ~ClearsZone(at[p]) /\ OpenOf("ZONE")' = OpenOf("ZONE")
  BY <1>2 DEF ClearsZone, OpenOf, FillCache
<1>. QED BY <1>1, <1>2, <1>3, <1>4, <1>5, <1>6, CalmStep DEF Raising, Reporting, FillCache, Fixed

LEMMA SetActiveStep ==
  ASSUME IInv, NEW p \in Requests, SetActive(p)
  PROVE  IInv'
<1>2. Handlers /\ Fresh /\ Others(p) /\ at[p].pc = "setActive" /\ at[p].seen \in {"ON", "OFF"}
  BY Typed, InFlight, Fields DEF IInv, SetActive, At, Handlers, Reports, Knows
<1>1. RowTypes'
  BY <1>2 DEF IInv, TypeOK, RowTypes, SetActive, Fixed
<1>3. PICK h \in Handler : Moves(p, h) /\ h.pc = "invalidate"
  BY <1>2, Went DEF SetActive, Places
<1>4. Fresh'
  <2>. SUFFICES ASSUME Serial
                PROVE  at'[p].pc = "invalidate" /\ \A q \in Requests : at'[q].pc # "fill"
    BY DEF Fresh, SetActive, Fixed, Serial
  <2>2. \A q \in Requests : q # p => at'[q].pc = "idle"
    BY <1>2, <1>3, MovesTo, IdleFields DEF Others
  <2>. QED BY <2>2, <1>2, <1>3, MovesTo
<1>5. Good(h)
  BY <1>3 DEF Good, OnPoint, Raises, InZone, Raising, Reporting
<1>6. ~ClearsZone(at[p]) /\ OpenOf("ZONE")' = OpenOf("ZONE")
  BY <1>2 DEF ClearsZone, OpenOf, SetActive
<1>. QED BY <1>1, <1>2, <1>3, <1>4, <1>5, <1>6, CalmStep DEF Raising, Reporting, SetActive, Fixed

LEMMA InvalidateStep ==
  ASSUME IInv, NEW p \in Requests, Invalidate(p)
  PROVE  IInv'
<1>1. RowTypes'
  BY DEF IInv, TypeOK, RowTypes, Invalidate, Fixed
<1>2. Handlers /\ Fresh /\ Others(p) /\ at[p].pc = "invalidate"
  BY Typed, InFlight DEF IInv, Invalidate, At
<1>3. Moves(p, Idle) /\ Idle \in Handler
  BY <1>2, Finished, IdleIsHandler DEF Invalidate
<1>4. Fresh'
  BY <1>2, <1>3, MovesTo, IdleFields DEF Fresh, Invalidate, Fixed, Others, Serial
<1>6. ~ClearsZone(at[p]) /\ OpenOf("ZONE")' = OpenOf("ZONE")
  BY <1>2 DEF ClearsZone, OpenOf, Invalidate
<1>. QED BY <1>1, <1>2, <1>3, <1>4, <1>6, CalmStep, IdleFields
         DEF Raising, Reporting, Invalidate, Fixed

-----------------------------------------------------------------------------
(* Points, alerts and incidents *)

LEMMA StorePointStep ==
  ASSUME IInv, NEW p \in Requests, StorePoint(p)
  PROVE  IInv'
<1>1. /\ Handlers /\ Fresh /\ Alone /\ Newest /\ Reports /\ Counted
      /\ Others(p) /\ at[p].pc = "store"
      /\ at[p].t \in 0..MaxTime /\ at[p].place \in {"NONE", "IN", "OUT"}
      /\ latest \in 0..MaxTime
  BY Typed, InFlight, Fields DEF IInv, StorePoint, At, Handlers, RowTypes
<1>2. CASE point[at[p].t] = "NONE"
  <2>1. RowTypes'
    BY <1>1, <1>2 DEF IInv, TypeOK, RowTypes, StorePoint, Fixed
  <2>2. PICK h \in Handler : Moves(p, h) /\ h.pc = "checkIns" /\ h.t = at[p].t
    BY <1>1, <1>2, Went DEF StorePoint, Places
  <2>3. latest' = at[p].t
    BY <1>2 DEF StorePoint
  <2>4. ASSUME Serial
        PROVE  /\ at[p].t # 0 /\ at[p].t > latest
               /\ \A u \in Times : point[u] # "NONE" => u <= latest
               /\ \A u \in Times : event[u] # "NONE" => u <= latest
    BY <2>4, <1>1 DEF Counted, Newest, Good
  <2>5. Newest'
    <3>. SUFFICES ASSUME Serial
                  PROVE  /\ \A u \in Times : point'[u] # "NONE" => u <= at[p].t
                         /\ \A u \in Times : event[u] # "NONE" => u <= at[p].t
                         /\ \A q \in Requests : at'[q].pc # "store"
      BY <2>3 DEF Newest, StorePoint, Fixed, Serial
    <3>1. \A u \in Times : u <= latest => u <= at[p].t
      BY <2>4, <1>1, WatchAssumption DEF Times
    <3>2. \A u \in Times : point'[u] # "NONE" => point[u] # "NONE" \/ u = at[p].t
      BY <1>2 DEF IInv, TypeOK, StorePoint
    <3>3. at[p].t <= at[p].t
      BY <1>1, WatchAssumption
    <3>4. \A q \in Requests : at'[q].pc # "store"
      BY <1>1, <2>2, MovesTo, IdleFields DEF Others
    <3>. QED BY <2>4, <3>1, <3>2, <3>3, <3>4
  <2>6. Serial => Good(h)'
    <3>. SUFFICES ASSUME Serial PROVE Good(h)'
      OBVIOUS
    <3>1. at[p].t \in Times
      BY <1>1, <2>4, WatchAssumption DEF Times
    <3>2. event[at[p].t] = "NONE"
      BY <1>1, <2>4, <3>1, WatchAssumption DEF Times
    <3>. QED BY <2>2, <2>3, <3>2 DEF Good, OnPoint, Raises, InZone, Raising, Reporting, StorePoint
  <2>7. Fresh' /\ Reports'
    BY <1>1, <2>2, FreshStep, ReportsStep
       DEF Knows, Entries, StorePoint, Fixed, Raising, Reporting
  <2>8. Counted'
    <3>1. /\ ZoneAlerts' = ZoneAlerts /\ OpenOf("ZONE")' = OpenOf("ZONE")
          /\ ~Raises(at[p]) /\ ~Raises(h) /\ ~ClearsZone(at[p])
      BY <1>1, <2>2 DEF ZoneAlerts, OpenOf, Raises, ClearsZone, Raising, StorePoint
    <3>. QED BY <1>1, <2>2, <2>6, <3>1, CountedStep DEF StorePoint, Fixed
  <2>9. TypeOK' /\ Alone'
    BY <1>1, <2>1, <2>2, TypeStep, AloneStep DEF StorePoint, Fixed
  <2>. QED BY <2>5, <2>7, <2>8, <2>9 DEF IInv
<1>3. CASE point[at[p].t] # "NONE"
  <2>1. Unwritten
    BY <1>3 DEF StorePoint, Unwritten, rows, Fixed
  <2>2. Moves(p, Idle) /\ Idle \in Handler
    BY <1>1, <1>3, Finished, IdleIsHandler DEF StorePoint
  <2>. QED BY <1>1, <2>1, <2>2, MoveOn, IdleFields DEF Raising, Reporting
<1>. QED BY <1>2, <1>3

\* A step that stores no point, writes no event and leaves the zone alone.
LEMMA AlarmStep ==
  ASSUME IInv, RowTypes', Reports', Counted',
         NEW p \in Requests, NEW h \in Handler, Moves(p, h),
         UNCHANGED <<overlap, failures, point, latest, event, zone, cache>>,
         at[p].pc \notin {"idle", "invalidate"}, h.pc \notin {"store", "fill"}
  PROVE  IInv'
<1>1. Handlers /\ Alone /\ Newest /\ Fresh /\ Others(p)
  BY Typed, InFlight DEF IInv
<1>2. TypeOK' /\ Alone' /\ Newest' /\ Fresh'
  BY <1>1, TypeStep, AloneStep, NewestStep, FreshStep
<1>. QED BY <1>2 DEF IInv

LEMMA MissStep ==
  ASSUME IInv, NEW p \in Requests, Miss(p)
  PROVE  IInv'
<1>1. RowTypes'
  BY DEF IInv, TypeOK, RowTypes, Miss, Fixed
<1>2. Handlers /\ Reports /\ Counted /\ Others(p) /\ at[p].pc = "miss"
  BY Typed, InFlight DEF IInv, Miss, At
<1>3. PICK h \in Handler :
        /\ Moves(p, h)
        /\ h.pc = "findAlert" /\ h.src = "CHECK_IN" /\ h.t = at[p].t
  <2>. DEFINE g == [at[p] EXCEPT !.pc = "findAlert", !.src = "CHECK_IN"]
  <2>1. /\ g \in Handler /\ Moves(p, g)
        /\ g.pc = "findAlert" /\ g.src = "CHECK_IN" /\ g.t = at[p].t
    BY <1>2 DEF Handlers, Handler, Moves, Miss
  <2>. QED BY <2>1
<1>4. Reports'
  BY <1>2, <1>3, ReportsStep DEF Knows, Entries, Raising, Reporting, Miss, Fixed
<1>. UNCHANGED <<overlap, failures, latest, event, source, open>>
  BY DEF Miss, Fixed
<1>5. Serial => Good(h)'
  <2>1. Serial => Good(at[p])
    BY <1>2 DEF Counted
  <2>2. Serial => Good(h)
    BY <1>2, <1>3, <2>1 DEF Good, OnPoint, Raises, InZone, Raising, Reporting
  <2>. QED BY <2>2 DEF Good, WasInside, OpenOf
<1>6. /\ ZoneAlerts' = ZoneAlerts /\ OpenOf("ZONE")' = OpenOf("ZONE")
      /\ ~Raises(at[p]) /\ ~Raises(h) /\ ~ClearsZone(at[p])
  BY <1>2, <1>3 DEF ZoneAlerts, OpenOf, Raises, ClearsZone, Raising
<1>7. Counted'
  BY <1>2, <1>3, <1>5, <1>6, CountedStep
<1>. QED BY <1>1, <1>2, <1>3, <1>4, <1>7, AlarmStep DEF Miss, Fixed

LEMMA FindAlertStep ==
  ASSUME IInv, NEW p \in Requests, FindAlert(p)
  PROVE  IInv'
<1>1. Unwritten /\ RowTypes'
  BY Still DEF IInv, FindAlert
<1>2. Handlers /\ Reports /\ Counted /\ Others(p) /\ at[p].pc = "findAlert"
  BY Typed, InFlight DEF IInv, FindAlert, At
<1>3. PICK h \in Handler :
        /\ Moves(p, h)
        /\ h.src = at[p].src /\ h.t = at[p].t
        /\ \/ h.pc = "createAlert"
           \/ h.pc = "findIncident" /\ h.a \in OpenOf(at[p].src)
  <2>1. ASSUME NEW a \in OpenOf(at[p].src), at' = [at EXCEPT ![p].pc = "findIncident", ![p].a = a]
        PROVE  \E h \in Handler : /\ Moves(p, h)
                                  /\ h.src = at[p].src /\ h.t = at[p].t
                                  /\ h.pc = "findIncident" /\ h.a \in OpenOf(at[p].src)
    <3>. DEFINE h == [at[p] EXCEPT !.pc = "findIncident", !.a = a]
    <3>1. a \in Alerts
      BY DEF OpenOf
    <3>2. h \in Handler /\ Moves(p, h) /\ h.src = at[p].src /\ h.t = at[p].t
          /\ h.pc = "findIncident" /\ h.a = a
      BY <1>2, <2>1, <3>1 DEF Handlers, Handler, Moves
    <3>. QED BY <3>2
  <2>2. Goto(p, "createAlert") => \E h \in Handler : /\ Moves(p, h)
                                  /\ h.src = at[p].src /\ h.t = at[p].t /\ h.pc = "createAlert"
    BY <1>2, Went DEF Places
  <2>. QED BY <2>1, <2>2 DEF FindAlert
<1>4. UNCHANGED <<overlap, failures, point, latest, event, zone, cache, check, source, open, reported>>
  BY <1>1 DEF Unwritten, rows, Fixed
<1>5. Knows(at[p])
  BY <1>2 DEF Reports
<1>6. Knows(h)
  BY <1>2, <1>3, <1>5 DEF Knows, OpenOf, Raising, Reporting
<1>7. Reports'
  BY <1>2, <1>3, <1>4, <1>6, ReportsStep DEF Knows, Entries, Raising, Reporting
<1>8. Serial => Good(at[p])
  BY <1>2 DEF Counted
<1>9. Serial => Good(h)
  BY <1>2, <1>3, <1>8 DEF Good, OnPoint, Raises, InZone, Raising, Reporting
<1>10. Serial /\ failures = 0 => (Raises(at[p]) <=> Raises(h))
  BY <1>2, <1>3, <1>8 DEF Good, Raises, Raising
<1>11. Counted'
  <2>1. ZoneAlerts' = ZoneAlerts /\ OpenOf("ZONE")' = OpenOf("ZONE") /\ ~ClearsZone(at[p])
    BY <1>2, <1>4 DEF ZoneAlerts, OpenOf, ClearsZone
  <2>2. Serial => Good(h)'
    BY <1>4, <1>9, <2>1 DEF Good, WasInside
  <2>. QED BY <1>2, <1>3, <1>4, <1>10, <2>1, <2>2, CountedStep
<1>. QED BY <1>1, <1>2, <1>3, <1>4, <1>7, <1>11, AlarmStep

\* Where a handler is done with an alert.
LEMMA AlertDone ==
  ASSUME Handlers, NEW p \in Requests, AfterAlert(p), at[p].pc \in Reporting
  PROVE  \E h \in Handler :
           /\ Moves(p, h)
           /\ h = Idle \/ (h.pc = "zones" /\ h.t = at[p].t /\ h.t # 0 /\ OnPoint(at[p]))
<1>1. CASE at[p].src = "CHECK_IN"
  BY <1>1, CheckInsDone DEF AfterAlert, OnPoint
<1>2. CASE at[p].src # "CHECK_IN"
  BY <1>2, Finished, IdleIsHandler DEF AfterAlert
<1>. QED BY <1>1, <1>2

\* Either way there is an incident now.
LEMMA IncidentStep ==
  ASSUME IInv, RowTypes', NEW p \in Requests, NEW h \in Handler, Moves(p, h),
         UNCHANGED <<overlap, failures, point, latest, event, zone, cache, check, source, open>>,
         \A a \in Alerts : reported[a] => reported'[a],
         at[p].pc \in Reporting,
         \/ /\ reported'[at[p].a]
            /\ h = Idle \/ (h.pc = "zones" /\ h.t = at[p].t /\ h.t # 0 /\ OnPoint(at[p]))
         \/ h.pc \in Reporting /\ h.a = at[p].a /\ h.src = at[p].src /\ h.t = at[p].t
  PROVE  IInv'
<1>1. Handlers /\ Reports /\ Counted /\ Others(p)
  BY Typed, InFlight DEF IInv, Reporting
<1>2. at[p].a \in Alerts /\ Knows(at[p])
  BY <1>1, Fields DEF Handlers, Reports
<1>3. Knows(h)'
  BY <1>2, IdleFields DEF Knows, Raising, Reporting
<1>4. ASSUME reported'[at[p].a], NEW src, at[p].src = src PROVE Raised(src)'
  BY <1>2, <1>4 DEF Raised, Knows
<1>5. Reports'
  BY <1>1, <1>3, <1>4, ReportsStep, IdleFields DEF Entries
<1>6. /\ ZoneAlerts' = ZoneAlerts /\ OpenOf("ZONE")' = OpenOf("ZONE")
      /\ ~Raises(at[p]) /\ ~Raises(h) /\ ~ClearsZone(at[p])
  BY IdleFields DEF ZoneAlerts, OpenOf, Raises, ClearsZone, Raising, Reporting
<1>7. Serial => Good(h)'
  <2>1. Serial => Good(at[p])
    BY <1>1 DEF Counted
  <2>2. Serial => Good(h)
    BY <2>1, IdleFields DEF Good, OnPoint, Raises, InZone, Raising, Reporting
  <2>. QED BY <2>2, <1>6 DEF Good, WasInside
<1>8. Counted'
  BY <1>1, <1>6, <1>7, CountedStep
<1>. QED BY <1>5, <1>8, AlarmStep, IdleFields DEF Reporting

LEMMA FindIncidentStep ==
  ASSUME IInv, NEW p \in Requests, FindIncident(p)
  PROVE  IInv'
<1>1. /\ Handlers /\ RowTypes' /\ at[p].pc \in Reporting
      /\ UNCHANGED <<overlap, failures, point, latest, event, zone, cache, check, source, open, reported>>
  BY Still, Typed DEF IInv, FindIncident, At, Reporting
<1>2. CASE reported[at[p].a]
  BY <1>1, <1>2, AlertDone, IncidentStep DEF FindIncident
<1>3. CASE ~reported[at[p].a]
  <2>1. PICK h \in Handler : /\ Moves(p, h) /\ h.pc = "createIncident" /\ h.t = at[p].t
                            /\ h.a = at[p].a /\ h.src = at[p].src
    BY <1>1, <1>3, Went DEF FindIncident, Places
  <2>. QED BY <1>1, <2>1, IncidentStep DEF Reporting
<1>. QED BY <1>2, <1>3

LEMMA CreateIncidentStep ==
  ASSUME IInv, NEW p \in Requests, CreateIncident(p)
  PROVE  IInv'
<1>1. Handlers /\ at[p].pc \in Reporting /\ at[p].a \in Alerts
  BY Typed, Fields DEF IInv, CreateIncident, At, Reporting, Handlers
<1>2. RowTypes'
  BY <1>1 DEF IInv, TypeOK, RowTypes, CreateIncident, Fixed
<1>3. /\ UNCHANGED <<overlap, failures, point, latest, event, zone, cache, check, source, open>>
      /\ \A a \in Alerts : reported[a] => reported'[a]
      /\ reported'[at[p].a]
  BY <1>1 DEF CreateIncident, Fixed, IInv, TypeOK
<1>4. PICK h \in Handler :
           /\ Moves(p, h)
           /\ h = Idle \/ (h.pc = "zones" /\ h.t = at[p].t /\ h.t # 0 /\ OnPoint(at[p]))
  BY <1>1, AlertDone, Finished, IdleIsHandler DEF CreateIncident
<1>. QED BY <1>1, <1>2, <1>3, <1>4, IncidentStep

\* What the event of the newest point does to the last event.
LEMMA LastEvent ==
  ASSUME TypeOK, NEW t \in Times, \A u \in Times : event[u] # "NONE" => u <= t,
         NEW e \in {"ENTER", "EXIT"}, event' = [event EXCEPT ![t] = e]
  PROVE  WasInside' <=> e = "ENTER"
<1>1. event'[t] = e /\ \A u \in Times : u # t => event'[u] = event[u]
  BY DEF TypeOK
<1>2. \A u \in Times : u > t => event'[u] = "NONE"
  <2>1. \A u \in Times : u > t => ~(u <= t) /\ u # t
    BY WatchAssumption DEF Times
  <2>. QED BY <1>1, <2>1 DEF TypeOK
<1>3. ASSUME e = "EXIT", NEW v \in Times, event'[v] = "ENTER" PROVE v < t
  <2>1. v # t /\ event[v] # "NONE"
    BY <1>1, <1>3
  <2>2. v <= t
    BY <2>1
  <2>. QED BY <2>1, <2>2, WatchAssumption DEF Times
<1>4. CASE e = "ENTER"
  BY <1>1, <1>2, <1>4 DEF WasInside
<1>5. CASE e = "EXIT"
  <2>. SUFFICES ASSUME WasInside' PROVE FALSE
    BY <1>5
  <2>1. PICK v \in Times : event'[v] = "ENTER" /\ \A u \in Times : u > v => event'[u] = "NONE"
    BY DEF WasInside
  <2>2. t > v
    BY <1>3, <1>5, <2>1, WatchAssumption DEF Times
  <2>. QED BY <1>1, <1>5, <2>1, <2>2
<1>. QED BY <1>4, <1>5

LEMMA FiniteRows ==
  ASSUME NEW S, S \subseteq Times \/ S \subseteq Alerts
  PROVE  IsFiniteSet(S)
<1>1. IsFiniteSet(Times) /\ IsFiniteSet(Alerts)
  BY FS_Interval, WatchAssumption DEF Times, Alerts
<1>. QED BY <1>1, FS_Subset

\* One row more
LEMMA OneMore ==
  ASSUME NEW S, NEW x, x \notin S, IsFiniteSet(S)
  PROVE  Cardinality(S \cup {x}) = Cardinality(S) + 1
  BY FS_AddElement

LEMMA OwedBy ==
  ASSUME NEW p \in Requests, \A q \in Requests : q # p => at[q] = Idle
  PROVE  /\ Raises(at[p]) => Cardinality(Owed) = 1
         /\ ~Raises(at[p]) => Cardinality(Owed) = 0
<1>1. Raises(at[p]) => Owed = {p}
  BY IdleFields DEF Owed
<1>2. ~Raises(at[p]) => Owed = {}
  BY IdleFields DEF Owed
<1>. QED BY <1>1, <1>2, FS_Singleton, FS_EmptySet

\* The new counts, once the step is known to leave every handler's knowledge true.
LEMMA Recount ==
  ASSUME Handlers, Counted, NEW p \in Requests, NEW h \in Handler, Moves(p, h), Others(p),
         UNCHANGED <<overlap, failures>>,
         Serial => Good(h)',
         Serial /\ failures = 0 =>
           /\ Cardinality(Entries)' + Cardinality(ZoneAlerts) + Cardinality(Owed)
                = Cardinality(Entries) + Cardinality(ZoneAlerts)' + (IF Raises(h) THEN 1 ELSE 0)
           /\ WasInside' \/ OpenOf("ZONE")' = {} \/ ClearsZone(h)
  PROVE  Counted'
<1>. SUFFICES ASSUME Serial PROVE (\A q \in Requests : Good(at[q])') /\ (failures = 0 => Even')
  BY DEF Counted, Serial
<1>0. at'[p] = h /\ \A q \in Requests : q # p => at'[q] = Idle
  BY MovesTo DEF Others
<1>1. \A q \in Requests : Good(at[q])'
  <2>. SUFFICES ASSUME NEW q \in Requests PROVE Good(at[q])'
    OBVIOUS
  <2>1. at'[q] = h \/ at'[q] = Idle
    BY <1>0
  <2>2. Good(h)' /\ Good(Idle)'
    BY IdleFields
  <2>. QED BY <2>1, <2>2 DEF Good, WasInside, OpenOf
<1>2. ASSUME failures = 0 PROVE Even'
  <2>1. Cardinality(Owed') = IF Raises(h) THEN 1 ELSE 0
    <3>1. Raises(h) => Owed' = {p}
      BY <1>0, IdleFields DEF Owed
    <3>2. ~Raises(h) => Owed' = {}
      BY <1>0, IdleFields DEF Owed
    <3>. QED BY <3>1, <3>2, FS_Singleton, FS_EmptySet
  <2>2. /\ Cardinality(Entries) \in Nat /\ Cardinality(Entries') \in Nat
        /\ Cardinality(ZoneAlerts) \in Nat /\ Cardinality(ZoneAlerts') \in Nat
    BY FiniteRows, FS_CardinalityType DEF Entries, ZoneAlerts
  <2>3. Cardinality(Owed) \in Nat
    <3>1. \A q \in Requests : q # p => at[q] = Idle
      BY DEF Others
    <3>. QED BY <3>1, OwedBy
  <2>4. Cardinality(Entries) = Cardinality(ZoneAlerts) + Cardinality(Owed)
    BY <1>2 DEF Counted, Even
  <2>5. Cardinality(Entries') = Cardinality(ZoneAlerts') + Cardinality(Owed')
    BY <1>2, <2>1, <2>2, <2>3, <2>4
  <2>6. WasInside' \/ OpenOf("ZONE")' = {} \/ \E q \in Requests : ClearsZone(at[q])'
    BY <1>0, <1>2 DEF ClearsZone
  <2>. QED BY <2>5, <2>6 DEF Even
<1>. QED BY <1>1, <1>2

LEMMA CreateAlertStep ==
  ASSUME IInv, NEW p \in Requests, CreateAlert(p)
  PROVE  IInv'
<1>1. PICK a \in Alerts :
        /\ at[p].pc = "createAlert"
        /\ \A b \in Alerts : source[b] = "NONE" <=> b >= a
        /\ source' = [source EXCEPT ![a] = at[p].src]
        /\ open' = [open EXCEPT ![a] = TRUE]
        /\ at' = [at EXCEPT ![p].pc = "findIncident", ![p].a = a]
        /\ UNCHANGED <<now, point, latest, event, zone, cache, check, overdue, reported>>
        /\ Fixed
  BY DEF CreateAlert, At
<1>2. /\ Handlers /\ Reports /\ Counted /\ Others(p)
      /\ at[p].src \in {"NONE", "ZONE", "CHECK_IN"}
  BY <1>1, Typed, InFlight, Fields DEF IInv, Handlers
<1>. UNCHANGED <<overlap, failures, point, latest, event, zone, cache, check, overdue, reported>>
  BY <1>1 DEF Fixed
<1>3. RowTypes'
  BY <1>1, <1>2 DEF IInv, TypeOK, RowTypes
<1>4. PICK h \in Handler :
        /\ Moves(p, h)
        /\ h.pc = "findIncident" /\ h.a = a /\ h.src = at[p].src /\ h.t = at[p].t
  <2>. DEFINE g == [at[p] EXCEPT !.pc = "findIncident", !.a = a]
  <2>1. /\ g \in Handler /\ Moves(p, g)
        /\ g.pc = "findIncident" /\ g.a = a /\ g.src = at[p].src /\ g.t = at[p].t
    BY <1>1, <1>2 DEF Handlers, Handler, Moves
  <2>. QED BY <2>1
<1>5. source[a] = "NONE" /\ source'[a] = at[p].src
      /\ \A b \in Alerts : b # a => source'[b] = source[b] /\ open'[b] = open[b]
  <2>1. a >= a
    BY WatchAssumption DEF Alerts
  <2>. QED BY <1>1, <2>1 DEF IInv, TypeOK
<1>6. Knows(h)'
  <2>1. Knows(at[p])
    BY <1>2 DEF Reports
  <2>. QED BY <1>1, <1>4, <1>5, <2>1 DEF Knows, Raising, Reporting
<1>7. Reports'
  BY <1>1, <1>2, <1>4, <1>5, <1>6, ReportsStep DEF Entries, Raising, Reporting
<1>8. Serial => Good(h)'
  <2>1. Serial => Good(at[p])
    BY <1>2 DEF Counted
  <2>. QED BY <1>1, <1>4, <2>1 DEF Good, OnPoint, Raises, InZone, Raising, Reporting
<1>9. ~Raises(h) /\ ~ClearsZone(h) /\ ~ClearsZone(at[p]) /\ Entries' = Entries /\ (WasInside' <=> WasInside)
  BY <1>1, <1>4 DEF Raises, ClearsZone, Raising, Entries, WasInside
<1>10. CASE at[p].src = "ZONE"
  <2>1. ZoneAlerts' = ZoneAlerts \cup {a} /\ a \notin ZoneAlerts
    BY <1>5, <1>10 DEF ZoneAlerts
  <2>2. Cardinality(ZoneAlerts') = Cardinality(ZoneAlerts) + 1
    <3>1. IsFiniteSet(ZoneAlerts)
      BY FiniteRows DEF ZoneAlerts
    <3>. QED BY <2>1, <3>1, OneMore
  <2>3. Raises(at[p])
    BY <1>1, <1>10 DEF Raises, Raising
  <2>4. Serial => Cardinality(Owed) = 1
    BY <1>2, <2>3, OwedBy DEF Others
  <2>5. Serial /\ failures = 0 => WasInside
    BY <1>2, <2>3 DEF Counted, Good
  <2>6. Cardinality(Entries) \in Nat /\ Cardinality(ZoneAlerts) \in Nat
    BY FiniteRows, FS_CardinalityType DEF Entries, ZoneAlerts
  <2>7. Serial /\ failures = 0 =>
           /\ Cardinality(Entries') + Cardinality(ZoneAlerts) + Cardinality(Owed)
                = Cardinality(Entries) + Cardinality(ZoneAlerts') + (IF Raises(h) THEN 1 ELSE 0)
           /\ WasInside' \/ OpenOf("ZONE")' = {} \/ ClearsZone(h)
    BY <1>9, <2>2, <2>4, <2>5, <2>6
  <2>8. Counted'
    BY <1>2, <1>4, <1>8, <2>7, Recount
  <2>. QED BY <1>1, <1>3, <1>4, <1>7, <2>8, AlarmStep
<1>11. CASE at[p].src # "ZONE"
  <2>1. ZoneAlerts' = ZoneAlerts /\ OpenOf("ZONE")' = OpenOf("ZONE")
    BY <1>5, <1>11 DEF ZoneAlerts, OpenOf
  <2>2. ~Raises(at[p])
    BY <1>11 DEF Raises
  <2>3. Counted'
    BY <1>2, <1>4, <1>8, <1>9, <2>1, <2>2, CountedStep
  <2>. QED BY <1>1, <1>3, <1>4, <1>7, <2>3, AlarmStep
<1>. QED BY <1>10, <1>11

LEMMA CrossingStep ==
  ASSUME IInv, NEW p \in Requests, Crossing(p)
  PROVE  IInv'
<1>1. /\ Handlers /\ Fresh /\ Alone /\ Newest /\ Reports /\ Counted
      /\ Others(p) /\ at[p].pc = "crossing"
      /\ at[p].t \in 0..MaxTime /\ latest \in 0..MaxTime /\ TypeOK
  BY Typed, InFlight, Fields DEF IInv, Crossing, At, Handlers, RowTypes
<1>. UNCHANGED <<overlap, failures, point, latest, zone, cache, check, source, open, reported>>
  BY DEF Crossing, Fixed
<1>2. RowTypes'
  BY DEF IInv, TypeOK, RowTypes, Crossing, Fixed
<1>3. PICK h \in Handler :
        /\ Moves(p, h)
        /\ h.src = "ZONE"
        /\ \/ at[p].place = "IN" /\ h.pc = "findAlert"
           \/ at[p].place # "IN" /\ h.pc = "resolve"
  <2>. DEFINE g == [at[p] EXCEPT !.pc = IF at[p].place = "IN" THEN "findAlert" ELSE "resolve",
                                !.src = "ZONE"]
  <2>1. g \in Handler
    BY <1>1 DEF Handlers, Handler
  <2>2. Moves(p, g) /\ g.src = "ZONE"
        /\ g.pc = IF at[p].place = "IN" THEN "findAlert" ELSE "resolve"
    BY <1>1 DEF Handlers, Handler, Moves, Crossing
  <2>. QED BY <2>1, <2>2
<1>4. PICK e \in {"ENTER", "EXIT"} :
        /\ event' = [event EXCEPT ![at[p].t] = e]
        /\ e = "ENTER" <=> at[p].place = "IN"
  BY DEF Crossing
<1>. DEFINE t == at[p].t
<1>5. ASSUME Serial
      PROVE  /\ t \in Times /\ t = latest /\ event[t] = "NONE"
             /\ at[p].place = "IN" <=> ~WasInside
             /\ \A u \in Times : event[u] # "NONE" => u <= t
  <2>1. Good(at[p])
    BY <1>1, <1>5 DEF Counted
  <2>2. t # 0 /\ t = latest /\ event[t] = "NONE" /\ (at[p].place = "IN" <=> ~WasInside)
    BY <1>1, <2>1 DEF Good, OnPoint, InZone
  <2>. QED BY <1>1, <1>5, <2>2, WatchAssumption DEF Times, Newest
<1>. HIDE DEF t
<1>6. Newest'
  <2>. SUFFICES ASSUME Serial
                PROVE  /\ \A u \in Times : event'[u] # "NONE" => u <= latest
                       /\ \A q \in Requests : at'[q].pc = "store" => at'[q].t > latest
    BY <1>1 DEF Newest, Serial
  <2>1. \A u \in Times : event'[u] # "NONE" => event[u] # "NONE" \/ u = t
    BY <1>1, <1>4 DEF TypeOK, t
  <2>2. latest <= latest
    BY <1>1, WatchAssumption
  <2>3. \A q \in Requests : at'[q].pc # "store"
    BY <1>1, <1>3, MovesTo, IdleFields DEF Others
  <2>. QED BY <1>5, <2>1, <2>2, <2>3
<1>7. Reports'
  <2>1. Entries' # {} => Entries # {} \/ h.pc = "findAlert"
    BY <1>1, <1>3, <1>4 DEF Entries, TypeOK
  <2>. QED BY <1>1, <1>3, <2>1, ReportsStep DEF Knows, Raising, Reporting
<1>8. Serial => (WasInside' <=> at[p].place = "IN")
  BY <1>1, <1>4, <1>5, LastEvent DEF t
<1>9. /\ ~Raises(at[p]) /\ ~ClearsZone(at[p])
      /\ Raises(h) <=> at[p].place = "IN"
      /\ ClearsZone(h) <=> at[p].place # "IN"
      /\ ZoneAlerts' = ZoneAlerts /\ OpenOf("ZONE")' = OpenOf("ZONE")
  BY <1>1, <1>3 DEF Raises, ClearsZone, Raising, ZoneAlerts, OpenOf
<1>10. Serial => Good(h)'
  <2>. SUFFICES ASSUME Serial PROVE Good(h)'
    OBVIOUS
  <2>1. ASSUME failures = 0, at[p].place = "IN" PROVE OpenOf("ZONE") = {}
    <3>1. ~WasInside /\ Even
      BY <1>1, <1>5, <2>1 DEF Counted
    <3>2. \A q \in Requests : ~ClearsZone(at[q])
      BY <1>1, <1>9, IdleFields DEF Others
    <3>. QED BY <3>1, <3>2 DEF Even
  <2>2. ~OnPoint(h)
    BY <1>3 DEF OnPoint, Raising, Reporting, InZone
  <2>. QED BY <1>3, <1>8, <1>9, <2>1, <2>2 DEF Good, InZone
<1>11. ASSUME Serial
       PROVE  Cardinality(Entries') = Cardinality(Entries) + (IF Raises(h) THEN 1 ELSE 0)
  <2>1. \A u \in Times : u # t => event'[u] = event[u]
    BY <1>1, <1>4 DEF TypeOK, t
  <2>2. event'[t] = e
    BY <1>1, <1>4, <1>5, <1>11 DEF TypeOK, t
  <2>3. CASE e = "ENTER"
    <3>1. Entries' = Entries \cup {t} /\ t \notin Entries
      BY <1>5, <1>11, <2>1, <2>2, <2>3 DEF Entries
    <3>2. IsFiniteSet(Entries)
      BY FiniteRows DEF Entries
    <3>3. Cardinality(Entries') = Cardinality(Entries) + 1
      BY <3>1, <3>2, OneMore
    <3>. QED BY <1>4, <1>9, <2>3, <3>3
  <2>4. CASE e = "EXIT"
    <3>1. Entries' = Entries
      BY <1>5, <1>11, <2>1, <2>2, <2>4 DEF Entries
    <3>2. Cardinality(Entries) \in Nat
      BY FiniteRows, FS_CardinalityType DEF Entries
    <3>. QED BY <1>4, <1>9, <2>4, <3>1, <3>2
  <2>. QED BY <2>3, <2>4
<1>12. Counted'
  <2>1. Serial => Cardinality(Owed) = 0
    BY <1>1, <1>9, OwedBy DEF Others
  <2>2. Cardinality(Entries) \in Nat /\ Cardinality(ZoneAlerts) \in Nat
    BY FiniteRows, FS_CardinalityType DEF Entries, ZoneAlerts
  <2>3. Serial =>
           /\ Cardinality(Entries') + Cardinality(ZoneAlerts) + Cardinality(Owed)
                = Cardinality(Entries) + Cardinality(ZoneAlerts') + (IF Raises(h) THEN 1 ELSE 0)
           /\ WasInside' \/ OpenOf("ZONE")' = {} \/ ClearsZone(h)
    BY <1>8, <1>9, <1>11, <2>1, <2>2
  <2>. QED BY <1>1, <1>3, <1>10, <2>3, Recount
<1>13. TypeOK' /\ Alone' /\ Fresh'
  BY <1>1, <1>2, <1>3, TypeStep, AloneStep, FreshStep
<1>. QED BY <1>6, <1>7, <1>12, <1>13 DEF IInv

-----------------------------------------------------------------------------
(* Time, failures, and the theorems *)

\* Nobody moves: time passes or the cache expires.
LEMMA NobodyMoves ==
  ASSUME IInv, Tick \/ FallDue \/ CacheExpires \/ UNCHANGED vars
  PROVE  IInv'
<1>1. /\ TypeOK'
      /\ UNCHANGED <<overlap, failures, point, latest, event, zone, check, source, open, reported, at>>
      /\ cache' \in {cache, "NONE"}
  <2>1. CASE Tick
    <3>1. now' \in 0..MaxTime
      BY <2>1, WatchAssumption DEF Tick, IInv, TypeOK
    <3>. QED BY <2>1, <3>1 DEF Tick, IInv, TypeOK, Fixed
  <2>2. CASE FallDue
    BY <2>2 DEF FallDue, IInv, TypeOK, Fixed
  <2>3. CASE CacheExpires
    BY <2>3 DEF CacheExpires, IInv, TypeOK, Fixed
  <2>4. CASE UNCHANGED vars
    BY <2>4 DEF vars, rows, IInv, TypeOK
  <2>. QED BY <2>1, <2>2, <2>3, <2>4
<1>2. Alone' /\ Newest' /\ Fresh'
  BY <1>1 DEF IInv, Alone, Newest, Fresh, Serial
<1>3. Reports'
  BY <1>1 DEF IInv, Reports, Knows, InHand, Coming, Raised, Entries
<1>4. Counted'
  BY <1>1 DEF IInv, Counted, Good, OnPoint, Raises, WasInside, OpenOf, Even, Owed, Entries,
              ZoneAlerts, ClearsZone, Serial
<1>. QED BY <1>1, <1>2, <1>3, <1>4 DEF IInv

\* What a failure leaves behind is what a request finds that comes later.
LEMMA FailStep ==
  ASSUME IInv, NEW p \in Requests, Fail(p)
  PROVE  IInv'
<1>1. /\ failures' \in 0..MaxFailures /\ failures' # 0
      /\ UNCHANGED <<overlap, now, point, latest, event, zone, cache, check, overdue, source,
                     open, reported>>
  BY WatchAssumption DEF Fail, IInv, TypeOK, rows
<1>2. \A q \in Requests : at'[q] = at[q] \/ at'[q] = Idle
  BY DEF Fail, Finish, IInv, TypeOK
<1>3. at' \in [Requests -> Handler]
  BY IdleIsHandler DEF Fail, Finish, IInv, TypeOK
<1>4. TypeOK'
  BY <1>1, <1>3 DEF IInv, TypeOK
<1>5. Alone'
  BY <1>1, <1>2 DEF IInv, Alone, Serial
<1>6. Newest' /\ Fresh'
  BY <1>1, <1>2, IdleFields DEF IInv, Newest, Fresh, Serial
<1>7. Reports'
  BY <1>1, <1>2, IdleFields DEF IInv, Reports, Knows
<1>8. Counted'
  <2>. SUFFICES ASSUME Serial, NEW q \in Requests PROVE Good(at[q])'
    BY <1>1 DEF Counted, Serial
  <2>1. Good(at[q]) /\ Good(Idle)
    BY IdleFields DEF IInv, Counted
  <2>2. Good(at'[q])
    BY <1>2, <2>1
  <2>. QED BY <1>1, <2>2 DEF Good, OnPoint, Raises, WasInside, OpenOf
<1>. QED BY <1>4, <1>5, <1>6, <1>7, <1>8 DEF IInv

LEMMA InitIInv ==
  ASSUME Init
  PROVE  IInv
<1>0. \A q \in Requests : at[q] = Idle
  BY DEF Init
<1>1. TypeOK
  <2>1. 0 \in 0..MaxTime /\ 0 \in 0..MaxFailures
    BY WatchAssumption
  <2>. QED BY <2>1, IdleIsHandler DEF Init, TypeOK
<1>2. Alone /\ Newest /\ Fresh
  BY <1>0, IdleFields DEF Init, Alone, Newest, Fresh
<1>3. Entries = {} /\ ZoneAlerts = {} /\ OpenOf("ZONE") = {} /\ Owed = {}
  BY <1>0, IdleFields DEF Init, Entries, ZoneAlerts, OpenOf, Owed
<1>4. Reports
  BY <1>0, <1>3, IdleFields DEF Init, Reports
<1>5. Counted
  BY <1>0, <1>3, IdleFields, FS_EmptySet DEF Counted, Even
<1>. QED BY <1>1, <1>2, <1>4, <1>5 DEF IInv

LEMMA NextIInv ==
  ASSUME IInv, [Next]_vars
  PROVE  IInv'
<1>1. CASE Tick \/ FallDue \/ CacheExpires \/ UNCHANGED vars
  BY <1>1, NobodyMoves
<1>2. ASSUME NEW p \in Requests, BeginRequest(p) \/ Fail(p)
      PROVE  IInv'
  BY <1>2, BeginStep, FailStep
<1>3. ASSUME NEW p \in Requests, PingStep(p)
      PROVE  IInv'
  BY <1>3, StorePointStep, FindDueStep, MissStep, FindAlertStep, CreateAlertStep,
     FindIncidentStep, CreateIncidentStep, ReadZonesStep, FillCacheStep, CompareStep,
     CrossingStep, ResolveOpenStep DEF PingStep
<1>4. ASSUME NEW p \in Requests, OtherStep(p)
      PROVE  IInv'
  BY <1>4, ScheduleStep, CompleteStep, ResolveAlertStep, SetActiveStep, InvalidateStep
     DEF OtherStep
<1>. QED BY <1>1, <1>2, <1>3, <1>4 DEF Next

THEOREM Inductive == Spec => []IInv
<1>1. Init => IInv
  BY InitIInv
<1>2. IInv /\ [Next]_vars => IInv'
  BY NextIInv
<1>. QED BY <1>1, <1>2, PTL DEF Spec

\* When nobody is in flight, nothing is in anybody's hands.
LEMMA NothingInHand ==
  ASSUME Quiet
  PROVE  /\ \A p \in Requests : at[p].pc = "idle" /\ ~Raises(at[p]) /\ ~ClearsZone(at[p])
         /\ \A a : ~InHand(a)
         /\ \A src : ~Coming(src)
  BY IdleFields DEF Quiet, InHand, Coming, Raising, Reporting

\* Every row holds a value of its column, and what a handler remembers as well.
THEOREM TypeCorrect == Spec => []TypeOK
<1>1. IInv => TypeOK
  BY DEF IInv
<1>. QED BY <1>1, Inductive, PTL

\* A report that arrives late never moves the tourist back (submitPing compares
\* the capture time with the latest location before it stores the point).
THEOREM NoWayBack == Spec => []NewestIsLatest
<1>1. IInv => NewestIsLatest
  BY DEF IInv, Newest, NewestIsLatest
<1>. QED BY <1>1, Inductive, PTL

\* Once the switch of a zone has been answered the cache has nothing older
\* (invalidateSafetyZoneCaches against cacheGetOrSet).
THEOREM SwitchIsSeen == Spec => []CacheIsFresh
<1>1. IInv => CacheIsFresh
  BY NothingInHand DEF IInv, Fresh, CacheIsFresh
<1>. QED BY <1>1, Inductive, PTL

\* Whichever handlers overlap, a check-in shown as missed and a zone that was
\* entered have an incident once they are through (ensureAlert with
\* ingestSafetyAlert).
THEOREM StaffAreTold == Spec => []AlarmsAreReported
<1>1. IInv => AlarmsAreReported
  BY NothingInHand DEF IInv, Reports, AlarmsAreReported
<1>. QED BY <1>1, Inductive, PTL

-----------------------------------------------------------------------------
(* A report that has been judged *)

\* What the handler in flight knows on its way to the end, besides IInv: only a
\* point comes to the zones, with the zone as it is; an incident it is about to
\* create is not there yet; and once the crossing has been recorded the last
\* event says where the point is.
Ready(h) ==
    /\ h.pc \in {"schedule", "complete", "resolveAlert", "setActive", "invalidate"} => h.t = 0
    /\ h.pc = "resolve" => h.src = "ZONE" \/ h.t = 0
    /\ h.pc = "createIncident" => ~reported[h.a]
    /\ h.pc = "compare" => h.seen = zone
    /\ h.pc \in Raising \cup Reporting \cup {"resolve"} /\ h.src = "ZONE" =>
         (h.place = "IN" <=> WasInside)
Judging == Serial /\ failures = 0 => \A p \in Requests : Ready(at[p])

LEMMA IdleIsReady == Ready(Idle) /\ Ready(Idle)'
  BY DEF Idle, Ready, Raising, Reporting

\* The handlers that do not move are idle.
LEMMA JudgingStep ==
  ASSUME NEW p \in Requests, \A q \in Requests : q # p => at'[q] = Idle,
         Ready(at[p])'
  PROVE  Judging'
<1>1. ASSUME NEW q \in Requests PROVE Ready(at[q])'
  BY IdleIsReady DEF Ready
<1>. QED BY <1>1 DEF Judging

\* One handler moves, and without overlap the others are idle.
OneMoves(p) ==
    /\ overlap' = overlap /\ failures' = failures
    /\ \A q \in Requests : q # p => at'[q] = at[q]
    /\ Serial => \A q \in Requests : q # p => at[q] = Idle /\ at'[q] = Idle

LEMMA Single ==
  ASSUME IInv, NEW p \in Requests, BeginRequest(p) \/ PingStep(p) \/ OtherStep(p)
  PROVE  OneMoves(p)
<1>. Handlers /\ Alone
  BY Typed DEF IInv
<1>1. CASE BeginRequest(p)
  <2>1. PICK h : Begin(p, h)
    BY <1>1 DEF BeginRequest, BeginPing, BeginList, BeginSchedule, BeginComplete,
                BeginResolve, BeginSetActive
  <2>. QED BY <2>1 DEF Begin, Quiet, Serial, Unwritten, Fixed, OneMoves, Handlers
<1>2. CASE PingStep(p) \/ OtherStep(p)
  <2>1. at[p].pc # "idle"
    BY <1>2 DEF PingStep, OtherStep, StorePoint, FindDue, Miss, FindAlert, CreateAlert,
       FindIncident, CreateIncident, ReadZones, FillCache, Compare, Crossing, ResolveOpen,
       Schedule, Complete, ResolveAlert, SetActive, Invalidate, At
  <2>2. Others(p)
    BY <2>1, InFlight
  <2>3. overlap' = overlap /\ failures' = failures
    BY <1>2 DEF PingStep, OtherStep, StorePoint, FindDue, Miss, FindAlert, CreateAlert,
       FindIncident, CreateIncident, ReadZones, FillCache, Compare, Crossing, ResolveOpen,
       Schedule, Complete, ResolveAlert, SetActive, Invalidate, Unwritten, Fixed
  <2>4. \A q \in Requests : q # p => at'[q] = at[q]
    BY <1>2 DEF PingStep, OtherStep, StorePoint, FindDue, Miss, FindAlert, CreateAlert,
       FindIncident, CreateIncident, ReadZones, FillCache, Compare, Crossing, ResolveOpen,
       Schedule, Complete, ResolveAlert, SetActive, Invalidate, AfterAlert, AfterCheckIns,
       Goto, Finish, Handlers
  <2>. QED BY <2>2, <2>3, <2>4 DEF OneMoves, Others
<1>. QED BY <1>1, <1>2

\* Once a crossing is recorded the last event says where the point is.
LEMMA Crossed ==
  ASSUME IInv, Serial, NEW p \in Requests, Crossing(p)
  PROVE  WasInside' <=> at[p].place = "IN"
<1>. DEFINE t == at[p].t
<1>1. /\ TypeOK /\ Newest /\ Good(at[p]) /\ at[p].pc = "crossing"
      /\ t \in 0..MaxTime
  BY Typed, Fields DEF IInv, Counted, Crossing, At, Handlers
<1>2. PICK e \in {"ENTER", "EXIT"} :
        event' = [event EXCEPT ![t] = e] /\ (e = "ENTER" <=> at[p].place = "IN")
  BY DEF Crossing
<1>3. t # 0 /\ t = latest
  BY <1>1 DEF Good, OnPoint, InZone
<1>4. t \in Times /\ \A u \in Times : event[u] # "NONE" => u <= t
  BY <1>1, <1>3, WatchAssumption DEF Times, Newest
<1>. HIDE DEF t
<1>. QED BY <1>1, <1>2, <1>4, LastEvent

LEMMA BeginReady ==
  ASSUME NEW p \in Requests, Handlers, BeginRequest(p)
  PROVE  Ready(at[p])'
<1>1. ASSUME NEW h, Begin(p, h), h.pc \in {"store", "checkIns"} \/ h.t = 0,
             h.pc \in {"store", "checkIns", "schedule", "complete", "resolveAlert", "setActive"}
      PROVE  Ready(at[p])'
  BY <1>1 DEF Begin, Handlers, Ready, Raising, Reporting
<1>. QED BY <1>1 DEF BeginRequest, BeginPing, BeginList, BeginSchedule, BeginComplete,
                     BeginResolve, BeginSetActive, Idle

\* What the calls of the tourist and of staff, and the check-ins, leave.
LEMMA OtherReady ==
  ASSUME NEW p \in Requests, Handlers, Ready(at[p]), OtherStep(p)
  PROVE  Ready(at[p])'
<1>1. CASE Schedule(p) \/ ResolveAlert(p) \/ Invalidate(p)
  <2>1. at'[p] = Idle
    BY <1>1 DEF Schedule, ResolveAlert, Invalidate, Finish, Handlers
  <2>. QED BY <2>1, IdleIsReady DEF Ready
<1>2. CASE Complete(p)
  <2>1. at'[p].pc = "resolve" /\ at'[p].src = "CHECK_IN" /\ at'[p].t = at[p].t
    BY <1>2 DEF Complete, Handlers, Handler
  <2>2. at[p].t = 0
    BY <1>2 DEF Complete, At, Ready
  <2>. QED BY <2>1, <2>2 DEF Ready
<1>3. CASE SetActive(p)
  <2>1. at'[p].pc = "invalidate" /\ at'[p].t = at[p].t
    BY <1>3 DEF SetActive, Goto, Handlers, Handler
  <2>2. at[p].t = 0
    BY <1>3 DEF SetActive, At, Ready
  <2>. QED BY <2>1, <2>2 DEF Ready, Raising, Reporting
<1>. QED BY <1>1, <1>2, <1>3 DEF OtherStep

\* The same for the steps of a report, with what they have in hand.
LEMMA PingReady ==
  ASSUME NEW p \in Requests, IInv, Serial, failures = 0, Ready(at[p]),
         \A q \in Requests : q # p => at[q] = Idle,
         PingStep(p)
  PROVE  Ready(at[p])'
<1>. Handlers /\ TypeOK /\ Knows(at[p]) /\ Good(at[p])
  BY Typed DEF IInv, Reports, Counted
<1>0. at'[p] = Idle => Ready(at[p])'
  BY IdleIsReady DEF Ready
<1>1. CASE StorePoint(p)
  <2>1. at'[p] = Idle \/ at'[p].pc = "checkIns"
    BY <1>1 DEF StorePoint, Goto, Finish, Handlers, Handler
  <2>. QED BY <1>0, <2>1 DEF Ready, Raising, Reporting
<1>2. CASE FindDue(p)
  <2>1. at'[p] = Idle \/ at'[p].pc \in {"miss", "zones"}
    BY <1>2 DEF FindDue, AfterCheckIns, Goto, Finish, Handlers, Handler
  <2>. QED BY <1>0, <2>1 DEF Ready, Raising, Reporting
<1>3. CASE Miss(p)
  <2>1. at'[p].pc = "findAlert" /\ at'[p].src = "CHECK_IN"
    BY <1>3 DEF Miss, Handlers, Handler
  <2>. QED BY <2>1 DEF Ready
<1>4. CASE FindAlert(p)
  <2>1. /\ at'[p].pc \in {"createAlert", "findIncident"}
        /\ at'[p].src = at[p].src /\ at'[p].place = at[p].place
    BY <1>4 DEF FindAlert, Goto, Handlers, Handler
  <2>2. at[p].pc = "findAlert" /\ (WasInside' <=> WasInside)
    BY <1>4 DEF FindAlert, At, Unwritten, rows, WasInside
  <2>. QED BY <2>1, <2>2 DEF Ready, Raising
<1>5. CASE CreateAlert(p)
  <2>1. /\ at'[p].pc = "findIncident"
        /\ at'[p].src = at[p].src /\ at'[p].place = at[p].place
    BY <1>5 DEF CreateAlert, Handlers, Handler
  <2>2. at[p].pc = "createAlert" /\ (WasInside' <=> WasInside)
    BY <1>5 DEF CreateAlert, At, WasInside
  <2>. QED BY <2>1, <2>2 DEF Ready, Raising
<1>6. CASE FindIncident(p) /\ ~reported[at[p].a]
  <2>1. /\ at'[p].pc = "createIncident" /\ at'[p].a = at[p].a
        /\ at'[p].src = at[p].src /\ at'[p].place = at[p].place
    BY <1>6 DEF FindIncident, Goto, Handlers, Handler
  <2>2. at[p].pc = "findIncident" /\ reported' = reported /\ (WasInside' <=> WasInside)
    BY <1>6 DEF FindIncident, At, Unwritten, rows, WasInside
  <2>. QED BY <1>6, <2>1, <2>2 DEF Ready, Reporting
<1>7. CASE (FindIncident(p) /\ reported[at[p].a]) \/ CreateIncident(p)
  <2>1. at'[p] = Idle \/ at'[p].pc = "zones"
    BY <1>7 DEF FindIncident, CreateIncident, AfterAlert, AfterCheckIns, Goto, Finish, Handlers, Handler
  <2>. QED BY <1>0, <2>1 DEF Ready, Raising, Reporting
<1>8. CASE ReadZones(p)
  <2>1. at[p].pc = "zones" /\ zone' = zone
    BY <1>8 DEF ReadZones, At, Unwritten, rows
  <2>2. \A q \in Requests : at[q].pc \notin {"fill", "invalidate"}
    BY <2>1, IdleFields
  <2>3. cache \in {"NONE", zone}
    BY <2>2 DEF IInv, Fresh
  <2>4. at'[p].pc \in {"compare", "fill"} /\ at'[p].seen = zone
    BY <1>8, <2>2, <2>3 DEF ReadZones, At, Handlers, Handler
  <2>. QED BY <2>1, <2>4 DEF Ready, Raising, Reporting
<1>9. CASE FillCache(p)
  <2>1. at'[p].pc = "compare" /\ at'[p].seen = at[p].seen /\ at[p].pc = "fill" /\ zone' = zone
    BY <1>9 DEF FillCache, At, Goto, Handlers, Handler
  <2>2. at[p].seen = zone
    BY <2>1 DEF IInv, Fresh
  <2>. QED BY <2>1, <2>2 DEF Ready, Raising, Reporting
<1>10. CASE Compare(p)
  <2>1. at'[p] = Idle \/ at'[p].pc = "crossing"
    BY <1>10 DEF Compare, Goto, Finish, Handlers, Handler
  <2>. QED BY <1>0, <2>1 DEF Ready, Raising, Reporting
<1>11. CASE Crossing(p)
  <2>1. /\ at'[p].place = at[p].place /\ at'[p].src = "ZONE"
        /\ at'[p].pc \in {"findAlert", "resolve"}
    BY <1>11 DEF Crossing, Handlers, Handler
  <2>2. WasInside' <=> at[p].place = "IN"
    BY <1>11, Crossed
  <2>. QED BY <2>1, <2>2 DEF Ready
<1>12. CASE ResolveOpen(p)
  <2>1. at'[p] = Idle
    BY <1>12 DEF ResolveOpen, Finish, Handlers
  <2>. QED BY <1>0, <2>1
<1>. QED BY <1>1, <1>2, <1>3, <1>4, <1>5, <1>6, <1>7, <1>8, <1>9, <1>10, <1>11, <1>12
         DEF PingStep

LEMMA NextJudging ==
  ASSUME IInv, Judging, [Next]_vars
  PROVE  Judging'
<1>1. CASE Tick \/ FallDue \/ CacheExpires \/ UNCHANGED vars
  <2>1. UNCHANGED <<overlap, failures, event, zone, reported, at>>
    BY <1>1 DEF Tick, FallDue, CacheExpires, Fixed, vars, rows
  <2>. QED BY <2>1 DEF Judging, Ready, WasInside, Serial
<1>2. ASSUME NEW p \in Requests, BeginRequest(p) \/ PingStep(p) \/ OtherStep(p)
      PROVE  Judging'
  <2>. SUFFICES ASSUME Serial', failures' = 0 PROVE Judging'
    BY DEF Judging
  <2>1. OneMoves(p)
    BY <1>2, Single
  <2>2. Serial /\ failures = 0 /\ Handlers
    BY <2>1, Typed DEF OneMoves, Serial, IInv
  <2>3. Ready(at[p])
    BY <2>2 DEF Judging
  <2>4. Ready(at[p])'
    BY <1>2, <2>1, <2>2, <2>3, BeginReady, OtherReady, PingReady DEF OneMoves
  <2>. QED BY <2>1, <2>2, <2>4, JudgingStep DEF OneMoves
<1>3. ASSUME NEW p \in Requests, Fail(p) PROVE Judging'
  <2>1. failures' # 0
    BY <1>3 DEF Fail, IInv, TypeOK
  <2>. QED BY <2>1 DEF Judging
<1>. QED BY <1>1, <1>2, <1>3 DEF Next

THEOREM JudgingInvariance == Spec => [](IInv /\ Judging)
<1>1. Init => Judging
  BY IdleIsReady DEF Init, Judging
<1>2. IInv /\ Judging /\ [Next]_vars => Judging'
  BY NextJudging
<1>. QED BY <1>1, <1>2, Inductive, PTL DEF Spec

\* The steps that end a report judged while the zone is on: the last event says
\* where it was.
LEMMA JudgedWhere ==
  ASSUME IInv, Judging, Serial, failures = 0, NEW p \in Requests,
         PingStep(p) \/ OtherStep(p), Judged(p)
  PROVE  at[p].place = "IN" <=> WasInside'
<1>. Handlers /\ Knows(at[p]) /\ Ready(at[p]) /\ Judged(p)
  BY Typed DEF IInv, Reports, Judging
<1>0. at'[p] = Idle /\ at'[p].pc = "idle" /\ at[p].t # 0 /\ at[p].pc # "store" /\ zone = "ON"
  BY IdleFields DEF Judged
<1>1. CASE Compare(p)
  <2>1. at[p].seen = "ON"
    BY <1>0, <1>1 DEF Ready, Compare, At
  <2>2. (at[p].place = "IN") = WasInside
    <3>1. ~Goto(p, "crossing")
      BY <1>0 DEF Goto, Handlers, Handler
    <3>. QED BY <1>1, <2>1, <3>1 DEF Compare
  <2>3. event' = event
    BY <1>1 DEF Compare, Unwritten, rows
  <2>4. WasInside' = WasInside
    BY <2>3 DEF WasInside
  <2>. QED BY <2>2, <2>4, Zenon DEF WasInside
<1>2. CASE at[p].pc \in Reporting \cup {"resolve"} /\ at[p].src = "ZONE" /\ event' = event
  BY <1>2 DEF Ready, WasInside
<1>3. CASE FindIncident(p) \/ CreateIncident(p)
  <2>1. at[p].pc \in Reporting /\ event' = event
    BY <1>3 DEF FindIncident, CreateIncident, At, Reporting, Unwritten, rows
  <2>2. AfterAlert(p)
    BY <1>0, <1>3 DEF FindIncident, CreateIncident, At, Ready, Goto, Handlers, Handler
  <2>3. at[p].src # "CHECK_IN"
    BY <1>0, <2>2 DEF AfterAlert, AfterCheckIns, Goto, Handlers, Handler
  <2>4. at[p].src = "ZONE"
    BY <2>1, <2>3, Fields DEF Knows, Handlers
  <2>. QED BY <1>2, <2>1, <2>4
<1>4. CASE ResolveOpen(p)
  BY <1>0, <1>2, <1>4 DEF Ready, ResolveOpen, At
<1>5. CASE OtherStep(p)
  <2>1. at[p].pc \in {"schedule", "complete", "resolveAlert", "setActive", "invalidate"}
    BY <1>5 DEF OtherStep, Schedule, Complete, ResolveAlert, SetActive, Invalidate, At
  <2>. QED BY <1>0, <2>1 DEF Ready
<1>6. ~StorePoint(p) /\ ~FindDue(p) /\ ~Miss(p) /\ ~FindAlert(p) /\ ~CreateAlert(p)
      /\ ~ReadZones(p) /\ ~FillCache(p) /\ ~Crossing(p)
  <2>1. ~StorePoint(p)
    BY <1>0 DEF StorePoint, At
  <2>2. ~FindDue(p)
    BY <1>0 DEF FindDue, AfterCheckIns, Goto, Handlers, Handler
  <2>3. ~Miss(p) /\ ~FindAlert(p) /\ ~CreateAlert(p)
    BY <1>0 DEF Miss, FindAlert, CreateAlert, Goto, Handlers, Handler
  <2>4. ~ReadZones(p) /\ ~FillCache(p) /\ ~Crossing(p)
    BY <1>0 DEF ReadZones, FillCache, Crossing, Goto, Handlers, Handler
  <2>. QED BY <2>1, <2>2, <2>3, <2>4
<1>. QED BY <1>1, <1>3, <1>4, <1>5, <1>6 DEF PingStep

\* A report that has been judged while the zone is on leaves the last event, the
\* alerts of the entries and the open alerts as they should be (evaluateLocation
\* with ensureAlert and resolveOpenAlert), whatever became of the zone and of
\* earlier alerts before.
THEOREM AlarmsAreKept == Spec => AlarmsFollowReports
<1>1. ASSUME IInv, IInv', Judging, [Next]_vars, NEW p \in Requests,
             Serial, failures' = 0, Judged(p)
      PROVE  /\ at[p].place = "IN" <=> WasInside'
             /\ Cardinality(Entries') = Cardinality(ZoneAlerts')
             /\ at[p].place = "OUT" => OpenOf("ZONE")' = {}
  <2>0. at'[p] = Idle /\ at[p] # Idle
    BY <1>1 DEF Judged, Idle
  <2>1. PICK q \in Requests : BeginRequest(q) \/ PingStep(q) \/ OtherStep(q)
    <3>1. ~(Tick \/ FallDue \/ CacheExpires \/ UNCHANGED vars)
      BY <2>0 DEF Tick, FallDue, CacheExpires, vars
    <3>2. \A q \in Requests : ~Fail(q)
      BY <1>1 DEF Fail, IInv, TypeOK
    <3>. QED BY <1>1, <3>1, <3>2 DEF Next
  <2>2. OneMoves(q)
    BY <1>1, <2>1, Single
  <2>3. p = q /\ ~BeginRequest(q)
    <3>1. p = q
      BY <1>1, <2>0, <2>2 DEF OneMoves
    <3>. QED BY <2>0, <3>1 DEF BeginRequest, BeginPing, BeginList, BeginSchedule, BeginComplete,
                               BeginResolve, BeginSetActive, Begin
  <2>4. failures = 0 /\ Serial' /\ (\A r \in Requests : at'[r] = Idle)
    BY <1>1, <2>0, <2>2, <2>3 DEF OneMoves, Serial
  <2>5. at[p].place = "IN" <=> WasInside'
    BY <1>1, <2>1, <2>3, <2>4, JudgedWhere
  <2>6. Even'
    BY <1>1, <2>4 DEF IInv, Counted
  <2>7. Owed' = {} /\ ~\E r \in Requests : ClearsZone(at[r])'
    <3>1. \A r \in Requests : ~Raises(at[r])' /\ ~ClearsZone(at[r])'
      BY <2>4, IdleFields DEF Raises, ClearsZone
    <3>. QED BY <3>1 DEF Owed
  <2>8. Cardinality(ZoneAlerts') \in Nat
    BY FiniteRows, FS_CardinalityType DEF ZoneAlerts
  <2>9. Cardinality(Entries') = Cardinality(ZoneAlerts') /\ (WasInside' \/ OpenOf("ZONE")' = {})
    BY <2>6, <2>7, <2>8, FS_EmptySet DEF Even
  <2>. QED BY <2>5, <2>9
<1>2. IInv /\ Judging /\ IInv' /\ [Next]_vars =>
        [\A p \in Requests :
           Serial /\ failures' = 0 /\ Judged(p) =>
             /\ at[p].place = "IN" <=> WasInside'
             /\ Cardinality(Entries') = Cardinality(ZoneAlerts')
             /\ at[p].place = "OUT" => OpenOf("ZONE")' = {}]_vars
  BY <1>1
<1>. QED BY <1>2, JudgingInvariance, PTL DEF Spec, AlarmsFollowReports
================================================================================
