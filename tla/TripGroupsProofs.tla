--------------------------- MODULE TripGroupsProofs ---------------------------
(***************************************************************************)
(* TypeOK, StartedGroupIsLocked and GroupKeepsLeader for any number of     *)
(* trips, tourists, overlapping requests and failures.                     *)
(*                                                                         *)
(* Rows are only ever written by id, so what a handler found before its    *)
(* first await need not hold when it writes.  The proof shows what does    *)
(* still hold: a trip once inserted stays, keeps its planner, its group    *)
(* and its lock (Grows).  What each handler relies on (Good) is made of    *)
(* such facts only, and so survives the steps of all the others.           *)
(***************************************************************************)
EXTENDS TripGroups, TLAPS

\* What a handler at h.pc may count on, whatever ran since it began.
Good(h) ==
    /\ h.pc # "idle" => h.t \in Trips /\ h.u \in Users
    /\ h.pc = "createTrip" => trip[h.t] = "NONE"
    /\ h.pc \notin {"idle", "createTrip"} => trip[h.t] # "NONE"
    /\ h.pc = "leave" => h.u # owner[h.t]
    /\ h.pc \in {"rejectAll", "lock"} => group[h.t] # "NONE"
    /\ h.pc = "end" => h.to \in Ended
    /\ (h.pc \in {"ensureToStart", "start"} /\ h.t \in GroupTrips) => locked[h.t]

RowOK(t) ==
    /\ trip[t] = "NONE" => group[t] = "NONE" /\ ~invited[t]
    /\ trip[t] # "NONE" => owner[t] \in Users
    /\ locked[t] => group[t] # "NONE"

RowsOK == \A t \in Trips : RowOK(t)
HandlersGood == \A r \in Requests : Good(req[r])
InsertsDiffer ==
    \A r, q \in Requests : (At(r, "createTrip") /\ At(q, "createTrip") /\ req[r].t = req[q].t) => r = q
JobGood ==
    /\ \A t \in job.todo : trip[t] # "NONE"
    /\ job.pc = "revoke" => job.t \in Trips /\ trip[job.t] # "NONE"

IInv ==
    /\ TypeOK
    /\ RowsOK
    /\ HandlersGood
    /\ InsertsDiffer
    /\ JobGood
    /\ StartedGroupIsLocked
    /\ GroupKeepsLeader

\* What no step of any handler but an insert undoes.
Grows ==
    /\ \A t \in Trips : trip[t] = "NONE" <=> trip'[t] = "NONE"
    /\ \A t \in Trips : owner'[t] = owner[t]
    /\ \A t \in Trips : group[t] # "NONE" => group'[t] # "NONE"
    /\ \A t \in Trips : locked[t] => locked'[t]

LEMMA IdleGoodNext == \A h : h = Idle => Good(h)'
  BY DEF Good, Idle

\* The facts a handler relies on survive the steps of the others.
LEMMA Carry ==
  ASSUME IInv, Grows, NEW h \in Request, Good(h)
  PROVE  Good(h)'
  BY DEF Good, Grows, Request

LEMMA CarryJob ==
  ASSUME IInv, Grows, UNCHANGED job
  PROVE  JobGood'
  BY DEF IInv, TypeOK, JobGood, Grows, Sweep

\* A step that takes one handler from one await to the next.
LEMMA HandlerStep ==
  ASSUME IInv, Grows, TypeOK', RowsOK', StartedGroupIsLocked', GroupKeepsLeader',
         NEW r \in Requests, UNCHANGED job,
         \A q \in Requests \ {r} : req'[q] = req[q],
         NEW h \in Request, req'[r] = h, h.pc # "createTrip", Good(h)'
  PROVE  IInv'
<1>1. HandlersGood'
  <2>1. SUFFICES ASSUME NEW q \in Requests PROVE Good(req[q])'
    BY DEF HandlersGood
  <2>2. CASE q = r
    BY <2>2 DEF Good
  <2>3. CASE q # r
    <3>1. PICK k \in Request : k = req[q]
      BY DEF IInv, TypeOK
    <3>2. Good(k)
      BY <3>1 DEF IInv, HandlersGood
    <3>3. Good(k)'
      BY <3>2, Carry
    <3>4. req'[q] = k
      BY <3>1, <2>3
    <3>. QED BY <3>3, <3>4 DEF Good
  <2>. QED BY <2>2, <2>3
<1>2. InsertsDiffer'
  BY DEF IInv, InsertsDiffer, At
<1>3. JobGood'
  BY CarryJob
<1>. QED BY <1>1, <1>2, <1>3 DEF IInv

LEMMA InitEstablishes == Init => IInv
<1>. SUFFICES ASSUME Init PROVE IInv
  OBVIOUS
<1>1. TypeOK
  BY TripAssumption DEF Init, TypeOK, Idle, Rest, Request, Sweep, Holders, Ended, Open
<1>2. RowsOK /\ HandlersGood /\ InsertsDiffer /\ JobGood
  BY DEF Init, RowsOK, RowOK, HandlersGood, Good, InsertsDiffer, At, JobGood, Idle, Rest
<1>3. StartedGroupIsLocked /\ GroupKeepsLeader
  BY TripAssumption DEF Init, StartedGroupIsLocked, GroupKeepsLeader
<1>. QED BY <1>1, <1>2, <1>3 DEF IInv

-----------------------------------------------------------------------------
(* A handler begins: no row is written. *)

LEMMA UnwrittenRows ==
  ASSUME IInv, UNCHANGED <<overlap, rows>>
  PROVE  /\ Grows
         /\ RowsOK'
         /\ StartedGroupIsLocked'
         /\ GroupKeepsLeader'
  BY DEF IInv, rows, Grows, RowsOK, RowOK, StartedGroupIsLocked, GroupKeepsLeader

LEMMA ServeStep ==
  ASSUME IInv, NEW r \in Requests, NEW h \in Request, Serve(r, h), Good(h),
         h.pc # "createTrip"
  PROVE  IInv'
<1>1. TypeOK'
  BY DEF IInv, TypeOK, Serve, rows
<1>2. /\ Grows
      /\ RowsOK'
      /\ StartedGroupIsLocked'
      /\ GroupKeepsLeader'
  BY UnwrittenRows DEF Serve
<1>3. Good(h)'
  BY <1>2, Carry
<1>4. req'[r] = h /\ \A q \in Requests \ {r} : req'[q] = req[q]
  BY DEF IInv, TypeOK, Serve
<1>. QED BY <1>1, <1>2, <1>3, <1>4, HandlerStep DEF Serve

LEMMA StartStep ==
  ASSUME IInv, NEW r \in Requests, NEW pc, NEW t \in Trips, NEW u \in Users,
         Start(r, pc, t, u),
         pc \in {"ensure", "grant", "withdraw", "createGroup", "invite", "uninvite", "join",
                 "ask", "approve", "reject", "rejectAll", "leave", "ensureToStart", "extend"},
         trip[t] # "NONE",
         pc = "leave" => u # owner[t],
         pc = "rejectAll" => group[t] # "NONE",
         (pc = "ensureToStart" /\ t \in GroupTrips) => locked[t]
  PROVE  IInv'
<1>. DEFINE h == [Idle EXCEPT !.pc = pc, !.t = t, !.u = u]
<1>2. h \in Request
  BY DEF Idle, Request
<1>3. h.pc = pc /\ h.t = t /\ h.u = u
  BY DEF Idle
<1>4. Serve(r, h)
  BY DEF Start
<1>. HIDE DEF h
<1>5. Good(h)
  BY <1>3 DEF Good
<1>. QED BY <1>2, <1>3, <1>4, <1>5, ServeStep

LEMMA BeginKeeps ==
  ASSUME IInv, NEW r \in Requests, Begin(r)
  PROVE  IInv'
<1>1. PICK t \in Trips :
        \/ \E u \in Users : \/ BeginCreateTrip(r, t, u)
                            \/ BeginEnsure(r, t, u)
                            \/ BeginJoin(r, t, u)
                            \/ BeginAsk(r, t, u)
                            \/ BeginApprove(r, t, u)
                            \/ BeginReject(r, t, u)
                            \/ BeginLeave(r, t, u)
        \/ \E pc \in {"grant", "withdraw"} : BeginConsent(r, t, pc)
        \/ BeginCreateGroup(r, t)
        \/ BeginInvite(r, t)
        \/ BeginUninvite(r, t)
        \/ BeginLock(r, t)
        \/ BeginStart(r, t)
        \/ BeginExtend(r, t)
        \/ \E to \in Ended : BeginEnd(r, t, to)
  BY DEF Begin
<1>2. RowOK(t)
  BY DEF IInv, RowsOK
<1>3. ASSUME NEW u \in Users, BeginCreateTrip(r, t, u) PROVE IInv'
  <2>. DEFINE h == [Idle EXCEPT !.pc = "createTrip", !.t = t, !.u = u]
  <2>1. h \in Request
    BY DEF Idle, Request
  <2>2. h \in Request /\ h.pc = "createTrip" /\ h.t = t /\ h.u = u
    BY <2>1 DEF Idle
  <2>3. Serve(r, h) /\ FreshTrip(t)
    BY <1>3 DEF BeginCreateTrip, Start
  <2>. HIDE DEF h
  <2>4. TypeOK'
    BY <2>2, <2>3 DEF IInv, TypeOK, Serve, rows
  <2>5. /\ Grows
        /\ RowsOK'
        /\ StartedGroupIsLocked'
        /\ GroupKeepsLeader'
    BY <2>3, UnwrittenRows DEF Serve
  <2>6. req'[r] = h /\ \A q \in Requests \ {r} : req'[q] = req[q]
    BY <2>3 DEF IInv, TypeOK, Serve
  <2>7. Good(h)
    BY <2>2, <2>3 DEF Good, FreshTrip
  <2>8. HandlersGood'
    <3>1. SUFFICES ASSUME NEW q \in Requests PROVE Good(req[q])'
      BY DEF HandlersGood
    <3>2. PICK k \in Request : k = req'[q]
      BY <2>4 DEF TypeOK
    <3>3. Good(k)
      BY <2>6, <2>7, <3>2 DEF IInv, HandlersGood
    <3>4. Good(k)'
      BY <2>5, <3>3, Carry
    <3>. QED BY <3>2, <3>4 DEF Good
  <2>9. InsertsDiffer'
    BY <2>2, <2>3, <2>6 DEF IInv, InsertsDiffer, At, FreshTrip
  <2>10. JobGood'
    BY <2>3, <2>5, CarryJob DEF Serve
  <2>. QED BY <2>4, <2>5, <2>8, <2>9, <2>10 DEF IInv
<1>4. ASSUME NEW u \in Users, BeginEnsure(r, t, u) PROVE IInv'
  BY <1>4, StartStep DEF BeginEnsure
<1>5. ASSUME NEW u \in Users, BeginJoin(r, t, u) PROVE IInv'
  BY <1>5, StartStep DEF BeginJoin, MayJoin, MembershipOpen
<1>6. ASSUME NEW u \in Users, BeginAsk(r, t, u) PROVE IInv'
  BY <1>6, StartStep DEF BeginAsk, MayJoin, MembershipOpen
<1>7. ASSUME NEW u \in Users, BeginApprove(r, t, u) PROVE IInv'
  BY <1>7, StartStep DEF BeginApprove, MayJoin, MembershipOpen
<1>8. ASSUME NEW u \in Users, BeginReject(r, t, u) PROVE IInv'
  BY <1>8, StartStep DEF BeginReject, MembershipOpen
<1>9. ASSUME NEW u \in Users, BeginLeave(r, t, u) PROVE IInv'
  BY <1>9, StartStep DEF BeginLeave, GroupOpen, Open
<1>10. ASSUME NEW pc \in {"grant", "withdraw"}, BeginConsent(r, t, pc) PROVE IInv'
  <2>1. trip[t] # "NONE" /\ Start(r, pc, t, owner[t])
    BY <1>10 DEF BeginConsent, Open
  <2>. QED BY <1>2, <2>1, StartStep DEF RowOK
<1>11. CASE BeginCreateGroup(r, t)
  BY <1>2, <1>11, StartStep DEF BeginCreateGroup, RowOK
<1>12. CASE BeginInvite(r, t)
  BY <1>2, <1>12, StartStep DEF BeginInvite, MembershipOpen, RowOK
<1>13. CASE BeginUninvite(r, t)
  BY <1>2, <1>13, StartStep DEF BeginUninvite, RowOK
<1>14. CASE BeginLock(r, t)
  BY <1>2, <1>14, StartStep DEF BeginLock, RowOK
<1>15. CASE BeginStart(r, t)
  BY <1>2, <1>15, StartStep DEF BeginStart, RowOK
<1>16. CASE BeginExtend(r, t)
  BY <1>2, <1>16, StartStep DEF BeginExtend, RowOK
<1>17. ASSUME NEW to \in Ended, BeginEnd(r, t, to) PROVE IInv'
  <2>1. trip[t] # "NONE"
    BY <1>17 DEF BeginEnd, Open
  <2>. DEFINE h == [pc |-> "end", t |-> t, u |-> owner[t], to |-> to]
  <2>2. h \in Request /\ Good(h) /\ h.pc = "end"
    BY <1>2, <2>1 DEF Request, Good, RowOK
  <2>3. Serve(r, h)
    BY <1>17 DEF BeginEnd
  <2>. HIDE DEF h
  <2>. QED BY <2>2, <2>3, ServeStep
<1>. QED BY <1>1, <1>3, <1>4, <1>5, <1>6, <1>7, <1>8, <1>9, <1>10, <1>11, <1>12, <1>13,
            <1>14, <1>15, <1>16, <1>17

-----------------------------------------------------------------------------
(* A handler goes on.  Written says what is left to show once the new pc   *)
(* asks for nothing that the old one had not.                              *)

Written ==
    /\ Grows
    /\ TypeOK'
    /\ RowsOK'
    /\ StartedGroupIsLocked'
    /\ GroupKeepsLeader'

Easy == {"idle", "ensure", "issueGroup", "revokeOne", "extendAll", "revokeAll"}

LEMMA ContinueStep ==
  ASSUME IInv, Written, NEW r \in Requests, UNCHANGED job, req[r].pc # "idle",
         req[r].pc # "createTrip", NEW pc \in Easy, Continue(r, pc)
  PROVE  IInv'
<1>1. req' = [req EXCEPT ![r].pc = pc]
  BY DEF Continue
<1>2. PICK h \in Request : h = req'[r]
  BY DEF Written, TypeOK
<1>3. /\ h.pc = pc /\ h.t = req[r].t /\ h.u = req[r].u
      /\ \A q \in Requests \ {r} : req'[q] = req[q]
  BY <1>1, <1>2 DEF IInv, TypeOK, Request
<1>4. Good(h)
  BY <1>3 DEF IInv, HandlersGood, Good, Easy
<1>5. Good(h)'
  BY <1>2, <1>4, Carry DEF Written
<1>. QED BY <1>2, <1>3, <1>5, HandlerStep DEF Written, Easy

LEMMA FinishStep ==
  ASSUME IInv, Written, NEW r \in Requests, UNCHANGED job, Finish(r)
  PROVE  IInv'
<1>1. PICK h \in Request : h = Idle
  BY DEF Idle, Request
<1>2. req'[r] = h /\ \A q \in Requests \ {r} : req'[q] = req[q]
  BY <1>1 DEF Finish, IInv, TypeOK
<1>3. Good(h)'
  BY <1>1, IdleGoodNext
<1>. QED BY <1>1, <1>2, <1>3, HandlerStep DEF Written, Idle

LEMMA UpdateNested ==
  ASSUME NEW S, NEW K, NEW V, NEW f \in [S -> [K -> V]], NEW x \in S, NEW y \in K, NEW v \in V
  PROVE  [f EXCEPT ![x][y] = v] \in [S -> [K -> V]]
  OBVIOUS

LEMMA ContinueType ==
  ASSUME IInv, NEW r \in Requests,
         NEW pc \in Easy \cup {"lock", "start"},
         req' = [req EXCEPT ![r].pc = pc]
  PROVE  req' \in [Requests -> Request]
<1>1. req \in [Requests -> Request]
  BY DEF IInv, TypeOK
<1>. DEFINE k == [req[r] EXCEPT !.pc = pc]
<1>2. k \in Request
  BY <1>1 DEF Request, Easy
<1>3. req' = [req EXCEPT ![r] = k]
  OBVIOUS
<1>. HIDE DEF k
<1>. QED BY <1>1, <1>2, <1>3

LEMMA FinishType ==
  ASSUME IInv, NEW r \in Requests, Finish(r)
  PROVE  req' \in [Requests -> Request]
  BY DEF IInv, TypeOK, Request, Finish, Idle

\* What a handler in flight knows, spelled out.
LEMMA InFlight ==
  ASSUME IInv, NEW r \in Requests, req[r].pc # "idle"
  PROVE  /\ req[r].t \in Trips
         /\ req[r].u \in Users
         /\ RowOK(req[r].t)
         /\ req[r].pc # "createTrip" => trip[req[r].t] # "NONE" /\ owner[req[r].t] \in Users
  BY DEF IInv, HandlersGood, Good, RowsOK, RowOK

\* Steps that leave trips, planners, groups, locks, members and invitations alone.
LEMMA SideRows ==
  ASSUME IInv, UNCHANGED <<trip, owner, group, locked, members, invited>>
  PROVE  Grows /\ RowsOK' /\ StartedGroupIsLocked' /\ GroupKeepsLeader'
  BY DEF IInv, Grows, RowsOK, RowOK, StartedGroupIsLocked, GroupKeepsLeader

LEMMA CreateTripKeeps ==
  ASSUME IInv, NEW r \in Requests, CreateTrip(r)
  PROVE  IInv'
<1>. DEFINE t == req[r].t
<1>1. /\ t \in Trips /\ req[r].u \in Users /\ RowOK(t) /\ trip[t] = "NONE"
      /\ At(r, "createTrip")
  BY InFlight DEF CreateTrip, At, IInv, HandlersGood, Good
<1>2. /\ trip' = [trip EXCEPT ![t] = "PLANNED"]
      /\ owner' = [owner EXCEPT ![t] = req[r].u]
      /\ req' = [req EXCEPT ![r].pc = "ensure"]
      /\ UNCHANGED <<overlap, due, granted, group, locked, members, invited, request, cred, job,
                     failures>>
  BY DEF CreateTrip, Continue
<1>. HIDE DEF t
<1>3. TypeOK'
  <2>1. trip' \in [Trips -> Open \cup Ended \cup {"NONE"}]
    BY <1>1, <1>2 DEF IInv, TypeOK, Open
  <2>2. owner' \in [Trips -> Users \cup {None}]
    BY <1>1, <1>2 DEF IInv, TypeOK
  <2>3. req' \in [Requests -> Request]
    BY <1>2, ContinueType DEF Easy
  <2>. QED BY <1>2, <2>1, <2>2, <2>3 DEF IInv, TypeOK
<1>4. RowsOK'
  BY <1>1, <1>2 DEF IInv, TypeOK, RowsOK, RowOK
<1>5. StartedGroupIsLocked'
  BY <1>1, <1>2 DEF IInv, TypeOK, StartedGroupIsLocked
<1>6. GroupKeepsLeader'
  BY <1>1, <1>2 DEF IInv, TypeOK, GroupKeepsLeader, RowOK
<1>7. HandlersGood'
  <2>1. SUFFICES ASSUME NEW q \in Requests PROVE Good(req[q])'
    BY DEF HandlersGood
  <2>2. CASE q = r
    <3>1. req'[q].pc = "ensure" /\ req'[q].t = t /\ req'[q].u = req[r].u
      BY <1>2, <2>2 DEF IInv, TypeOK, Request, t
    <3>. QED BY <1>1, <1>2, <3>1 DEF Good, IInv, TypeOK
  <2>3. CASE q # r
    <3>1. PICK k \in Request : k = req[q]
      BY DEF IInv, TypeOK
    <3>2. Good(k) /\ (k.pc = "createTrip" => k.t # t)
      BY <1>1, <2>3, <3>1 DEF IInv, HandlersGood, InsertsDiffer, At, t
    <3>3. k.pc = "leave" => k.t # t
      BY <1>1, <3>2 DEF Good
    <3>4. Good(k)'
      BY <1>1, <1>2, <3>2, <3>3 DEF Good, IInv, TypeOK
    <3>5. req'[q] = k
      BY <1>2, <2>3, <3>1 DEF IInv, TypeOK
    <3>. QED BY <3>4, <3>5 DEF Good
  <2>. QED BY <2>2, <2>3
<1>8. InsertsDiffer'
  BY <1>2 DEF IInv, TypeOK, InsertsDiffer, At, Request
<1>9. JobGood'
  BY <1>1, <1>2 DEF IInv, TypeOK, JobGood, Sweep
<1>. QED BY <1>3, <1>4, <1>5, <1>6, <1>7, <1>8, <1>9 DEF IInv

LEMMA EnsureKeeps ==
  ASSUME IInv, NEW r \in Requests, EnsureIndividual(r)
  PROVE  IInv'
<1>. DEFINE t == req[r].t
            u == req[r].u
<1>1. req[r].pc \in {"ensure", "ensureToStart"}
  BY DEF EnsureIndividual
<1>2. t \in Trips /\ u \in Users
  BY <1>1, InFlight
<1>3. UNCHANGED <<overlap, trip, owner, due, granted, group, locked, members, invited, request,
                  job, failures>>
  BY DEF EnsureIndividual, Fixed
<1>4. cred' \in [Trips -> [Holders -> {"NONE", "ACTIVE", "EXPIRED", "REVOKED"}]]
  <2>1. Issued(t) \in {"ACTIVE", "EXPIRED"}
    BY DEF Issued
  <2>2. cred' = cred \/ cred' = [cred EXCEPT ![t][u] = Issued(t)]
    BY DEF EnsureIndividual
  <2>. HIDE DEF t, u
  <2>3. cred \in [Trips -> [Holders -> {"NONE", "ACTIVE", "EXPIRED", "REVOKED"}]] /\ u \in Holders
    BY <1>2 DEF IInv, TypeOK, Holders
  <2>. QED BY <1>2, <2>1, <2>2, <2>3, UpdateNested
<1>5. Grows /\ RowsOK' /\ StartedGroupIsLocked' /\ GroupKeepsLeader'
  BY <1>3, SideRows
<1>6. CASE Finish(r)
  BY <1>3, <1>4, <1>5, <1>6, FinishStep, FinishType DEF Written, IInv, TypeOK
<1>7. CASE At(r, "ensureToStart") /\ Continue(r, "start")
  <2>1. req' = [req EXCEPT ![r].pc = "start"]
    BY <1>7 DEF Continue
  <2>2. TypeOK'
    BY <1>3, <1>4, <2>1, ContinueType DEF IInv, TypeOK
  <2>3. PICK h \in Request : h = req'[r]
    BY <2>2 DEF TypeOK
  <2>4. /\ h.pc = "start" /\ h.t = req[r].t /\ h.u = req[r].u
        /\ \A q \in Requests \ {r} : req'[q] = req[q]
    BY <2>1, <2>3 DEF IInv, TypeOK, Request
  <2>5. Good(h)
    BY <1>7, <2>4 DEF IInv, HandlersGood, Good, At
  <2>6. Good(h)'
    BY <1>5, <2>5, Carry
  <2>. QED BY <1>3, <1>5, <2>2, <2>3, <2>4, <2>6, HandlerStep
<1>. QED BY <1>1, <1>6, <1>7 DEF EnsureIndividual, At

\* Consents, join requests and credentials: no row the invariant speaks of.
LEMMA SideStep ==
  ASSUME IInv, NEW r \in Requests, req[r].pc \notin {"idle", "createTrip"},
         UNCHANGED <<overlap, trip, owner, due, group, locked, members, invited, job, failures>>,
         granted' \in [Trips -> BOOLEAN],
         request' \in [Trips -> [Users -> {"NONE", "PENDING", "APPROVED", "REJECTED"}]],
         cred' \in [Trips -> [Holders -> {"NONE", "ACTIVE", "EXPIRED", "REVOKED"}]],
         Finish(r) \/ \E pc \in Easy : Continue(r, pc)
  PROVE  IInv'
<1>1. Grows /\ RowsOK' /\ StartedGroupIsLocked' /\ GroupKeepsLeader'
  BY SideRows
<1>2. CASE Finish(r)
  BY <1>1, <1>2, FinishStep, FinishType DEF Written, IInv, TypeOK
<1>3. ASSUME NEW pc \in Easy, Continue(r, pc) PROVE IInv'
  <2>1. req' \in [Requests -> Request]
    BY <1>3, ContinueType DEF Continue
  <2>2. TypeOK'
    BY <2>1 DEF IInv, TypeOK
  <2>. QED BY <1>1, <1>3, <2>2, ContinueStep DEF Written
<1>. QED BY <1>2, <1>3

LEMMA CredentialSteps ==
  ASSUME IInv, NEW r \in Requests, IssueGroup(r) \/ RevokeOne(r)
  PROVE  IInv'
<1>. DEFINE t == req[r].t
            u == req[r].u
<1>1. req[r].pc \in {"issueGroup", "revokeOne"} /\ t \in Trips /\ u \in Users
  BY InFlight DEF IssueGroup, RevokeOne, At
<1>2. Issued(t) \in {"ACTIVE", "EXPIRED"}
  BY DEF Issued
<1>3. /\ UNCHANGED <<overlap, trip, owner, due, granted, group, locked, members, invited,
                      request, job, failures>>
      /\ Finish(r) \/ \E pc \in Easy : Continue(r, pc)
  BY DEF IssueGroup, RevokeOne, Fixed, Easy
<1>4. \/ cred' = cred
      \/ cred' = [cred EXCEPT ![t][Group] = Issued(t)]
      \/ cred' = [cred EXCEPT ![t][u] = Revoke(@)]
  BY DEF IssueGroup, RevokeOne
<1>. HIDE DEF t, u
<1>5. Revoke(cred[t][u]) \in {"NONE", "REVOKED"}
  BY DEF Revoke
<1>6. cred' \in [Trips -> [Holders -> {"NONE", "ACTIVE", "EXPIRED", "REVOKED"}]]
  <2>1. /\ cred \in [Trips -> [Holders -> {"NONE", "ACTIVE", "EXPIRED", "REVOKED"}]]
        /\ u \in Holders /\ Group \in Holders
    BY <1>1 DEF IInv, TypeOK, Holders
  <2>. QED BY <1>1, <1>2, <1>4, <1>5, <2>1, UpdateNested
<1>. QED BY <1>1, <1>3, <1>6, SideStep DEF IInv, TypeOK

LEMMA RequestSteps ==
  ASSUME IInv, NEW r \in Requests, Consent(r) \/ Ask(r) \/ Reject(r)
  PROVE  IInv'
<1>. DEFINE t == req[r].t
            u == req[r].u
<1>1. req[r].pc \notin {"idle", "createTrip"} /\ t \in Trips /\ u \in Users
  BY InFlight DEF Consent, Ask, Reject, At
<1>2. /\ UNCHANGED <<overlap, trip, owner, due, group, locked, members, invited, cred, job,
                      failures>>
      /\ Finish(r)
      /\ granted' = granted \/ granted' = [granted EXCEPT ![t] = At(r, "grant")]
      /\ \/ request' = request
         \/ request' = [request EXCEPT ![t][u] = "PENDING"]
         \/ request' = [request EXCEPT ![t][u] = "REJECTED"]
  BY DEF Consent, Ask, Reject, Fixed
<1>. HIDE DEF t, u
<1>3. At(r, "grant") \in BOOLEAN
  BY DEF At
<1>4. granted' \in [Trips -> BOOLEAN]
  BY <1>1, <1>2, <1>3 DEF IInv, TypeOK
<1>5. request' \in [Trips -> [Users -> {"NONE", "PENDING", "APPROVED", "REJECTED"}]]
  <2>1. request \in [Trips -> [Users -> {"NONE", "PENDING", "APPROVED", "REJECTED"}]]
    BY DEF IInv, TypeOK
  <2>. QED BY <1>1, <1>2, <2>1, UpdateNested
<1>. QED BY <1>1, <1>2, <1>4, <1>5, SideStep DEF IInv, TypeOK

\* Steps that write rows and then finish, or go on to where nothing is relied on.
LEMMA RowStep ==
  ASSUME IInv, NEW r \in Requests, req[r].pc \notin {"idle", "createTrip"}, UNCHANGED job,
         req' \in [Requests -> Request] => TypeOK',
         Grows, RowsOK', StartedGroupIsLocked', GroupKeepsLeader',
         Finish(r) \/ \E pc \in Easy : Continue(r, pc)
  PROVE  IInv'
<1>1. CASE Finish(r)
  BY <1>1, FinishType, FinishStep DEF Written
<1>2. ASSUME NEW pc \in Easy, Continue(r, pc) PROVE IInv'
  <2>1. req' \in [Requests -> Request]
    BY <1>2, ContinueType DEF Continue
  <2>. QED BY <1>2, <2>1, ContinueStep DEF Written
<1>. QED BY <1>1, <1>2

LEMMA GatherSteps ==
  ASSUME IInv, NEW r \in Requests,
         CreateGroup(r) \/ Invite(r) \/ Join(r) \/ Approve(r) \/ Leave(r)
  PROVE  IInv'
<1>. DEFINE t == req[r].t
            u == req[r].u
<1>1. /\ req[r].pc \in {"createGroup", "invite", "uninvite", "join", "approve", "leave"}
      /\ t \in Trips /\ u \in Users /\ trip[t] # "NONE" /\ owner[t] \in Users
  BY InFlight DEF CreateGroup, Invite, Join, Approve, Leave, At
<1>2. /\ UNCHANGED <<overlap, trip, owner, due, granted, locked, cred, job, failures>>
      /\ Finish(r) \/ \E pc \in Easy : Continue(r, pc)
  BY DEF CreateGroup, Invite, Join, Approve, Leave, Fixed, Easy
<1>3. \/ /\ group[t] = "NONE"
         /\ group' = [group EXCEPT ![t] = "ACTIVE"]
         /\ members' = [members EXCEPT ![t] = {owner[t]}]
         /\ UNCHANGED <<invited, request>>
      \/ /\ invited' = [invited EXCEPT ![t] = At(r, "invite")]
         /\ UNCHANGED <<group, members, request>>
      \/ /\ members' = [members EXCEPT ![t] = @ \cup {u}]
         /\ request' = request \/ request' = [request EXCEPT ![t][u] = "APPROVED"]
         /\ UNCHANGED <<group, invited>>
      \/ /\ u # owner[t]
         /\ members' = [members EXCEPT ![t] = @ \ {u}]
         /\ UNCHANGED <<group, invited, request>>
      \/ UNCHANGED <<group, members, invited, request>>
  BY DEF CreateGroup, Invite, Join, Approve, Leave, At, IInv, HandlersGood, Good
<1>4. At(r, "invite") \in BOOLEAN
  BY DEF At
<1>. HIDE DEF t, u
<1>5. ASSUME req' \in [Requests -> Request] PROVE TypeOK'
  <2>1. request' \in [Trips -> [Users -> {"NONE", "PENDING", "APPROVED", "REJECTED"}]]
    <3>1. request \in [Trips -> [Users -> {"NONE", "PENDING", "APPROVED", "REJECTED"}]]
      BY DEF IInv, TypeOK
    <3>. QED BY <1>1, <1>3, <3>1, UpdateNested
  <2>2. group' \in [Trips -> {"NONE", "ACTIVE", "CLOSED"}]
    <3>1. group \in [Trips -> {"NONE", "ACTIVE", "CLOSED"}]
      BY DEF IInv, TypeOK
    <3>2. group' = group \/ group' = [group EXCEPT ![t] = "ACTIVE"]
      BY <1>3
    <3>. QED BY <3>1, <3>2
  <2>3. members' \in [Trips -> SUBSET Users]
    <3>1. members \in [Trips -> SUBSET Users]
      BY DEF IInv, TypeOK
    <3>2. \/ members' = members
          \/ members' = [members EXCEPT ![t] = {owner[t]}]
          \/ members' = [members EXCEPT ![t] = @ \cup {u}]
          \/ members' = [members EXCEPT ![t] = @ \ {u}]
      BY <1>3
    <3>. QED BY <1>1, <3>1, <3>2
  <2>4. invited' \in [Trips -> BOOLEAN]
    <3>1. invited \in [Trips -> BOOLEAN]
      BY DEF IInv, TypeOK
    <3>. QED BY <1>3, <1>4, <3>1
  <2>. QED BY <1>2, <1>5, <2>1, <2>2, <2>3, <2>4 DEF IInv, TypeOK
<1>6. Grows
  BY <1>1, <1>2, <1>3 DEF IInv, TypeOK, Grows
<1>7. RowsOK'
  <2>. SUFFICES ASSUME NEW s \in Trips PROVE RowOK(s)'
    BY DEF RowsOK
  <2>1. RowOK(s)
    BY DEF IInv, RowsOK
  <2>2. s # t => group'[s] = group[s] /\ invited'[s] = invited[s]
    BY <1>1, <1>3 DEF IInv, TypeOK
  <2>3. group[s] # "NONE" => group'[s] # "NONE"
    BY <1>6 DEF Grows
  <2>. QED BY <1>1, <1>2, <2>1, <2>2, <2>3 DEF RowOK
<1>8. StartedGroupIsLocked'
  BY <1>2, <1>6, TripAssumption DEF IInv, StartedGroupIsLocked, Grows
<1>9. GroupKeepsLeader'
  <2>1. SUFFICES ASSUME NEW s \in Trips, group'[s] # "NONE" PROVE owner'[s] \in members'[s]
    BY DEF GroupKeepsLeader
  <2>2. /\ group \in [Trips -> {"NONE", "ACTIVE", "CLOSED"}] /\ members \in [Trips -> SUBSET Users]
        /\ group[s] # "NONE" => owner[s] \in members[s]
    BY DEF IInv, TypeOK, GroupKeepsLeader
  <2>3. CASE s = t
    BY <1>1, <1>2, <1>3, <2>1, <2>2, <2>3
  <2>4. CASE s # t
    <3>1. group'[s] = group[s] /\ members'[s] = members[s]
      BY <1>3, <2>2, <2>4
    <3>. QED BY <1>2, <2>1, <2>2, <3>1
  <2>. QED BY <2>3, <2>4
<1>. QED BY <1>1, <1>2, <1>5, <1>6, <1>7, <1>8, <1>9, RowStep

LEMMA RejectAllKeeps ==
  ASSUME IInv, NEW r \in Requests, RejectAll(r)
  PROVE  IInv'
<1>. DEFINE t == req[r].t
<1>1. req[r].pc = "rejectAll" /\ t \in Trips /\ group[t] # "NONE"
  BY InFlight DEF RejectAll, At, IInv, HandlersGood, Good
<1>2. /\ request' = [request EXCEPT ![t] =
            [v \in Users |-> IF request[t][v] = "PENDING" THEN "REJECTED" ELSE request[t][v]]]
      /\ req' = [req EXCEPT ![r].pc = "lock"]
      /\ UNCHANGED <<overlap, trip, owner, due, granted, group, locked, members, invited, cred,
                     job, failures>>
  BY DEF RejectAll, Continue, Fixed
<1>. HIDE DEF t
<1>3. TypeOK'
  <2>1. req' \in [Requests -> Request]
    BY <1>2, ContinueType
  <2>2. request' \in [Trips -> [Users -> {"NONE", "PENDING", "APPROVED", "REJECTED"}]]
    BY <1>1, <1>2 DEF IInv, TypeOK
  <2>. QED BY <1>2, <2>1, <2>2 DEF IInv, TypeOK
<1>4. Grows /\ RowsOK' /\ StartedGroupIsLocked' /\ GroupKeepsLeader'
  BY <1>2, SideRows
<1>5. PICK h \in Request : h = req'[r]
  BY <1>3 DEF TypeOK
<1>6. /\ h.pc = "lock" /\ h.t = req[r].t /\ h.u = req[r].u
      /\ \A q \in Requests \ {r} : req'[q] = req[q]
  BY <1>2, <1>5 DEF IInv, TypeOK, Request
<1>7. Good(h)
  BY <1>1, <1>6 DEF IInv, HandlersGood, Good
<1>8. Good(h)'
  BY <1>4, <1>7, Carry
<1>. QED BY <1>2, <1>3, <1>4, <1>5, <1>6, <1>8, HandlerStep

LEMMA LockKeeps ==
  ASSUME IInv, NEW r \in Requests, Lock(r)
  PROVE  IInv'
<1>. DEFINE t == req[r].t
<1>1. req[r].pc = "lock" /\ t \in Trips /\ group[t] # "NONE"
  BY InFlight DEF Lock, At, IInv, HandlersGood, Good
<1>2. /\ locked' = [locked EXCEPT ![t] = TRUE]
      /\ Finish(r)
      /\ UNCHANGED <<overlap, trip, owner, due, granted, group, members, invited, request, cred,
                     job, failures>>
  BY DEF Lock, Fixed
<1>. HIDE DEF t
<1>3. req' \in [Requests -> Request] => TypeOK'
  BY <1>1, <1>2 DEF IInv, TypeOK
<1>4. Grows /\ RowsOK' /\ StartedGroupIsLocked' /\ GroupKeepsLeader'
  BY <1>1, <1>2, TripAssumption
     DEF IInv, TypeOK, Grows, RowsOK, RowOK, StartedGroupIsLocked, GroupKeepsLeader
<1>. QED BY <1>1, <1>2, <1>3, <1>4, RowStep

\* The only step that makes a trip ACTIVE: its group was locked when the
\* handler began, and still is.
LEMMA StartTripKeeps ==
  ASSUME IInv, NEW r \in Requests, StartTrip(r)
  PROVE  IInv'
<1>. DEFINE t == req[r].t
<1>1. /\ req[r].pc = "start" /\ t \in Trips /\ trip[t] # "NONE" /\ owner[t] \in Users
      /\ t \in GroupTrips => locked[t]
  BY InFlight DEF StartTrip, At, IInv, HandlersGood, Good
<1>2. /\ trip' = [trip EXCEPT ![t] = "ACTIVE"]
      /\ Finish(r)
      /\ UNCHANGED <<overlap, owner, due, granted, group, locked, members, invited, request, cred,
                     job, failures>>
  BY DEF StartTrip, Fixed
<1>. HIDE DEF t
<1>3. req' \in [Requests -> Request] => TypeOK'
  BY <1>1, <1>2 DEF IInv, TypeOK, Open
<1>4. Grows /\ RowsOK' /\ GroupKeepsLeader'
  BY <1>1, <1>2 DEF IInv, TypeOK, Grows, RowsOK, RowOK, GroupKeepsLeader
<1>5. StartedGroupIsLocked'
  BY <1>1, <1>2, TripAssumption DEF IInv, TypeOK, RowsOK, RowOK, StartedGroupIsLocked
<1>. QED BY <1>1, <1>2, <1>3, <1>4, <1>5, RowStep

LEMMA ExtendSteps ==
  ASSUME IInv, NEW r \in Requests, Extend(r) \/ ExtendAll(r)
  PROVE  IInv'
<1>. DEFINE t == req[r].t
<1>1. req[r].pc \in {"extend", "extendAll"} /\ t \in Trips
  BY InFlight DEF Extend, ExtendAll, At
<1>2. /\ UNCHANGED <<overlap, trip, owner, granted, group, locked, members, invited, request,
                     job, failures>>
      /\ Finish(r) \/ \E pc \in Easy : Continue(r, pc)
      /\ due' = due \/ due' = [due EXCEPT ![t] = FALSE]
      /\ \/ cred' = cred
         \/ cred' = [cred EXCEPT ![t] =
                [h \in Holders |-> IF cred[t][h] = "EXPIRED" THEN Issued(t) ELSE cred[t][h]]]
  BY DEF Extend, ExtendAll, Fixed, Easy
<1>3. Issued(t) \in {"ACTIVE", "EXPIRED"}
  BY DEF Issued
<1>. HIDE DEF t
<1>4. cred' \in [Trips -> [Holders -> {"NONE", "ACTIVE", "EXPIRED", "REVOKED"}]]
  <2>. DEFINE row == [h \in Holders |-> IF cred[t][h] = "EXPIRED" THEN Issued(t) ELSE cred[t][h]]
  <2>1. cred \in [Trips -> [Holders -> {"NONE", "ACTIVE", "EXPIRED", "REVOKED"}]]
    BY DEF IInv, TypeOK
  <2>2. row \in [Holders -> {"NONE", "ACTIVE", "EXPIRED", "REVOKED"}]
    BY <1>1, <1>3, <2>1
  <2>3. cred' = cred \/ cred' = [cred EXCEPT ![t] = row]
    BY <1>2
  <2>. HIDE DEF row
  <2>. QED BY <1>1, <2>1, <2>2, <2>3
<1>5. due' \in [Trips -> BOOLEAN]
  BY <1>1, <1>2 DEF IInv, TypeOK
<1>6. req' \in [Requests -> Request] => TypeOK'
  BY <1>2, <1>4, <1>5 DEF IInv, TypeOK
<1>7. Grows /\ RowsOK' /\ StartedGroupIsLocked' /\ GroupKeepsLeader'
  BY <1>2, SideRows
<1>. QED BY <1>1, <1>2, <1>6, <1>7, RowStep

\* Both transactions that end a trip, from a request and from the job.
LEMMA RevokeType ==
  ASSUME IInv, NEW t \in Trips, RevokeRows(t)
  PROVE  cred' \in [Trips -> [Holders -> {"NONE", "ACTIVE", "EXPIRED", "REVOKED"}]]
  BY DEF IInv, TypeOK, RevokeRows, Revoke

LEMMA EndRowsKeep ==
  ASSUME IInv, NEW t \in Trips, trip[t] # "NONE", NEW to \in Ended, EndRows(t, to),
         req' \in [Requests -> Request], job' \in Sweep
  PROVE  TypeOK' /\ Grows /\ RowsOK' /\ StartedGroupIsLocked' /\ GroupKeepsLeader'
<1>1. /\ granted' = [granted EXCEPT ![t] = FALSE]
      /\ group' = [group EXCEPT ![t] = IF group[t] = "ACTIVE" THEN "CLOSED" ELSE group[t]]
      /\ trip' = [trip EXCEPT ![t] = to]
      /\ UNCHANGED <<overlap, owner, due, locked, members, invited, request, cred, failures>>
  BY DEF EndRows
<1>2. TypeOK'
  <2>1. granted' \in [Trips -> BOOLEAN]
    BY <1>1 DEF IInv, TypeOK
  <2>2. group' \in [Trips -> {"NONE", "ACTIVE", "CLOSED"}]
    BY <1>1 DEF IInv, TypeOK
  <2>3. trip' \in [Trips -> Open \cup Ended \cup {"NONE"}]
    BY <1>1 DEF IInv, TypeOK
  <2>. QED BY <1>1, <2>1, <2>2, <2>3 DEF IInv, TypeOK
<1>3. to \notin {"NONE", "ACTIVE"}
  BY DEF Ended
<1>4. \A s \in Trips : group[s] = "NONE" <=> group'[s] = "NONE"
  BY <1>1 DEF IInv, TypeOK
<1>5. Grows
  BY <1>1, <1>3, <1>4 DEF IInv, TypeOK, Grows
<1>6. RowsOK'
  BY <1>1, <1>3, <1>4 DEF IInv, TypeOK, RowsOK, RowOK
<1>7. StartedGroupIsLocked'
  BY <1>1, <1>3, <1>4, TripAssumption DEF IInv, TypeOK, StartedGroupIsLocked
<1>8. GroupKeepsLeader'
  BY <1>1, <1>4 DEF IInv, GroupKeepsLeader
<1>. QED BY <1>2, <1>5, <1>6, <1>7, <1>8

LEMMA EndSteps ==
  ASSUME IInv, NEW r \in Requests, EndTrip(r) \/ RevokeAll(r)
  PROVE  IInv'
<1>1. CASE EndTrip(r)
  <2>1. /\ req[r].pc = "end" /\ req[r].t \in Trips /\ trip[req[r].t] # "NONE"
        /\ EndRows(req[r].t, req[r].to) /\ Continue(r, "revokeAll") /\ UNCHANGED job
    BY <1>1, InFlight DEF EndTrip, At
  <2>2. req[r].to \in Ended
    BY <2>1 DEF IInv, HandlersGood, Good
  <2>. QED
    <3>1. req' \in [Requests -> Request]
      BY <2>1, ContinueType DEF Continue, Easy
    <3>2. job' \in Sweep
      BY <2>1 DEF IInv, TypeOK
    <3>3. Written
      BY <2>1, <2>2, <3>1, <3>2, EndRowsKeep DEF Written
    <3>. QED BY <2>1, <3>3, ContinueStep DEF Easy
<1>2. CASE RevokeAll(r)
  <2>1. req[r].pc = "revokeAll" /\ req[r].t \in Trips
    BY <1>2, InFlight DEF RevokeAll, At
  <2>2. cred' \in [Trips -> [Holders -> {"NONE", "ACTIVE", "EXPIRED", "REVOKED"}]]
    BY <1>2, <2>1, RevokeType DEF RevokeAll
  <2>. QED BY <1>2, <2>1, <2>2, SideStep DEF RevokeAll, RevokeRows, IInv, TypeOK
<1>. QED BY <1>1, <1>2

-----------------------------------------------------------------------------
(* The clock, the job and the failures *)

\* Steps of nobody's handler.
LEMMA OtherStep ==
  ASSUME IInv, Written, UNCHANGED req, JobGood'
  PROVE  IInv'
<1>1. HandlersGood'
  <2>1. SUFFICES ASSUME NEW q \in Requests PROVE Good(req[q])'
    BY DEF HandlersGood
  <2>2. PICK k \in Request : k = req[q]
    BY DEF IInv, TypeOK
  <2>3. Good(k)'
    BY <2>2, Carry DEF Written, IInv, HandlersGood
  <2>. QED BY <2>2, <2>3 DEF Good
<1>. QED BY <1>1 DEF Written, IInv, InsertsDiffer, At

LEMMA TickKeeps ==
  ASSUME IInv, NEW t \in Trips, Tick(t)
  PROVE  IInv'
<1>1. /\ due' = [due EXCEPT ![t] = TRUE]
      /\ cred' = [cred EXCEPT ![t] =
            [h \in Holders |-> IF cred[t][h] = "ACTIVE" THEN "EXPIRED" ELSE cred[t][h]]]
      /\ UNCHANGED <<overlap, trip, owner, granted, group, locked, members, invited, request,
                     req, job, failures>>
  BY DEF Tick, Fixed
<1>2. TypeOK'
  BY <1>1 DEF IInv, TypeOK
<1>. QED BY <1>1, <1>2, SideRows, CarryJob, OtherStep DEF Written

LEMMA JobKeeps ==
  ASSUME IInv, BeginJob \/ JobComplete \/ JobRevoke \/ FailJob
  PROVE  IInv'
<1>1. job \in Sweep /\ JobGood
  BY DEF IInv, TypeOK
<1>2. CASE BeginJob
  <2>1. PICK found : /\ found = {t \in Trips : trip[t] = "ACTIVE" /\ due[t]}
                     /\ job' = [Rest EXCEPT !.pc = "complete", !.todo = found]
    BY <1>2 DEF BeginJob
  <2>2. /\ job' \in Sweep /\ job'.pc = "complete"
        /\ \A t \in job'.todo : trip[t] # "NONE"
    BY <2>1 DEF Rest, Sweep
  <2>3. UNCHANGED <<overlap, rows, req, failures>>
    BY <1>2 DEF BeginJob
  <2>4. TypeOK'
    BY <2>2, <2>3 DEF IInv, TypeOK, rows
  <2>5. JobGood'
    BY <2>2, <2>3 DEF JobGood, rows
  <2>. QED BY <2>3, <2>4, <2>5, UnwrittenRows, OtherStep DEF Written
<1>3. CASE JobComplete
  <2>1. PICK t \in job.todo :
          /\ EndRows(t, "COMPLETED")
          /\ job' = [pc |-> "revoke", t |-> t, todo |-> job.todo \ {t}]
          /\ UNCHANGED req
    BY <1>3 DEF JobComplete
  <2>2. t \in Trips /\ trip[t] # "NONE"
    BY <1>1 DEF Sweep, JobGood
  <2>3. job' \in Sweep
    BY <1>1, <2>1, <2>2 DEF Sweep
  <2>4. Written
    BY <2>1, <2>2, <2>3, EndRowsKeep DEF Written, Ended, IInv, TypeOK
  <2>5. JobGood'
    BY <1>1, <2>1, <2>2, <2>4 DEF JobGood, Written, Grows, Sweep
  <2>. QED BY <2>1, <2>4, <2>5, OtherStep
<1>4. ASSUME NEW todo \in SUBSET Trips, \A t \in todo : trip[t] # "NONE", job' = NextTrip(todo)
      PROVE  job' \in Sweep /\ (Grows => JobGood')
  BY <1>4 DEF NextTrip, Rest, Sweep, JobGood, Grows
<1>5. CASE JobRevoke
  <2>1. job.t \in Trips /\ RevokeRows(job.t) /\ job' = NextTrip(job.todo) /\ UNCHANGED req
    BY <1>1, <1>5 DEF JobRevoke, JobGood
  <2>2. cred' \in [Trips -> [Holders -> {"NONE", "ACTIVE", "EXPIRED", "REVOKED"}]]
    BY <2>1, RevokeType
  <2>3. job' \in Sweep /\ (Grows => JobGood')
    BY <1>1, <1>4, <2>1 DEF JobGood, Sweep
  <2>4. TypeOK'
    BY <2>1, <2>2, <2>3 DEF IInv, TypeOK, RevokeRows
  <2>. QED BY <2>1, <2>3, <2>4, SideRows, OtherStep DEF Written, RevokeRows
<1>6. CASE FailJob
  <2>1. PICK todo \in SUBSET job.todo : job' = NextTrip(todo)
    BY <1>6 DEF FailJob
  <2>2. job' \in Sweep /\ (Grows => JobGood')
    BY <1>1, <1>4, <2>1 DEF JobGood, Sweep
  <2>3. failures' \in 0..MaxFailures
    BY <1>6, TripAssumption DEF FailJob, Fail, IInv, TypeOK
  <2>4. UNCHANGED <<overlap, rows, req>>
    BY <1>6 DEF FailJob
  <2>5. TypeOK'
    BY <2>2, <2>3, <2>4 DEF IInv, TypeOK, rows
  <2>. QED BY <2>2, <2>4, <2>5, UnwrittenRows, OtherStep DEF Written
<1>. QED BY <1>2, <1>3, <1>5, <1>6

LEMMA FailKeeps ==
  ASSUME IInv, Restart \/ \E r \in Requests : FailRequest(r)
  PROVE  IInv'
<1>1. failures' \in 0..MaxFailures
  BY TripAssumption DEF Restart, FailRequest, Fail, IInv, TypeOK
<1>2. UNCHANGED <<overlap, rows>>
  BY DEF Restart, FailRequest
<1>3. CASE Restart
  <2>1. req' = [r \in Requests |-> Idle] /\ job' = Rest
    BY <1>3 DEF Restart
  <2>2. req' \in [Requests -> Request] /\ job' \in Sweep
    BY <2>1 DEF Idle, Rest, Request, Sweep
  <2>3. TypeOK'
    BY <1>1, <1>2, <2>2 DEF IInv, TypeOK, rows
  <2>4. HandlersGood' /\ InsertsDiffer' /\ JobGood'
    BY <2>1 DEF HandlersGood, Good, InsertsDiffer, At, JobGood, Idle, Rest
  <2>. QED BY <1>2, <2>3, <2>4, UnwrittenRows DEF IInv
<1>4. ASSUME NEW r \in Requests, FailRequest(r) PROVE IInv'
  <2>1. Finish(r) /\ UNCHANGED job
    BY <1>4 DEF FailRequest
  <2>2. TypeOK'
    BY <1>1, <1>2, <2>1, FinishType DEF IInv, TypeOK, rows
  <2>. QED BY <1>2, <2>1, <2>2, UnwrittenRows, FinishStep DEF Written
<1>. QED BY <1>3, <1>4

-----------------------------------------------------------------------------
(* The theorems *)

LEMMA NextKeeps == IInv /\ [Next]_vars => IInv'
<1>. SUFFICES ASSUME IInv, [Next]_vars PROVE IInv'
  OBVIOUS
<1>1. ASSUME NEW r \in Requests, Begin(r) PROVE IInv'
  BY <1>1, BeginKeeps
<1>2. ASSUME NEW r \in Requests, Step(r) PROVE IInv'
  BY <1>2, CreateTripKeeps, EnsureKeeps, CredentialSteps, RequestSteps, GatherSteps,
     RejectAllKeeps, LockKeeps, StartTripKeeps, ExtendSteps, EndSteps DEF Step
<1>3. ASSUME NEW t \in Trips, Tick(t) PROVE IInv'
  BY <1>3, TickKeeps
<1>4. CASE BeginJob \/ JobComplete \/ JobRevoke \/ FailJob
  BY <1>4, JobKeeps
<1>5. CASE Restart \/ \E r \in Requests : FailRequest(r)
  BY <1>5, FailKeeps
<1>6. CASE UNCHANGED vars
  <2>1. UNCHANGED <<overlap, rows>> /\ UNCHANGED <<req, job, failures>>
    BY <1>6 DEF vars
  <2>2. TypeOK'
    BY <2>1 DEF IInv, TypeOK, rows
  <2>. QED BY <2>1, <2>2, UnwrittenRows, CarryJob, OtherStep DEF Written
<1>. QED BY <1>1, <1>2, <1>3, <1>4, <1>5, <1>6 DEF Next

\* The inductive invariant holds in every reachable state.
THEOREM Invariance == Spec => []IInv
<1>. QED BY InitEstablishes, NextKeeps, PTL DEF Spec

\* Every row holds a value of its column's enum under any overlap and failures.
THEOREM TypeCorrect == Spec => []TypeOK
<1>1. IInv => TypeOK
  BY DEF IInv
<1>. QED BY <1>1, Invariance, PTL

\* startTrip's late write by id never sets out with a group that is not locked.
THEOREM StartedIsLocked == Spec => []StartedGroupIsLocked
<1>1. IInv => StartedGroupIsLocked
  BY DEF IInv
<1>. QED BY <1>1, Invariance, PTL

\* No join, approval, departure or removal takes the leader out of a group.
THEOREM LeaderStays == Spec => []GroupKeepsLeader
<1>1. IInv => GroupKeepsLeader
  BY DEF IInv
<1>. QED BY <1>1, Invariance, PTL
=============================================================================
