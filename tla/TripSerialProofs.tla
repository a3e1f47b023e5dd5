--------------------------- MODULE TripSerialProofs ---------------------------
(***************************************************************************)
(* TripGroups with one handler at a time: OneOpenTrip,                     *)
(* LockAnswersEverybody, NothingOutlivesTrip, CredentialFollowsMembership  *)
(* and the refinement KeepsRules, for every set of trips and tourists.     *)
(*                                                                         *)
(* Nothing is assumed of the constants: overlap is a variable, and the     *)
(* properties speak of the behaviours in which it is FALSE.  There         *)
(* everybody else rests (Alone), so that what a handler checked before its *)
(* first write still holds at each later one (Knows, SweepKnows).  The     *)
(* rules of a trip survive failures as well; the credentials, which a      *)
(* handler writes last, follow only where no handler was cut short, and    *)
(* what the handler in flight has still to mend is exempt (Mends).         *)
(***************************************************************************)
EXTENDS TripGroupsProofs, FiniteSetTheorems

Alone == /\ \A r, q \in Requests : req[r] # Idle /\ req[q] # Idle => r = q
         /\ \A r \in Requests : req[r] = Idle \/ job = Rest

\* What the handler has checked, and nobody else has undone.
Knows(h) ==
    /\ h.pc = "createTrip" => CurrentTrips(h.u) = {}
    /\ h.pc \in {"grant", "withdraw", "revokeOne", "end"} => trip[h.t] \in Open
    /\ h.pc = "createGroup" => h.t \in GroupTrips
    /\ h.pc \in {"createGroup", "issueGroup", "rejectAll", "lock", "ensureToStart", "start"}
          => trip[h.t] = "PLANNED"
    /\ h.pc \in {"join", "ask", "approve"} => MayJoin(h.t, h.u)
    /\ h.pc \in {"rejectAll", "lock"} => Cardinality(members[h.t]) >= 2
    /\ h.pc = "lock" => \A u \in Users : request[h.t][u] # "PENDING"
    /\ h.pc = "leave" => GroupOpen(h.t) /\ h.u \in members[h.t]
    /\ (h.pc \in {"ensureToStart", "start"} /\ h.t \in GroupTrips) => Cardinality(members[h.t]) >= 2
    /\ h.pc \in {"extend", "extendAll"} => trip[h.t] = "ACTIVE"
    /\ h.pc = "revokeAll" => trip[h.t] \in Ended

SweepKnows == /\ \A t \in job.todo : trip[t] = "ACTIVE"
              /\ job.pc = "revoke" => trip[job.t] \in Ended

\* The rows of a trip agree with each other.
Tidy(t) ==
    /\ group[t] = "NONE" => members[t] = {}
    /\ group[t] # "NONE" => t \in GroupTrips
    /\ trip[t] = "NONE" => owner[t] = None
    /\ trip[t] \in Open => group[t] # "CLOSED"
    /\ trip[t] \in Ended => group[t] # "ACTIVE" /\ ~granted[t]
    /\ locked[t] => \A u \in Users : request[t][u] # "PENDING"

Single(u) == \A s, t \in CurrentTrips(u) : s = t

RulesInv ==
    /\ Alone
    /\ \A r \in Requests : Knows(req[r])
    /\ SweepKnows
    /\ \A t \in Trips : Tidy(t)
    /\ \A u \in Users : Single(u)

-----------------------------------------------------------------------------
(* The credentials, where no handler was cut short *)

\* A credential row past its trip's planned end is not ACTIVE.
Timely == \A t \in Trips : \A h \in Holders : cred[t][h] = "ACTIVE" => ~due[t]

Valid(t, u) == IF Member(t, u) THEN cred[t][u] = Issued(t) ELSE cred[t][u] \in {"NONE", "REVOKED"}

\* The handler has still to write the credential of u for t.
Mends(h, t, u) == /\ h.t = t
                  /\ h.pc = "extendAll" \/ (h.pc \in {"ensure", "revokeOne"} /\ h.u = u)
Revokes(t) == \/ \E r \in Requests : req[r].pc = "revokeAll" /\ req[r].t = t
              \/ job.pc = "revoke" /\ job.t = t

CredOK(t) ==
    /\ trip[t] = "NONE" => \A h \in Holders : cred[t][h] = "NONE"
    /\ trip[t] \in Open =>
          \A u \in Users : Valid(t, u) \/ \E r \in Requests : Mends(req[r], t, u)
    /\ trip[t] \in Ended => /\ \A u \in Users : Member(t, u) => cred[t][u] # "NONE"
                            /\ Revokes(t) \/ \A h \in Holders : cred[t][h] \in {"NONE", "REVOKED"}

\* What it knows of the credentials it is about to write.
CanMend(h) ==
    /\ h.pc = "ensure" => IF Member(h.t, h.u) THEN trip[h.t] \in Open
                                              ELSE cred[h.t][h.u] \in {"NONE", "REVOKED"}
    /\ h.pc = "revokeOne" => ~Member(h.t, h.u)
    /\ h.pc = "extendAll" => \A u \in Users :
          cred[h.t][u] \in IF Member(h.t, u) THEN {"ACTIVE", "EXPIRED"} ELSE {"NONE", "REVOKED"}

CredInv ==
    /\ Timely
    /\ \A t \in Trips : CredOK(t)
    /\ \A r \in Requests : CanMend(req[r])

SerialInv == Serial => RulesInv /\ (failures = 0 => CredInv)

-----------------------------------------------------------------------------
(* Who is in flight, and where it goes *)

Others(r) == job = Rest /\ \A q \in Requests \ {r} : req[q] = Idle

LEMMA IdleKnows ==
  /\ Idle.pc = "idle" /\ Rest.pc = "idle" /\ Rest.todo = {}
  /\ Knows(Idle) /\ Knows(Idle)'
  BY DEF Idle, Rest, Knows

LEMMA QuietIsAlone ==
  ASSUME Quiet, NEW r \in Requests
  PROVE  Others(r)
  BY DEF Quiet, Others

LEMMA AtWork ==
  ASSUME RulesInv, NEW r \in Requests, req[r] # Idle
  PROVE  Others(r)
  BY DEF RulesInv, Alone, Others

\* The handler of r goes on to remember n.
LEMMA Moves ==
  ASSUME IInv, RulesInv, NEW r \in Requests, NEW n, Others(r),
         req' = [req EXCEPT ![r] = n], job' = job, Knows(n)',
         \A t \in Trips : Tidy(t)', \A u \in Users : Single(u)'
  PROVE  RulesInv'
<1>1. req'[r] = n /\ \A q \in Requests \ {r} : req'[q] = Idle
  BY DEF IInv, TypeOK, Others
<1>2. Alone'
  BY <1>1 DEF Alone, Others
<1>3. ASSUME NEW q \in Requests PROVE Knows(req[q])'
  <2>1. req'[q] = n \/ req'[q] = Idle
    BY <1>1
  <2>. QED BY <2>1, IdleKnows DEF Knows
<1>4. SweepKnows'
  BY IdleKnows DEF SweepKnows, Others
<1>. QED BY <1>2, <1>3, <1>4 DEF RulesInv

LEMMA Goes ==
  ASSUME IInv, RulesInv, NEW r \in Requests, NEW pc, Others(r), Continue(r, pc), job' = job,
         \A h : h.pc = pc /\ h.t = req[r].t /\ h.u = req[r].u => Knows(h)',
         \A t \in Trips : Tidy(t)', \A u \in Users : Single(u)'
  PROVE  RulesInv'
<1>1. PICK n : n = [req[r] EXCEPT !.pc = pc]
  OBVIOUS
<1>2. req' = [req EXCEPT ![r] = n] /\ n.pc = pc /\ n.t = req[r].t /\ n.u = req[r].u
  BY <1>1 DEF Continue, IInv, TypeOK, Request
<1>. QED BY <1>2, Moves

LEMMA Rests ==
  ASSUME IInv, RulesInv, NEW r \in Requests, Others(r), Finish(r), job' = job,
         \A t \in Trips : Tidy(t)', \A u \in Users : Single(u)'
  PROVE  RulesInv'
<1>1. PICK n : n = Idle
  OBVIOUS
<1>2. Knows(n)'
  BY <1>1, IdleKnows DEF Knows
<1>. QED BY <1>1, <1>2, Moves DEF Finish

\* Rows that stay as they are.
Unwritten == UNCHANGED <<trip, owner, granted, group, locked, members, request>>

LEMMA UnwrittenRules ==
  ASSUME RulesInv, Unwritten
  PROVE  /\ \A t \in Trips : Tidy(t)'
         /\ \A u \in Users : Single(u)'
         /\ \A h : Knows(h) => Knows(h)'
  BY DEF RulesInv, Unwritten, Tidy, Single, CurrentTrips, Knows, MayJoin, MembershipOpen, GroupOpen

LEMMA Served ==
  ASSUME IInv, RulesInv, Serial, NEW r \in Requests, NEW n, Serve(r, n), Knows(n)
  PROVE  RulesInv'
<1>1. Others(r) /\ req' = [req EXCEPT ![r] = n] /\ job' = job /\ Unwritten
  BY QuietIsAlone DEF Serve, CanStart, Serial, Unwritten, rows
<1>2. Knows(n)'
  BY <1>1, UnwrittenRules
<1>. QED BY <1>1, <1>2, UnwrittenRules, Moves

LEMMA Started ==
  ASSUME IInv, RulesInv, Serial, NEW r \in Requests, NEW pc, NEW t, NEW u, Start(r, pc, t, u),
         \A h : h.pc = pc /\ h.t = t /\ h.u = u => Knows(h)
  PROVE  RulesInv'
<1>1. PICK n : n = [Idle EXCEPT !.pc = pc, !.t = t, !.u = u]
  OBVIOUS
<1>2. n.pc = pc /\ n.t = t /\ n.u = u /\ Serve(r, n)
  BY <1>1 DEF Idle, Start
<1>. QED BY <1>2, Served

LEMMA BeginRules ==
  ASSUME IInv, RulesInv, Serial, NEW r \in Requests, Begin(r)
  PROVE  RulesInv'
<1>1. PICK t \in Trips :
        \/ \E u \in Users : \/ BeginCreateTrip(r, t, u)
                            \/ BeginEnsure(r, t, u)
                            \/ BeginJoin(r, t, u)
                            \/ BeginAsk(r, t, u)
                            \/ BeginApprove(r, t, u)
                            \/ BeginReject(r, t, u)
                            \/ BeginLeave(r, t, u)
        \/ \E pc \in {"grant", "withdraw"} : BeginConsent(r, t, pc)
        \/ BeginCreateGroup(r, t)
        \/ BeginInvite(r, t)
        \/ BeginUninvite(r, t)
        \/ BeginLock(r, t)
        \/ BeginStart(r, t)
        \/ BeginExtend(r, t)
        \/ \E to \in Ended : BeginEnd(r, t, to)
  BY DEF Begin
<1>2. ASSUME NEW u \in Users, BeginCreateTrip(r, t, u) PROVE RulesInv'
  BY <1>2, Started DEF BeginCreateTrip, Knows
<1>3. ASSUME NEW u \in Users, BeginEnsure(r, t, u) PROVE RulesInv'
  BY <1>3, Started DEF BeginEnsure, Knows
<1>4. ASSUME NEW u \in Users, BeginJoin(r, t, u) PROVE RulesInv'
  BY <1>4, Started DEF BeginJoin, Knows
<1>5. ASSUME NEW u \in Users, BeginAsk(r, t, u) PROVE RulesInv'
  BY <1>5, Started DEF BeginAsk, Knows
<1>6. ASSUME NEW u \in Users, BeginApprove(r, t, u) PROVE RulesInv'
  BY <1>6, Started DEF BeginApprove, Knows
<1>7. ASSUME NEW u \in Users, BeginReject(r, t, u) PROVE RulesInv'
  BY <1>7, Started DEF BeginReject, Knows
<1>8. ASSUME NEW u \in Users, BeginLeave(r, t, u) PROVE RulesInv'
  BY <1>8, Started DEF BeginLeave, Knows
<1>9. ASSUME NEW pc \in {"grant", "withdraw"}, BeginConsent(r, t, pc) PROVE RulesInv'
  BY <1>9, Started DEF BeginConsent, Knows
<1>10. CASE BeginCreateGroup(r, t)
  BY <1>10, Started DEF BeginCreateGroup, Knows
<1>11. CASE BeginInvite(r, t) \/ BeginUninvite(r, t)
  BY <1>11, Started DEF BeginInvite, BeginUninvite, Knows
<1>12. CASE BeginLock(r, t)
  BY <1>12, Started DEF BeginLock, Knows
<1>13. CASE BeginStart(r, t)
  BY <1>13, Started DEF BeginStart, Knows
<1>14. CASE BeginExtend(r, t)
  BY <1>14, Started DEF BeginExtend, Knows
<1>15. ASSUME NEW to \in Ended, BeginEnd(r, t, to) PROVE RulesInv'
  <2>1. PICK n : n = [pc |-> "end", t |-> t, u |-> owner[t], to |-> to]
    OBVIOUS
  <2>2. n.pc = "end" /\ n.t = t /\ Serve(r, n) /\ trip[t] \in Open
    BY <1>15, <2>1 DEF BeginEnd, Open
  <2>3. Knows(n)
    BY <2>2 DEF Knows
  <2>. QED BY <2>2, <2>3, Served
<1>. QED BY <1>1, <1>2, <1>3, <1>4, <1>5, <1>6, <1>7, <1>8, <1>9, <1>10, <1>11, <1>12, <1>13,
            <1>14, <1>15

-----------------------------------------------------------------------------
(* A handler goes on *)

LEMMA Engaged ==
  ASSUME IInv, RulesInv, NEW r \in Requests, req[r].pc # "idle"
  PROVE  /\ Others(r) /\ Knows(req[r])
         /\ req[r].t \in Trips /\ req[r].u \in Users
         /\ Tidy(req[r].t) /\ RowOK(req[r].t)
  BY IdleKnows, AtWork, InFlight DEF RulesInv

\* Nobody gets onto another trip.
LEMMA FewerTrips ==
  ASSUME RulesInv, \A u \in Users : CurrentTrips(u)' \subseteq CurrentTrips(u)
  PROVE  \A u \in Users : Single(u)'
  BY DEF RulesInv, Single

\* Trips, planners, groups and members stay as they are.
LEMMA SideRules ==
  ASSUME RulesInv, UNCHANGED <<trip, owner, group, members>>,
         \A t \in Trips : granted'[t] => granted[t] \/ trip[t] \in Open,
         \A t \in Trips : locked'[t] => \A u \in Users : request'[t][u] # "PENDING"
  PROVE  /\ \A t \in Trips : Tidy(t)'
         /\ \A u \in Users : Single(u)'
  BY DEF RulesInv, Tidy, Single, CurrentTrips, Open, Ended

LEMMA CreateTripRules ==
  ASSUME IInv, RulesInv, NEW r \in Requests, CreateTrip(r)
  PROVE  RulesInv'
<1>1. PICK t, u : t = req[r].t /\ u = req[r].u
  OBVIOUS
<1>2. /\ trip' = [trip EXCEPT ![t] = "PLANNED"]
      /\ owner' = [owner EXCEPT ![t] = u]
      /\ Continue(r, "ensure")
      /\ UNCHANGED <<granted, group, locked, members, request, job>>
      /\ req[r].pc = "createTrip"
  BY <1>1 DEF CreateTrip, At
<1>3. /\ Others(r) /\ t \in Trips /\ u \in Users /\ Tidy(t) /\ RowOK(t)
      /\ CurrentTrips(u) = {} /\ trip[t] = "NONE"
  BY <1>1, <1>2, Engaged DEF Knows, IInv, HandlersGood, Good
<1>4. \A s \in Trips : Tidy(s)'
  BY <1>2, <1>3 DEF RulesInv, Tidy, RowOK, IInv, TypeOK, Open, Ended
<1>5. ASSUME NEW v \in Users PROVE CurrentTrips(v)' \subseteq IF v = u THEN {t} ELSE CurrentTrips(v)
  <2>1. ASSUME NEW s \in Trips, s # t, s \in CurrentTrips(v)' PROVE s \in CurrentTrips(v)
    BY <1>2, <1>3, <2>1 DEF CurrentTrips, IInv, TypeOK
  <2>2. t \in CurrentTrips(v)' => v = u
    BY <1>2, <1>3 DEF CurrentTrips, Tidy, RowOK, IInv, TypeOK
  <2>3. CurrentTrips(v)' \subseteq Trips
    BY DEF CurrentTrips
  <2>. QED BY <1>3, <2>1, <2>2, <2>3
<1>6. \A v \in Users : Single(v)'
  BY <1>5 DEF RulesInv, Single
<1>7. \A h : h.pc = "ensure" /\ h.t = t /\ h.u = u => Knows(h)'
  BY DEF Knows
<1>. QED BY <1>1, <1>2, <1>3, <1>4, <1>6, <1>7, Goes

\* Steps that write credentials, consents, invitations and dates.
LEMMA SideStepRules ==
  ASSUME IInv, RulesInv, NEW r \in Requests,
         \/ EnsureIndividual(r) \/ Consent(r) \/ IssueGroup(r) \/ Invite(r) \/ RevokeOne(r)
         \/ Extend(r) \/ ExtendAll(r) \/ RevokeAll(r)
  PROVE  RulesInv'
<1>1. req[r].pc # "idle"
  BY DEF EnsureIndividual, Consent, IssueGroup, Invite, RevokeOne, Extend, ExtendAll, RevokeAll, At
<1>2. Others(r) /\ Knows(req[r]) /\ req[r].t \in Trips
  BY <1>1, Engaged
<1>3. UNCHANGED <<trip, owner, group, locked, members, request, job>>
  BY DEF EnsureIndividual, Consent, IssueGroup, Invite, RevokeOne, Extend, ExtendAll, RevokeAll,
         RevokeRows, Fixed
<1>4. \A t \in Trips : granted'[t] => granted[t] \/ trip[t] \in Open
  <2>1. CASE Consent(r)
    BY <1>2, <2>1 DEF Consent, Knows, IInv, TypeOK
  <2>2. CASE UNCHANGED granted
    BY <2>2
  <2>. QED BY <2>1, <2>2
       DEF EnsureIndividual, IssueGroup, Invite, RevokeOne, Extend, ExtendAll, RevokeAll, RevokeRows
<1>5. (\A t \in Trips : Tidy(t)') /\ (\A u \in Users : Single(u)')
  BY <1>3, <1>4, SideRules DEF RulesInv, Tidy
<1>6. \/ Finish(r)
      \/ req[r].pc = "ensureToStart" /\ Continue(r, "start")
      \/ req[r].pc = "issueGroup" /\ Continue(r, "ensure")
      \/ req[r].pc = "extend" /\ Continue(r, "extendAll")
  BY DEF EnsureIndividual, Consent, IssueGroup, Invite, RevokeOne, Extend, ExtendAll, RevokeAll, At
<1>7. CASE Finish(r)
  BY <1>2, <1>3, <1>5, <1>7, Rests
<1>8. CASE req[r].pc = "ensureToStart" /\ Continue(r, "start")
  <2>1. \A h : h.pc = "start" /\ h.t = req[r].t /\ h.u = req[r].u => Knows(h)'
    BY <1>2, <1>3, <1>8 DEF Knows
  <2>. QED BY <1>2, <1>3, <1>5, <1>8, <2>1, Goes
<1>9. CASE req[r].pc = "issueGroup" /\ Continue(r, "ensure")
  <2>1. \A h : h.pc = "ensure" /\ h.t = req[r].t /\ h.u = req[r].u => Knows(h)'
    BY DEF Knows
  <2>. QED BY <1>2, <1>3, <1>5, <1>9, <2>1, Goes
<1>10. CASE req[r].pc = "extend" /\ Continue(r, "extendAll")
  <2>1. \A h : h.pc = "extendAll" /\ h.t = req[r].t /\ h.u = req[r].u => Knows(h)'
    BY <1>2, <1>3, <1>10 DEF Knows
  <2>. QED BY <1>2, <1>3, <1>5, <1>10, <2>1, Goes
<1>. QED BY <1>6, <1>7, <1>8, <1>9, <1>10

\* Nobody asks a locked group, and a group locks once everybody is answered.
LEMMA AnswerRules ==
  ASSUME IInv, RulesInv, NEW r \in Requests, Ask(r) \/ Reject(r) \/ RejectAll(r) \/ Lock(r)
  PROVE  RulesInv'
<1>1. PICK t, u : t = req[r].t /\ u = req[r].u
  OBVIOUS
<1>2. req[r].pc \in {"ask", "reject", "rejectAll", "lock"}
  BY DEF Ask, Reject, RejectAll, Lock, At
<1>3. /\ Others(r) /\ Knows(req[r]) /\ t \in Trips /\ u \in Users
  BY <1>1, <1>2, Engaged
<1>4. UNCHANGED <<trip, owner, granted, group, members, job>>
  BY DEF Ask, Reject, RejectAll, Lock, Fixed
<1>5. request \in [Trips -> [Users -> {"NONE", "PENDING", "APPROVED", "REJECTED"}]]
  BY DEF IInv, TypeOK
<1>6. CASE Ask(r)
  <2>1. ~locked[t] /\ locked' = locked /\ request' = [request EXCEPT ![t][u] = "PENDING"] /\ Finish(r)
    BY <1>1, <1>3, <1>6 DEF Ask, At, Knows, MayJoin, MembershipOpen
  <2>2. ASSUME NEW s \in Trips, locked'[s], NEW v \in Users PROVE request'[s][v] # "PENDING"
    BY <1>3, <1>5, <2>1, <2>2 DEF RulesInv, Tidy
  <2>. QED BY <1>3, <1>4, <2>1, <2>2, SideRules, Rests
<1>7. CASE Reject(r)
  <2>1. locked' = locked /\ request' = [request EXCEPT ![t][u] = "REJECTED"] /\ Finish(r)
    BY <1>1, <1>7 DEF Reject
  <2>2. ASSUME NEW s \in Trips, locked'[s], NEW v \in Users PROVE request'[s][v] # "PENDING"
    BY <1>3, <1>5, <2>1, <2>2 DEF RulesInv, Tidy
  <2>. QED BY <1>3, <1>4, <2>1, <2>2, SideRules, Rests
<1>8. CASE RejectAll(r)
  <2>1. /\ locked' = locked
        /\ request' = [request EXCEPT ![t] =
              [v \in Users |-> IF request[t][v] = "PENDING" THEN "REJECTED" ELSE request[t][v]]]
        /\ Continue(r, "lock")
    BY <1>1, <1>8 DEF RejectAll
  <2>2. \A v \in Users : request'[t][v] # "PENDING"
    BY <1>3, <1>5, <2>1
  <2>3. ASSUME NEW s \in Trips, locked'[s], NEW v \in Users PROVE request'[s][v] # "PENDING"
    <3>1. s # t => request'[s] = request[s]
      BY <1>5, <2>1
    <3>. QED BY <2>1, <2>2, <2>3, <3>1 DEF RulesInv, Tidy
  <2>4. \A h : h.pc = "lock" /\ h.t = t /\ h.u = u => Knows(h)'
    BY <1>1, <1>3, <1>4, <1>8, <2>2 DEF Knows, RejectAll, At
  <2>. QED BY <1>1, <1>3, <1>4, <2>1, <2>3, <2>4, SideRules, Goes
<1>9. CASE Lock(r)
  <2>1. /\ locked' = [locked EXCEPT ![t] = TRUE] /\ request' = request /\ Finish(r)
        /\ \A v \in Users : request[t][v] # "PENDING"
    BY <1>1, <1>3, <1>9 DEF Lock, At, Knows
  <2>2. ASSUME NEW s \in Trips, locked'[s], NEW v \in Users PROVE request'[s][v] # "PENDING"
    BY <1>3, <2>1, <2>2 DEF RulesInv, Tidy, IInv, TypeOK
  <2>. QED BY <1>3, <1>4, <2>1, <2>2, SideRules, Rests
<1>. QED BY <1>6, <1>7, <1>8, <1>9

LEMMA CreateGroupRules ==
  ASSUME IInv, RulesInv, NEW r \in Requests, CreateGroup(r)
  PROVE  RulesInv'
<1>1. PICK t, u : t = req[r].t /\ u = req[r].u
  OBVIOUS
<1>2. /\ Others(r) /\ t \in Trips /\ Tidy(t) /\ RowOK(t)
      /\ trip[t] = "PLANNED" /\ t \in GroupTrips
  BY <1>1, Engaged DEF CreateGroup, At, Knows
<1>3. UNCHANGED <<trip, owner, granted, locked, request, job>>
  BY DEF CreateGroup, Fixed
<1>4. CASE Finish(r) /\ UNCHANGED <<group, members>>
  <2>1. Unwritten
    BY <1>3, <1>4 DEF Unwritten
  <2>. QED BY <1>2, <1>3, <1>4, <2>1, UnwrittenRules, Rests
<1>5. CASE /\ group[t] = "NONE"
           /\ group' = [group EXCEPT ![t] = "ACTIVE"]
           /\ members' = [members EXCEPT ![t] = {owner[t]}]
           /\ Continue(r, "issueGroup")
  <2>1. \A s \in Trips : Tidy(s)'
    BY <1>2, <1>3, <1>5 DEF RulesInv, Tidy, IInv, TypeOK, Open, Ended
  <2>2. \A v \in Users : CurrentTrips(v)' \subseteq CurrentTrips(v)
    BY <1>2, <1>3, <1>5 DEF CurrentTrips, IInv, TypeOK
  <2>3. \A h : h.pc = "issueGroup" /\ h.t = t /\ h.u = u => Knows(h)'
    BY <1>2, <1>3 DEF Knows
  <2>. QED BY <1>1, <1>2, <1>3, <1>5, <2>1, <2>2, <2>3, FewerTrips, Goes
<1>. QED BY <1>1, <1>4, <1>5 DEF CreateGroup

\* The tourist was on no open trip when the handler began, and still is not.
LEMMA JoinRules ==
  ASSUME IInv, RulesInv, NEW r \in Requests, Join(r) \/ Approve(r)
  PROVE  RulesInv'
<1>1. PICK t, u : t = req[r].t /\ u = req[r].u
  OBVIOUS
<1>2. req[r].pc \in {"join", "approve"}
  BY DEF Join, Approve, At
<1>3. Others(r) /\ t \in Trips /\ u \in Users /\ Tidy(t) /\ MayJoin(t, u)
  BY <1>1, <1>2, Engaged DEF Knows
<1>4. group[t] = "ACTIVE" /\ ~locked[t] /\ CurrentTrips(u) = {}
  BY <1>3 DEF MayJoin, MembershipOpen
<1>5. /\ members' = [members EXCEPT ![t] = members[t] \cup {u}]
      /\ request' = request \/ request' = [request EXCEPT ![t][u] = "APPROVED"]
      /\ Continue(r, "ensure")
      /\ UNCHANGED <<trip, owner, granted, group, locked, job>>
  BY <1>1 DEF Join, Approve, Fixed
<1>6. ASSUME NEW s \in Trips PROVE Tidy(s)'
  <2>1. /\ s # t => members'[s] = members[s] /\ request'[s] = request[s]
        /\ request \in [Trips -> [Users -> {"NONE", "PENDING", "APPROVED", "REJECTED"}]]
    BY <1>5 DEF IInv, TypeOK
  <2>2. Tidy(s)
    BY DEF RulesInv
  <2>. QED BY <1>4, <1>5, <2>1, <2>2 DEF Tidy
<1>7. ASSUME NEW v \in Users PROVE CurrentTrips(v)' \subseteq IF v = u THEN {t} ELSE CurrentTrips(v)
  BY <1>3, <1>4, <1>5 DEF CurrentTrips, IInv, TypeOK
<1>8. \A v \in Users : Single(v)'
  BY <1>7 DEF RulesInv, Single
<1>9. \A h : h.pc = "ensure" /\ h.t = t /\ h.u = u => Knows(h)'
  BY DEF Knows
<1>. QED BY <1>1, <1>3, <1>5, <1>6, <1>8, <1>9, Goes

LEMMA LeaveRules ==
  ASSUME IInv, RulesInv, NEW r \in Requests, Leave(r)
  PROVE  RulesInv'
<1>1. PICK t, u : t = req[r].t /\ u = req[r].u
  OBVIOUS
<1>2. Others(r) /\ t \in Trips /\ GroupOpen(t)
  BY <1>1, Engaged DEF Leave, At, Knows
<1>3. /\ members' = [members EXCEPT ![t] = members[t] \ {u}]
      /\ Continue(r, "revokeOne")
      /\ UNCHANGED <<trip, owner, granted, group, locked, request, job>>
  BY <1>1 DEF Leave, Fixed
<1>4. ASSUME NEW s \in Trips PROVE Tidy(s)'
  <2>1. s # t => members'[s] = members[s]
    BY <1>3 DEF IInv, TypeOK
  <2>2. Tidy(s)
    BY DEF RulesInv
  <2>. QED BY <1>2, <1>3, <2>1, <2>2 DEF Tidy, GroupOpen
<1>5. \A v \in Users : CurrentTrips(v)' \subseteq CurrentTrips(v)
  BY <1>2, <1>3 DEF CurrentTrips, IInv, TypeOK
<1>6. \A h : h.pc = "revokeOne" /\ h.t = t /\ h.u = u => Knows(h)'
  BY <1>2, <1>3 DEF Knows, GroupOpen
<1>. QED BY <1>1, <1>2, <1>3, <1>4, <1>5, <1>6, FewerTrips, Goes

LEMMA StartTripRules ==
  ASSUME IInv, RulesInv, NEW r \in Requests, StartTrip(r)
  PROVE  RulesInv'
<1>1. PICK t : t = req[r].t
  OBVIOUS
<1>2. Others(r) /\ t \in Trips /\ trip[t] = "PLANNED"
  BY <1>1, Engaged DEF StartTrip, At, Knows
<1>3. /\ trip' = [trip EXCEPT ![t] = "ACTIVE"] /\ Finish(r)
      /\ UNCHANGED <<owner, granted, group, locked, members, request, job>>
  BY <1>1 DEF StartTrip, Fixed
<1>4. \A s \in Trips : Tidy(s)'
  BY <1>2, <1>3 DEF RulesInv, Tidy, IInv, TypeOK, Open, Ended
<1>5. \A v \in Users : CurrentTrips(v)' \subseteq CurrentTrips(v)
  BY <1>2, <1>3 DEF CurrentTrips, IInv, TypeOK, Open
<1>. QED BY <1>2, <1>3, <1>4, <1>5, FewerTrips, Rests

LEMMA EndRowsRules ==
  ASSUME IInv, RulesInv, NEW t \in Trips, trip[t] \in Open, NEW to \in Ended, EndRows(t, to)
  PROVE  /\ \A s \in Trips : Tidy(s)'
         /\ \A u \in Users : Single(u)'
<1>1. /\ granted' = [granted EXCEPT ![t] = FALSE]
      /\ group' = [group EXCEPT ![t] = IF group[t] = "ACTIVE" THEN "CLOSED" ELSE group[t]]
      /\ trip' = [trip EXCEPT ![t] = to]
      /\ UNCHANGED <<owner, locked, members, request>>
  BY DEF EndRows
<1>2. \A s \in Trips : Tidy(s)'
  BY <1>1 DEF RulesInv, Tidy, IInv, TypeOK, Open, Ended
<1>3. \A v \in Users : CurrentTrips(v)' \subseteq CurrentTrips(v)
  BY <1>1 DEF CurrentTrips, IInv, TypeOK, Open, Ended
<1>. QED BY <1>2, <1>3, FewerTrips

LEMMA EndTripRules ==
  ASSUME IInv, RulesInv, NEW r \in Requests, EndTrip(r)
  PROVE  RulesInv'
<1>1. PICK t : t = req[r].t
  OBVIOUS
<1>2. /\ Others(r) /\ t \in Trips /\ trip[t] \in Open /\ req[r].to \in Ended
      /\ EndRows(t, req[r].to) /\ Continue(r, "revokeAll") /\ job' = job
  BY <1>1, Engaged DEF EndTrip, At, Knows, IInv, HandlersGood, Good
<1>3. trip'[t] \in Ended
  BY <1>2 DEF EndRows, IInv, TypeOK
<1>4. \A h : h.pc = "revokeAll" /\ h.t = req[r].t /\ h.u = req[r].u => Knows(h)'
  BY <1>1, <1>3 DEF Knows
<1>. QED BY <1>1, <1>2, <1>4, EndRowsRules, Goes

-----------------------------------------------------------------------------
(* The clock, the job and the failures *)

\* The job goes on, and no handler is in flight.
LEMMA JobMoves ==
  ASSUME RulesInv, \A r \in Requests : req[r] = Idle, req' = req, SweepKnows',
         \A t \in Trips : Tidy(t)', \A u \in Users : Single(u)'
  PROVE  RulesInv'
<1>1. Alone'
  BY DEF Alone
<1>2. ASSUME NEW r \in Requests PROVE Knows(req[r])'
  BY IdleKnows DEF Knows
<1>. QED BY <1>1, <1>2 DEF RulesInv

LEMMA JobRules ==
  ASSUME IInv, RulesInv, Serial, BeginJob \/ JobComplete \/ JobRevoke \/ FailJob
  PROVE  RulesInv'
<1>1. /\ job \in Sweep /\ SweepKnows
      /\ \A todo : (\A t \in todo : trip'[t] = "ACTIVE") /\ job' = NextTrip(todo) => SweepKnows'
  BY IdleKnows DEF IInv, TypeOK, RulesInv, SweepKnows, NextTrip, Rest
<1>2. ASSUME job # Rest PROVE \A r \in Requests : req[r] = Idle
  BY <1>2 DEF RulesInv, Alone
<1>3. CASE BeginJob
  <2>1. Quiet /\ Unwritten /\ req' = req
    BY <1>3 DEF BeginJob, CanStart, Serial, Unwritten, rows
  <2>2. /\ job'.pc = "complete" /\ \A t \in job'.todo : trip[t] = "ACTIVE"
    BY <1>3 DEF BeginJob, Rest
  <2>3. SweepKnows'
    BY <2>1, <2>2 DEF SweepKnows, Unwritten
  <2>. QED BY <2>1, <2>3, UnwrittenRules, JobMoves DEF Quiet
<1>4. CASE JobComplete
  <2>1. PICK t \in job.todo : /\ job.pc = "complete" /\ EndRows(t, "COMPLETED") /\ req' = req
                              /\ job' = [pc |-> "revoke", t |-> t, todo |-> job.todo \ {t}]
    BY <1>4 DEF JobComplete
  <2>2. t \in Trips /\ trip[t] \in Open /\ "COMPLETED" \in Ended
    BY <1>1 DEF Sweep, SweepKnows, Open, Ended
  <2>3. SweepKnows'
    BY <1>1, <2>1, <2>2 DEF SweepKnows, EndRows, IInv, TypeOK, Ended, Sweep
  <2>. QED BY <1>2, <2>1, <2>2, <2>3, IdleKnows, EndRowsRules, JobMoves
<1>5. CASE JobRevoke
  <2>1. job.pc = "revoke" /\ Unwritten /\ req' = req /\ job' = NextTrip(job.todo)
    BY <1>5 DEF JobRevoke, RevokeRows, Unwritten
  <2>2. SweepKnows'
    BY <1>1, <2>1 DEF SweepKnows, Unwritten
  <2>. QED BY <1>2, <2>1, <2>2, IdleKnows, UnwrittenRules, JobMoves
<1>6. CASE FailJob
  <2>1. PICK todo \in SUBSET job.todo : job' = NextTrip(todo)
    BY <1>6 DEF FailJob
  <2>2. job # Rest /\ Unwritten /\ req' = req
    BY <1>6 DEF FailJob, Unwritten, rows
  <2>3. SweepKnows'
    BY <1>1, <2>1, <2>2 DEF SweepKnows, Unwritten
  <2>. QED BY <1>2, <2>2, <2>3, UnwrittenRules, JobMoves
<1>. QED BY <1>3, <1>4, <1>5, <1>6

LEMMA FailRules ==
  ASSUME IInv, RulesInv, Restart \/ \E r \in Requests : FailRequest(r)
  PROVE  RulesInv'
<1>1. Unwritten
  BY DEF Restart, FailRequest, Unwritten, rows
<1>2. CASE Restart
  <2>1. job' = Rest /\ \A r \in Requests : req'[r] = Idle
    BY <1>2 DEF Restart
  <2>2. Alone' /\ SweepKnows'
    BY <2>1, IdleKnows DEF Alone, SweepKnows
  <2>3. ASSUME NEW r \in Requests PROVE Knows(req[r])'
    BY <2>1, IdleKnows DEF Knows
  <2>. QED BY <1>1, <2>2, <2>3, UnwrittenRules DEF RulesInv
<1>3. ASSUME NEW r \in Requests, FailRequest(r) PROVE RulesInv'
  BY <1>1, <1>3, AtWork, UnwrittenRules, Rests DEF FailRequest
<1>. QED BY <1>2, <1>3

LEMMA StutterRules ==
  ASSUME RulesInv, Unwritten, req' = req, job' = job
  PROVE  RulesInv'
<1>1. Alone' /\ SweepKnows'
  BY DEF RulesInv, Alone, SweepKnows, Unwritten
<1>2. ASSUME NEW r \in Requests PROVE Knows(req[r])'
  <2>1. PICK h : h = req[r]
    OBVIOUS
  <2>2. Knows(h)'
    BY <2>1, UnwrittenRules DEF RulesInv
  <2>. QED BY <2>1, <2>2 DEF Knows
<1>. QED BY <1>1, <1>2, UnwrittenRules DEF RulesInv

LEMMA StepRules ==
  ASSUME IInv, RulesInv, NEW r \in Requests, Step(r)
  PROVE  RulesInv'
  BY CreateTripRules, SideStepRules, AnswerRules, CreateGroupRules, JoinRules, LeaveRules,
     StartTripRules, EndTripRules DEF Step

LEMMA NextRules ==
  ASSUME IInv, RulesInv, Serial, [Next]_vars
  PROVE  RulesInv'
<1>1. ASSUME NEW t \in Trips, Tick(t) PROVE RulesInv'
  BY <1>1, StutterRules DEF Tick, Fixed, Unwritten
<1>2. CASE UNCHANGED vars
  BY <1>2, StutterRules DEF vars, rows, Unwritten
<1>. QED BY <1>1, <1>2, BeginRules, StepRules, JobRules, FailRules DEF Next

-----------------------------------------------------------------------------
(* The credentials: CredOK when only h, or the job as JobAs, is in flight *)

CredNow(t, h) ==
    /\ trip[t] = "NONE" => \A k \in Holders : cred[t][k] = "NONE"
    /\ trip[t] \in Open => \A u \in Users : Valid(t, u) \/ Mends(h, t, u)
    /\ trip[t] \in Ended =>
          /\ \A u \in Users : Member(t, u) => cred[t][u] # "NONE"
          /\ (h.pc = "revokeAll" /\ h.t = t) \/ \A k \in Holders : cred[t][k] \in {"NONE", "REVOKED"}

JobAs == IF job.pc = "revoke" THEN [Idle EXCEPT !.pc = "revokeAll", !.t = job.t] ELSE Idle

Mender(h) == h.pc \in {"ensure", "revokeOne", "extendAll", "revokeAll"}

LEMMA IdleMends ==
  /\ ~Mender(Idle) /\ CanMend(Idle) /\ CanMend(Idle)'
  /\ \A t, u : ~Mends(Idle, t, u)
  BY DEF Idle, Mender, CanMend, Mends

LEMMA CredHere ==
  ASSUME CredInv, NEW r \in Requests, Others(r), NEW t \in Trips
  PROVE  CredNow(t, req[r]) /\ CanMend(req[r])
  BY IdleMends, IdleKnows DEF CredInv, CredOK, CredNow, Others, Revokes

LEMMA CredMoves ==
  ASSUME IInv, NEW r \in Requests, NEW n, Others(r),
         req' = [req EXCEPT ![r] = n], job' = job, CanMend(n)', Timely',
         \A t \in Trips : CredNow(t, n)'
  PROVE  CredInv'
<1>1. req'[r] = n /\ \A q \in Requests \ {r} : req'[q] = Idle
  BY DEF IInv, TypeOK, Others
<1>2. ASSUME NEW q \in Requests PROVE CanMend(req[q])'
  <2>1. req'[q] = n \/ req'[q] = Idle
    BY <1>1
  <2>. QED BY <2>1, IdleMends DEF CanMend, Member
<1>3. ASSUME NEW t \in Trips PROVE CredOK(t)'
  <2>1. CredNow(t, n)'
    OBVIOUS
  <2>. QED BY <1>1, <2>1 DEF CredOK, CredNow, Revokes, Mends
<1>. QED BY <1>2, <1>3 DEF CredInv

LEMMA CredGoes ==
  ASSUME IInv, NEW r \in Requests, NEW pc, Others(r), Continue(r, pc), job' = job, Timely',
         \A n : n.pc = pc /\ n.t = req[r].t /\ n.u = req[r].u =>
            CanMend(n)' /\ \A t \in Trips : CredNow(t, n)'
  PROVE  CredInv'
<1>1. PICK n : n = [req[r] EXCEPT !.pc = pc]
  OBVIOUS
<1>2. req' = [req EXCEPT ![r] = n] /\ n.pc = pc /\ n.t = req[r].t /\ n.u = req[r].u
  BY <1>1 DEF Continue, IInv, TypeOK, Request
<1>. QED BY <1>2, CredMoves

LEMMA CredRests ==
  ASSUME IInv, NEW r \in Requests, Others(r), Finish(r), job' = job, Timely',
         \A n : ~Mender(n) => \A t \in Trips : CredNow(t, n)'
  PROVE  CredInv'
<1>1. PICK n : n = Idle
  OBVIOUS
<1>2. ~Mender(n) /\ CanMend(n)'
  BY <1>1, IdleMends DEF CanMend, Member
<1>. QED BY <1>1, <1>2, CredMoves DEF Finish

LEMMA CredOfJob ==
  ASSUME RulesInv, \A r \in Requests : req[r] = Idle, NEW t \in Trips
  PROVE  CredOK(t) <=> CredNow(t, JobAs)
  BY IdleMends, IdleKnows DEF CredOK, CredNow, Revokes, JobAs, Mends, Idle, Mender

LEMMA CredOfJobNext ==
  ASSUME RulesInv, \A r \in Requests : req[r] = Idle, req' = req, Timely',
         NEW n, n = JobAs', \A t \in Trips : CredNow(t, n)'
  PROVE  CredInv'
<1>1. ASSUME NEW t \in Trips PROVE CredOK(t)'
  <2>1. CredNow(t, n)'
    OBVIOUS
  <2>. QED BY <2>1 DEF CredOK, CredNow, Revokes, JobAs, Mends, Idle
<1>2. ASSUME NEW r \in Requests PROVE CanMend(req[r])'
  BY IdleMends DEF CanMend, Member
<1>. QED BY <1>1, <1>2 DEF CredInv

-----------------------------------------------------------------------------
(* What the writes do to the credentials *)

\* No trip is born or ends, nobody comes or goes, no credential is written.
LEMMA SameCred ==
  ASSUME Timely, NEW h, ~Mender(h), \A t \in Trips : CredNow(t, h),
         \A t \in Trips : trip'[t] = trip[t] \/ (trip[t] \in Open /\ trip'[t] \in Open),
         \A t \in Trips : \A u \in Users : Member(t, u)' <=> Member(t, u),
         UNCHANGED <<due, cred>>
  PROVE  /\ Timely'
         /\ \A n : \A t \in Trips : CredNow(t, n)'
  BY DEF Timely, CredNow, Valid, Issued, Mends, Mender, Open, Ended

LEMMA EndRowsCred ==
  ASSUME IInv, Timely, NEW h, ~Mender(h), \A t \in Trips : CredNow(t, h),
         NEW t \in Trips, trip[t] \in Open, NEW to \in Ended, EndRows(t, to),
         NEW n, n.pc = "revokeAll", n.t = t
  PROVE  /\ Timely'
         /\ \A s \in Trips : CredNow(s, n)'
<1>1. /\ trip' = [trip EXCEPT ![t] = to]
      /\ UNCHANGED <<owner, due, members, cred>>
  BY DEF EndRows
<1>2. ASSUME NEW s \in Trips, s # t PROVE CredNow(s, n)'
  <2>1. trip'[s] = trip[s]
    BY <1>1, <1>2 DEF IInv, TypeOK
  <2>. QED BY <1>1, <1>2, <2>1 DEF CredNow, Valid, Issued, Member, Mends, Mender
<1>3. CredNow(t, n)'
  <2>1. trip'[t] \in Ended /\ trip'[t] \notin Open \cup {"NONE"}
    BY <1>1 DEF IInv, TypeOK, Open, Ended
  <2>2. \A u \in Users : Member(t, u) => cred[t][u] # "NONE"
    BY DEF CredNow, Valid, Issued, Mends, Mender
  <2>. QED BY <1>1, <2>1, <2>2 DEF CredNow, Member
<1>. QED BY <1>1, <1>2, <1>3 DEF Timely

LEMMA RevokeRowsCred ==
  ASSUME IInv, Timely, NEW h, h.pc = "revokeAll", NEW t \in Trips, h.t = t, trip[t] \in Ended,
         RevokeRows(t), \A s \in Trips : CredNow(s, h)
  PROVE  /\ Timely'
         /\ \A n : \A s \in Trips : CredNow(s, n)'
<1>1. /\ cred' = [cred EXCEPT ![t] = [k \in Holders |-> Revoke(cred[t][k])]]
      /\ UNCHANGED <<trip, owner, due, members>>
  BY DEF RevokeRows
<1>2. /\ \A s \in Trips : s # t => cred'[s] = cred[s]
      /\ \A k \in Holders : cred'[t][k] = Revoke(cred[t][k])
  BY <1>1 DEF IInv, TypeOK
<1>3. \A k \in Holders : cred'[t][k] \in {"NONE", "REVOKED"} /\ (cred'[t][k] = "NONE" => cred[t][k] = "NONE")
  BY <1>2 DEF Revoke
<1>4. Timely'
  BY <1>1, <1>2, <1>3 DEF Timely
<1>5. trip[t] \notin Open \cup {"NONE"} /\ Users \subseteq Holders
  BY DEF Open, Ended, Holders
<1>6. ASSUME NEW n, NEW s \in Trips PROVE CredNow(s, n)'
  <2>1. CASE s = t
    BY <1>1, <1>3, <1>5, <2>1 DEF CredNow, Member
  <2>2. CASE s # t
    BY <1>1, <1>2, <2>2 DEF CredNow, Valid, Issued, Member, Mends
  <2>. QED BY <2>1, <2>2
<1>. QED BY <1>4, <1>6

-----------------------------------------------------------------------------
(* The steps *)

LEMMA CredServed ==
  ASSUME IInv, CredInv, Serial, NEW r \in Requests, NEW n, Serve(r, n), CanMend(n)
  PROVE  CredInv'
<1>1. /\ Others(r) /\ req[r] = Idle /\ req' = [req EXCEPT ![r] = n] /\ job' = job
      /\ UNCHANGED <<trip, owner, due, members, cred>>
  BY QuietIsAlone DEF Serve, CanStart, Serial, Quiet, rows
<1>2. CanMend(n)'
  BY <1>1 DEF CanMend, Member
<1>3. PICK h : h = Idle
  OBVIOUS
<1>4. ~Mender(h) /\ \A t \in Trips : CredNow(t, h)
  BY <1>1, <1>3, CredHere, IdleMends
<1>5. Timely' /\ \A t \in Trips : CredNow(t, n)'
  BY <1>1, <1>4, SameCred DEF CredInv, Member
<1>. QED BY <1>1, <1>2, <1>5, CredMoves

LEMMA CredStarted ==
  ASSUME IInv, CredInv, Serial, NEW r \in Requests, NEW pc, NEW t, NEW u, Start(r, pc, t, u),
         \A n : n.pc = pc /\ n.t = t /\ n.u = u => CanMend(n)
  PROVE  CredInv'
<1>1. PICK n : n = [Idle EXCEPT !.pc = pc, !.t = t, !.u = u]
  OBVIOUS
<1>2. n.pc = pc /\ n.t = t /\ n.u = u /\ Serve(r, n)
  BY <1>1 DEF Idle, Start
<1>. QED BY <1>2, CredServed

\* issueSafetyId for a tourist without a credential, or for the planner.
LEMMA BeginEnsureCred ==
  ASSUME IInv, RulesInv, CredInv, Serial, NEW r \in Requests, NEW t \in Trips, NEW u \in Users,
         BeginEnsure(r, t, u)
  PROVE  CredInv'
<1>1. /\ Start(r, "ensure", t, u) /\ trip[t] # "NONE"
      /\ (owner[t] = u /\ granted[t]) \/ cred[t][u] = "NONE"
  BY DEF BeginEnsure
<1>2. Others(r) /\ req[r] = Idle /\ Tidy(t)
  BY <1>1, QuietIsAlone DEF Start, Serve, CanStart, Serial, Quiet, RulesInv
<1>3. CredNow(t, Idle)
  BY <1>2, CredHere
<1>4. IF Member(t, u) THEN trip[t] \in Open ELSE cred[t][u] \in {"NONE", "REVOKED"}
  <2>1. trip[t] \in Open \cup Ended
    BY <1>1 DEF IInv, TypeOK
  <2>2. CASE trip[t] \in Open
    BY <1>3, <2>2, IdleMends DEF CredNow, Valid
  <2>3. CASE trip[t] \in Ended
    BY <1>1, <1>2, <1>3, <2>3 DEF CredNow, Tidy, Member
  <2>. QED BY <2>1, <2>2, <2>3
<1>5. \A n : n.pc = "ensure" /\ n.t = t /\ n.u = u => CanMend(n)
  BY <1>4 DEF CanMend
<1>. QED BY <1>1, <1>5, CredStarted

LEMMA BeginCred ==
  ASSUME IInv, RulesInv, CredInv, Serial, NEW r \in Requests, Begin(r)
  PROVE  CredInv'
<1>1. PICK t \in Trips :
        \/ \E u \in Users : BeginEnsure(r, t, u)
        \/ \E u, pc : Start(r, pc, t, u) /\ pc \notin {"ensure", "revokeOne", "extendAll"}
        \/ \E to \in Ended : BeginEnd(r, t, to)
  BY DEF Begin, BeginCreateTrip, BeginJoin, BeginAsk, BeginApprove, BeginReject, BeginLeave,
         BeginConsent, BeginCreateGroup, BeginInvite, BeginUninvite, BeginLock, BeginStart, BeginExtend
<1>2. ASSUME NEW u, NEW pc, Start(r, pc, t, u), pc \notin {"ensure", "revokeOne", "extendAll"}
      PROVE  CredInv'
  BY <1>2, CredStarted DEF CanMend
<1>3. ASSUME NEW to \in Ended, BeginEnd(r, t, to) PROVE CredInv'
  <2>1. PICK n : n = [pc |-> "end", t |-> t, u |-> owner[t], to |-> to]
    OBVIOUS
  <2>2. n.pc = "end" /\ Serve(r, n)
    BY <1>3, <2>1 DEF BeginEnd
  <2>. QED BY <2>2, CredServed DEF CanMend
<1>. QED BY <1>1, <1>2, <1>3, BeginEnsureCred

LEMMA CreateTripCred ==
  ASSUME IInv, RulesInv, CredInv, NEW r \in Requests, CreateTrip(r)
  PROVE  CredInv'
<1>1. PICK h : h = req[r]
  OBVIOUS
<1>2. PICK t, u : t = h.t /\ u = h.u
  OBVIOUS
<1>3. /\ trip' = [trip EXCEPT ![t] = "PLANNED"]
      /\ owner' = [owner EXCEPT ![t] = u]
      /\ Continue(r, "ensure") /\ h.pc = "createTrip"
      /\ UNCHANGED <<due, group, members, cred, job>>
  BY <1>1, <1>2 DEF CreateTrip, At
<1>4. /\ Others(r) /\ t \in Trips /\ u \in Users /\ Tidy(t) /\ RowOK(t) /\ trip[t] = "NONE"
      /\ \A s \in Trips : CredNow(s, h)
  BY <1>1, <1>2, <1>3, Engaged, CredHere DEF IInv, HandlersGood, Good
<1>5. /\ \A v \in Users : Member(t, v)' <=> v = u
      /\ \A s \in Trips : s # t => trip'[s] = trip[s] /\ \A v \in Users : Member(s, v)' <=> Member(s, v)
      /\ trip'[t] = "PLANNED"
  BY <1>3, <1>4 DEF Member, Tidy, RowOK, IInv, TypeOK
<1>6. Timely'
  BY <1>3 DEF CredInv, Timely
<1>7. ASSUME NEW n, n.pc = "ensure", n.t = t, n.u = u
      PROVE  CanMend(n)' /\ \A s \in Trips : CredNow(s, n)'
  <2>1. CanMend(n)'
    BY <1>4, <1>5, <1>7 DEF CanMend, Open
  <2>2. CredNow(t, n)'
    BY <1>3, <1>4, <1>5, <1>7 DEF CredNow, Valid, Mends, Open, Ended, Holders
  <2>3. ASSUME NEW s \in Trips, s # t PROVE CredNow(s, n)'
    BY <1>3, <1>4, <1>5, <1>7, <2>3 DEF CredNow, Valid, Issued, Mends
  <2>. QED BY <2>1, <2>2, <2>3
<1>. QED BY <1>1, <1>2, <1>3, <1>4, <1>6, <1>7, CredGoes

\* ensureIndividual: afterwards nothing is left to mend.
LEMMA EnsureCred ==
  ASSUME IInv, RulesInv, CredInv, NEW r \in Requests, EnsureIndividual(r)
  PROVE  CredInv'
<1>1. PICK h : h = req[r]
  OBVIOUS
<1>2. PICK t, u : t = h.t /\ u = h.u
  OBVIOUS
<1>3. /\ h.pc \in {"ensure", "ensureToStart"}
      /\ cred' = IF Member(t, u) /\ cred[t][u] # "ACTIVE"
                 THEN [cred EXCEPT ![t][u] = Issued(t)] ELSE cred
      /\ UNCHANGED <<trip, owner, due, members, job>>
      /\ Finish(r) \/ Continue(r, "start")
  BY <1>1, <1>2 DEF EnsureIndividual, Fixed
<1>4. /\ Others(r) /\ t \in Trips /\ u \in Users /\ Knows(h) /\ CanMend(h)
      /\ \A s \in Trips : CredNow(s, h)
      /\ trip[t] # "NONE"
  BY <1>1, <1>2, <1>3, Engaged, CredHere DEF IInv, HandlersGood, Good
<1>5. /\ u \in Holders /\ Issued(t) \in {"ACTIVE", "EXPIRED"}
      /\ \A s \in Trips, k \in Holders : (s # t \/ k # u) => cred'[s][k] = cred[s][k]
      /\ cred'[t][u] = IF Member(t, u) /\ cred[t][u] # "ACTIVE" THEN Issued(t) ELSE cred[t][u]
  BY <1>3, <1>4 DEF IInv, TypeOK, Holders, Issued
<1>6. Timely'
  BY <1>3, <1>4, <1>5 DEF CredInv, Timely, Issued
<1>7. \A n : ~Mender(n) => \A s \in Trips : CredNow(s, n)'
  <2>. SUFFICES ASSUME NEW n, ~Mender(n), NEW s \in Trips PROVE CredNow(s, n)'
    OBVIOUS
  <2>1. CASE s # t
    BY <1>2, <1>3, <1>4, <1>5, <2>1 DEF CredNow, Valid, Issued, Member, Mends, Holders
  <2>2. CASE s = t /\ trip[t] \in Open
    <3>1. Member(t, u) => Valid(t, u)'
      BY <1>3, <1>4, <1>5 DEF CredInv, Timely, Valid, Issued, Member
    <3>2. ~Member(t, u) => Valid(t, u)'
      BY <1>2, <1>3, <1>4, <1>5, <2>2 DEF CanMend, CredNow, Valid, Member, Mends
    <3>3. ASSUME NEW v \in Users, v # u PROVE Valid(t, v)'
      BY <1>2, <1>3, <1>4, <1>5, <2>2, <3>3 DEF CredNow, Valid, Issued, Member, Mends, Holders
    <3>. QED BY <1>3, <2>2, <3>1, <3>2, <3>3 DEF CredNow, Open, Ended
  <2>3. CASE s = t /\ trip[t] \in Ended
    <3>1. ~Member(t, u)
      BY <1>2, <1>3, <1>4, <2>3 DEF CanMend, Knows, Open, Ended
    <3>. QED BY <1>3, <1>4, <2>3, <3>1 DEF CredNow, Member, Mender, Open, Ended
  <2>. QED BY <1>4, <2>1, <2>2, <2>3 DEF IInv, TypeOK
<1>8. CASE Finish(r)
  BY <1>3, <1>4, <1>6, <1>7, <1>8, CredRests
<1>9. CASE Continue(r, "start")
  BY <1>3, <1>4, <1>6, <1>7, <1>9, CredGoes DEF Mender, CanMend
<1>. QED BY <1>3, <1>8, <1>9

\* Steps that write no credential and change nobody's membership.
LEMMA SideCredStep ==
  ASSUME IInv, RulesInv, CredInv, NEW r \in Requests,
         \/ Consent(r) \/ Invite(r) \/ Ask(r) \/ Reject(r) \/ RejectAll(r) \/ Lock(r)
         \/ StartTrip(r) \/ CreateGroup(r)
  PROVE  CredInv'
<1>1. PICK h : h = req[r]
  OBVIOUS
<1>2. h.pc # "idle" /\ ~Mender(h)
  BY <1>1 DEF Consent, Invite, Ask, Reject, RejectAll, Lock, StartTrip, CreateGroup, At, Mender
<1>3. /\ Others(r) /\ h.t \in Trips /\ Knows(h) /\ Tidy(h.t) /\ RowOK(h.t)
      /\ \A s \in Trips : CredNow(s, h)
  BY <1>1, <1>2, Engaged, CredHere
<1>4. UNCHANGED <<owner, due, cred, job>>
  BY DEF Consent, Invite, Ask, Reject, RejectAll, Lock, StartTrip, CreateGroup, Fixed
<1>5. \A t \in Trips : trip'[t] = trip[t] \/ (trip[t] \in Open /\ trip'[t] \in Open)
  <2>1. CASE StartTrip(r)
    BY <1>1, <1>3, <2>1 DEF StartTrip, At, Knows, IInv, TypeOK, Open
  <2>2. CASE trip' = trip
    BY <2>2
  <2>. QED BY <2>1, <2>2 DEF Consent, Invite, Ask, Reject, RejectAll, Lock, CreateGroup
<1>6. \A t \in Trips : \A u \in Users : Member(t, u)' <=> Member(t, u)
  <2>1. CASE CreateGroup(r)
    <3>1. PICK t : t = h.t
      OBVIOUS
    <3>2. \/ members' = members
          \/ members[t] = {} /\ members' = [members EXCEPT ![t] = {owner[t]}]
      BY <1>1, <1>3, <2>1, <3>1 DEF CreateGroup, Tidy
    <3>3. CASE members' = members
      BY <1>4, <3>3 DEF Member
    <3>4. CASE members[t] = {} /\ members' = [members EXCEPT ![t] = {owner[t]}]
      <4>1. \A s \in Trips : members'[s] = IF s = t THEN {owner[t]} ELSE members[s]
        BY <1>3, <3>1, <3>4 DEF IInv, TypeOK
      <4>. QED BY <1>4, <3>4, <4>1 DEF Member
    <3>. QED BY <3>2, <3>3, <3>4
  <2>2. CASE members' = members
    BY <1>4, <2>2 DEF Member
  <2>. QED BY <2>1, <2>2 DEF Consent, Invite, Ask, Reject, RejectAll, Lock, StartTrip
<1>7. Timely' /\ \A n : \A t \in Trips : CredNow(t, n)'
  BY <1>2, <1>3, <1>4, <1>5, <1>6, SameCred DEF CredInv
<1>8. CASE Finish(r)
  BY <1>3, <1>4, <1>7, <1>8, CredRests
<1>9. ASSUME NEW pc \in {"lock", "issueGroup"}, Continue(r, pc) PROVE CredInv'
  BY <1>3, <1>4, <1>7, <1>9, CredGoes DEF CanMend
<1>. QED BY <1>8, <1>9 DEF Consent, Invite, Ask, Reject, RejectAll, Lock, StartTrip, CreateGroup

LEMMA IssueGroupCred ==
  ASSUME IInv, RulesInv, CredInv, NEW r \in Requests, IssueGroup(r)
  PROVE  CredInv'
<1>1. PICK h : h = req[r]
  OBVIOUS
<1>2. PICK t, u : t = h.t /\ u = h.u
  OBVIOUS
<1>3. /\ h.pc = "issueGroup" /\ Continue(r, "ensure")
      /\ cred' = cred \/ cred' = [cred EXCEPT ![t][Group] = Issued(t)]
      /\ UNCHANGED <<trip, owner, due, members, job>>
  BY <1>1, <1>2 DEF IssueGroup, Fixed, At
<1>4. /\ Others(r) /\ t \in Trips /\ u \in Users /\ trip[t] = "PLANNED"
      /\ \A s \in Trips : CredNow(s, h)
  BY <1>1, <1>2, <1>3, Engaged, CredHere DEF Knows
<1>5. /\ \A s \in Trips, k \in Holders : (s # t \/ k # Group) => cred'[s][k] = cred[s][k]
      /\ cred'[t][Group] \in {cred[t][Group], Issued(t)}
      /\ Group \notin Users /\ Users \subseteq Holders /\ Group \in Holders
  BY <1>3, <1>4, TripAssumption DEF IInv, TypeOK, Holders
<1>6. Timely'
  BY <1>3, <1>4, <1>5 DEF CredInv, Timely, Issued
<1>7. ASSUME NEW s \in Trips, NEW v \in Users
      PROVE  cred'[s][v] = cred[s][v] /\ (Member(s, v)' <=> Member(s, v)) /\ Issued(s)' = Issued(s)
  BY <1>3, <1>5, TripAssumption DEF Member, Issued
<1>8. ASSUME NEW n, n.pc = "ensure", n.t = t, n.u = u
      PROVE  CanMend(n)' /\ \A s \in Trips : CredNow(s, n)'
  <2>1. CanMend(n)'
    BY <1>3, <1>4, <1>7, <1>8 DEF CanMend, CredNow, Valid, Mends, Open
  <2>2. CredNow(t, n)'
    BY <1>3, <1>4, <1>7 DEF CredNow, Valid, Mends, Open, Ended
  <2>3. ASSUME NEW s \in Trips, s # t PROVE CredNow(s, n)'
    BY <1>3, <1>4, <1>5, <1>7, <2>3 DEF CredNow, Valid, Mends
  <2>. QED BY <2>2, <2>1, <2>3
<1>. QED BY <1>1, <1>2, <1>3, <1>4, <1>6, <1>8, CredGoes

\* Who comes gets a credential next, who goes loses it next.
LEMMA MemberCred ==
  ASSUME IInv, RulesInv, CredInv, NEW r \in Requests, Join(r) \/ Approve(r) \/ Leave(r)
  PROVE  CredInv'
<1>1. PICK h : h = req[r]
  OBVIOUS
<1>2. PICK t, u : t = h.t /\ u = h.u
  OBVIOUS
<1>3. h.pc \in {"join", "approve", "leave"} /\ UNCHANGED <<trip, owner, due, cred, job>>
  BY <1>1 DEF Join, Approve, Leave, Fixed, At
<1>4. /\ Others(r) /\ t \in Trips /\ u \in Users /\ trip[t] \in Open
      /\ \A s \in Trips : CredNow(s, h)
  BY <1>1, <1>2, <1>3, Engaged, CredHere DEF Knows, MayJoin, MembershipOpen, GroupOpen, Open
<1>5. PICK pc \in {"ensure", "revokeOne"} :
        /\ Continue(r, pc)
        /\ members' = IF pc = "ensure" THEN [members EXCEPT ![t] = members[t] \cup {u}]
                                       ELSE [members EXCEPT ![t] = members[t] \ {u}]
        /\ pc = "revokeOne" => u # owner[t]
  BY <1>1, <1>2 DEF Join, Approve, Leave, At, IInv, HandlersGood, Good
<1>6. /\ \A s \in Trips, v \in Users : (s # t \/ v # u) => (Member(s, v)' <=> Member(s, v))
      /\ Member(t, u)' <=> pc = "ensure"
  BY <1>3, <1>4, <1>5 DEF Member, IInv, TypeOK
<1>7. Timely'
  BY <1>3 DEF CredInv, Timely
<1>8. ASSUME NEW n, n.pc = pc, n.t = t, n.u = u
      PROVE  CanMend(n)' /\ \A s \in Trips : CredNow(s, n)'
  <2>1. CanMend(n)'
    BY <1>3, <1>4, <1>6, <1>8 DEF CanMend
  <2>2. CredNow(t, n)'
    BY <1>3, <1>4, <1>6, <1>8 DEF CredNow, Valid, Issued, Mends, Open, Ended
  <2>3. ASSUME NEW s \in Trips, s # t PROVE CredNow(s, n)'
    BY <1>3, <1>4, <1>6, <2>3 DEF CredNow, Valid, Issued, Mends
  <2>. QED BY <2>1, <2>2, <2>3
<1>. QED BY <1>1, <1>2, <1>3, <1>4, <1>5, <1>7, <1>8, CredGoes

LEMMA RevokeOneCred ==
  ASSUME IInv, RulesInv, CredInv, NEW r \in Requests, RevokeOne(r)
  PROVE  CredInv'
<1>1. PICK h : h = req[r]
  OBVIOUS
<1>2. PICK t, u : t = h.t /\ u = h.u
  OBVIOUS
<1>3. /\ h.pc = "revokeOne" /\ Finish(r)
      /\ cred' = [cred EXCEPT ![t][u] = Revoke(cred[t][u])]
      /\ UNCHANGED <<trip, owner, due, members, job>>
  BY <1>1, <1>2 DEF RevokeOne, Fixed, At
<1>4. /\ Others(r) /\ t \in Trips /\ u \in Users /\ trip[t] \in Open /\ ~Member(t, u)
      /\ \A s \in Trips : CredNow(s, h)
  BY <1>1, <1>2, <1>3, Engaged, CredHere DEF Knows, CanMend
<1>5. /\ \A s \in Trips, k \in Holders : (s # t \/ k # u) => cred'[s][k] = cred[s][k]
      /\ cred'[t][u] \in {"NONE", "REVOKED"} /\ Users \subseteq Holders
  BY <1>3, <1>4 DEF IInv, TypeOK, Holders, Revoke
<1>6. Timely'
  BY <1>3, <1>4, <1>5 DEF CredInv, Timely
<1>7. ASSUME NEW s \in Trips, NEW v \in Users, ~(s = t /\ v = u)
      PROVE  Valid(s, v)' <=> Valid(s, v)
  BY <1>3, <1>5, <1>7 DEF Valid, Issued, Member
<1>8. Valid(t, u)'
  BY <1>3, <1>4, <1>5 DEF Valid, Member
<1>9. ASSUME NEW n, ~Mender(n), NEW s \in Trips PROVE CredNow(s, n)'
  <2>1. CASE s = t
    BY <1>2, <1>3, <1>4, <1>7, <1>8, <2>1 DEF CredNow, Mends, Open, Ended
  <2>2. CASE s # t
    BY <1>2, <1>3, <1>4, <1>5, <1>7, <2>2 DEF CredNow, Mends, Member
  <2>. QED BY <2>1, <2>2
<1>. QED BY <1>3, <1>4, <1>6, <1>9, CredRests

\* Extend only makes credentials that are EXPIRED count as due for renewal.
LEMMA ExtendCred ==
  ASSUME IInv, RulesInv, CredInv, NEW r \in Requests, Extend(r)
  PROVE  CredInv'
<1>1. PICK h : h = req[r]
  OBVIOUS
<1>2. PICK t : t = h.t
  OBVIOUS
<1>3. /\ h.pc = "extend" /\ Continue(r, "extendAll")
      /\ due' = [due EXCEPT ![t] = FALSE]
      /\ UNCHANGED <<trip, owner, members, cred, job>>
  BY <1>1, <1>2 DEF Extend, Fixed, At
<1>4. /\ Others(r) /\ t \in Trips /\ trip[t] = "ACTIVE"
      /\ \A s \in Trips : CredNow(s, h)
  BY <1>1, <1>2, <1>3, Engaged, CredHere DEF Knows
<1>5. ~due'[t] /\ \A s \in Trips : s # t => due'[s] = due[s]
  BY <1>3, <1>4 DEF IInv, TypeOK
<1>6. Timely'
  BY <1>3, <1>5 DEF CredInv, Timely
<1>7. ASSUME NEW n, n.pc = "extendAll", n.t = t
      PROVE  CanMend(n)' /\ \A s \in Trips : CredNow(s, n)'
  <2>1. CanMend(n)'
    BY <1>3, <1>4, <1>7 DEF CanMend, CredNow, Valid, Issued, Member, Mends, Open
  <2>2. CredNow(t, n)'
    BY <1>3, <1>4, <1>7 DEF CredNow, Mends, Open, Ended
  <2>3. ASSUME NEW s \in Trips, s # t PROVE CredNow(s, n)'
    BY <1>3, <1>4, <1>5, <2>3 DEF CredNow, Valid, Issued, Member, Mends
  <2>. QED BY <2>1, <2>2, <2>3
<1>. QED BY <1>1, <1>2, <1>3, <1>4, <1>6, <1>7, CredGoes

LEMMA ExtendAllCred ==
  ASSUME IInv, RulesInv, CredInv, NEW r \in Requests, ExtendAll(r)
  PROVE  CredInv'
<1>1. PICK h : h = req[r]
  OBVIOUS
<1>2. PICK t : t = h.t
  OBVIOUS
<1>3. /\ h.pc = "extendAll" /\ Finish(r)
      /\ cred' = [cred EXCEPT ![t] =
            [k \in Holders |-> IF cred[t][k] = "EXPIRED" THEN Issued(t) ELSE cred[t][k]]]
      /\ UNCHANGED <<trip, owner, due, members, job>>
  BY <1>1, <1>2 DEF ExtendAll, Fixed, At
<1>4. /\ Others(r) /\ t \in Trips /\ trip[t] = "ACTIVE" /\ CanMend(h)
      /\ \A s \in Trips : CredNow(s, h)
  BY <1>1, <1>2, <1>3, Engaged, CredHere DEF Knows
<1>5. /\ \A s \in Trips : s # t => cred'[s] = cred[s]
      /\ \A k \in Holders : cred'[t][k] = IF cred[t][k] = "EXPIRED" THEN Issued(t) ELSE cred[t][k]
      /\ Users \subseteq Holders
  BY <1>3, <1>4 DEF IInv, TypeOK, Holders
<1>6. Timely'
  BY <1>3, <1>5 DEF CredInv, Timely, Issued
<1>7. ASSUME NEW u \in Users PROVE Valid(t, u)'
  BY <1>2, <1>3, <1>4, <1>5 DEF CanMend, CredInv, Timely, Valid, Issued, Member
<1>8. ASSUME NEW n, ~Mender(n), NEW s \in Trips PROVE CredNow(s, n)'
  <2>1. CASE s = t
    BY <1>3, <1>4, <1>7, <2>1 DEF CredNow, Open, Ended
  <2>2. CASE s # t
    BY <1>2, <1>3, <1>4, <1>5, <2>2 DEF CredNow, Valid, Issued, Member, Mends
  <2>. QED BY <2>1, <2>2
<1>. QED BY <1>3, <1>4, <1>6, <1>8, CredRests

LEMMA EndCred ==
  ASSUME IInv, RulesInv, CredInv, NEW r \in Requests, EndTrip(r) \/ RevokeAll(r)
  PROVE  CredInv'
<1>1. PICK h : h = req[r]
  OBVIOUS
<1>2. PICK t : t = h.t
  OBVIOUS
<1>3. CASE EndTrip(r)
  <2>1. /\ h.pc = "end" /\ Continue(r, "revokeAll") /\ EndRows(t, h.to) /\ job' = job
    BY <1>1, <1>2, <1>3 DEF EndTrip, At
  <2>2. /\ Others(r) /\ t \in Trips /\ trip[t] \in Open /\ h.to \in Ended
        /\ \A s \in Trips : CredNow(s, h)
    BY <1>1, <1>2, <2>1, Engaged, CredHere DEF Knows, IInv, HandlersGood, Good
  <2>3. ASSUME NEW n, n.pc = "revokeAll", n.t = t
        PROVE  CanMend(n)' /\ Timely' /\ \A s \in Trips : CredNow(s, n)'
    BY <2>1, <2>2, <2>3, EndRowsCred DEF CanMend, CredInv, Mender
  <2>4. Timely'
    BY <2>1 DEF CredInv, Timely, EndRows
  <2>. QED BY <1>1, <1>2, <2>1, <2>2, <2>3, <2>4, CredGoes
<1>4. CASE RevokeAll(r)
  <2>1. h.pc = "revokeAll" /\ Finish(r) /\ RevokeRows(t) /\ job' = job
    BY <1>1, <1>2, <1>4 DEF RevokeAll, At
  <2>2. /\ Others(r) /\ t \in Trips /\ trip[t] \in Ended
        /\ \A s \in Trips : CredNow(s, h)
    BY <1>1, <1>2, <2>1, Engaged, CredHere DEF Knows
  <2>3. Timely' /\ \A n : \A s \in Trips : CredNow(s, n)'
    BY <1>2, <2>1, <2>2, RevokeRowsCred DEF CredInv
  <2>. QED BY <2>1, <2>2, <2>3, CredRests
<1>. QED BY <1>3, <1>4

-----------------------------------------------------------------------------
(* The clock and the job *)

LEMMA TickCred ==
  ASSUME IInv, CredInv, NEW t \in Trips, Tick(t)
  PROVE  CredInv'
<1>1. /\ trip[t] \in Open /\ ~due[t]
      /\ due' = [due EXCEPT ![t] = TRUE]
      /\ cred' = [cred EXCEPT ![t] =
            [h \in Holders |-> IF cred[t][h] = "ACTIVE" THEN "EXPIRED" ELSE cred[t][h]]]
      /\ UNCHANGED <<trip, owner, members, req, job>>
  BY DEF Tick, Fixed
<1>2. /\ due'[t] /\ \A s \in Trips : s # t => due'[s] = due[s] /\ cred'[s] = cred[s]
      /\ \A h \in Holders : cred'[t][h] = IF cred[t][h] = "ACTIVE" THEN "EXPIRED" ELSE cred[t][h]
      /\ Users \subseteq Holders
  BY <1>1 DEF IInv, TypeOK, Holders
<1>3. Timely'
  BY <1>2 DEF CredInv, Timely
<1>4. ASSUME NEW s \in Trips, NEW u \in Users, Valid(s, u) PROVE Valid(s, u)'
  BY <1>1, <1>2, <1>4 DEF Valid, Issued, Member
<1>5. ASSUME NEW s \in Trips PROVE CredOK(s)'
  <2>1. CredOK(s)
    BY DEF CredInv
  <2>2. CASE s = t
    BY <1>1, <1>4, <2>1, <2>2 DEF CredOK, Mends, Open, Ended
  <2>3. CASE s # t
    BY <1>1, <1>2, <1>4, <2>1, <2>3 DEF CredOK, Mends, Member, Revokes
  <2>. QED BY <2>2, <2>3
<1>6. ASSUME NEW r \in Requests PROVE CanMend(req[r])'
  <2>1. CanMend(req[r]) /\ req'[r] = req[r] /\ (req[r].pc # "idle" => req[r].t \in Trips /\ req[r].u \in Users)
    BY <1>1, InFlight DEF CredInv
  <2>2. ASSUME NEW s \in Trips, NEW u \in Users
        PROVE  /\ Member(s, u)' <=> Member(s, u)
               /\ cred'[s][u] = cred[s][u] \/ (cred[s][u] = "ACTIVE" /\ cred'[s][u] = "EXPIRED")
    BY <1>1, <1>2 DEF Member
  <2>3. CASE req[r].pc = "ensure"
    BY <1>1, <2>1, <2>2, <2>3 DEF CanMend
  <2>4. CASE req[r].pc = "revokeOne"
    BY <2>1, <2>2, <2>4 DEF CanMend
  <2>5. CASE req[r].pc = "extendAll"
    <3>. SUFFICES ASSUME NEW u \in Users
                  PROVE  cred'[req[r].t][u] \in IF Member(req[r].t, u) THEN {"ACTIVE", "EXPIRED"}
                                                                      ELSE {"NONE", "REVOKED"}
      BY <2>1, <2>2, <2>5 DEF CanMend
    <3>. QED BY <2>1, <2>2, <2>5 DEF CanMend
  <2>. QED BY <2>1, <2>3, <2>4, <2>5 DEF CanMend
<1>. QED BY <1>3, <1>5, <1>6 DEF CredInv

LEMMA JobCred ==
  ASSUME IInv, RulesInv, CredInv, Serial, BeginJob \/ JobComplete \/ JobRevoke
  PROVE  CredInv'
<1>1. \A r \in Requests : req[r] = Idle
  BY IdleKnows DEF BeginJob, JobComplete, JobRevoke, CanStart, Serial, Quiet, RulesInv, Alone
<1>2. PICK h : h = JobAs
  OBVIOUS
<1>3. PICK n : n = JobAs'
  OBVIOUS
<1>4. (\A t \in Trips : CredNow(t, h)) /\ Timely /\ job \in Sweep /\ SweepKnows /\ req' = req
  BY <1>1, <1>2, CredOfJob DEF CredInv, IInv, TypeOK, RulesInv, BeginJob, JobComplete, JobRevoke
<1>5. CASE BeginJob
  <2>1. ~Mender(h) /\ UNCHANGED <<trip, owner, due, members, cred>>
    BY <1>2, <1>5, IdleMends, IdleKnows DEF BeginJob, JobAs, rows
  <2>2. Timely' /\ \A t \in Trips : CredNow(t, n)'
    BY <1>4, <2>1, SameCred DEF Member
  <2>. QED BY <1>1, <1>3, <1>4, <2>2, CredOfJobNext
<1>6. CASE JobComplete
  <2>1. PICK t \in job.todo : /\ job.pc = "complete" /\ EndRows(t, "COMPLETED")
                              /\ job' = [pc |-> "revoke", t |-> t, todo |-> job.todo \ {t}]
    BY <1>6 DEF JobComplete
  <2>2. t \in Trips /\ trip[t] \in Open /\ "COMPLETED" \in Ended
    BY <1>4 DEF Sweep, SweepKnows, Open, Ended
  <2>3. ~Mender(h) /\ n.pc = "revokeAll" /\ n.t = t
    BY <1>2, <1>3, <2>1, IdleMends DEF JobAs, Idle
  <2>4. Timely' /\ \A s \in Trips : CredNow(s, n)'
    BY <1>4, <2>1, <2>2, <2>3, EndRowsCred
  <2>. QED BY <1>1, <1>3, <1>4, <2>4, CredOfJobNext
<1>7. CASE JobRevoke
  <2>1. job.pc = "revoke" /\ RevokeRows(job.t)
    BY <1>7 DEF JobRevoke
  <2>2. /\ job.t \in Trips /\ trip[job.t] \in Ended
        /\ h.pc = "revokeAll" /\ h.t = job.t
    BY <1>2, <1>4, <2>1 DEF IInv, JobGood, SweepKnows, JobAs, Idle
  <2>3. Timely' /\ \A s \in Trips : CredNow(s, n)'
    BY <1>4, <2>1, <2>2, RevokeRowsCred
  <2>. QED BY <1>1, <1>3, <1>4, <2>3, CredOfJobNext
<1>. QED BY <1>5, <1>6, <1>7

LEMMA StutterCred ==
  ASSUME CredInv, UNCHANGED vars
  PROVE  CredInv'
  BY DEF CredInv, vars, rows, Timely, CredOK, Valid, Issued, Member, Mends, Revokes, CanMend

LEMMA StepCred ==
  ASSUME IInv, RulesInv, CredInv, NEW r \in Requests, Step(r)
  PROVE  CredInv'
  BY CreateTripCred, EnsureCred, SideCredStep, IssueGroupCred, MemberCred, RevokeOneCred,
     ExtendCred, ExtendAllCred, EndCred DEF Step

LEMMA NextCred ==
  ASSUME IInv, RulesInv, CredInv, Serial, failures' = 0, [Next]_vars
  PROVE  CredInv'
<1>1. failures \in Nat
  BY TripAssumption DEF IInv, TypeOK
<1>2. ~FailJob /\ ~Restart /\ \A r \in Requests : ~FailRequest(r)
  BY <1>1 DEF FailJob, Restart, FailRequest, Fail
<1>. QED BY <1>2, BeginCred, StepCred, TickCred, JobCred, StutterCred DEF Next

-----------------------------------------------------------------------------
(* The theorems *)

LEMMA InitRules == Init => SerialInv
<1>. SUFFICES ASSUME Init PROVE SerialInv
  OBVIOUS
<1>1. RulesInv
  <2>1. Alone /\ SweepKnows /\ \A r \in Requests : Knows(req[r])
    BY IdleKnows DEF Init, Alone, SweepKnows
  <2>2. (\A t \in Trips : Tidy(t)) /\ (\A u \in Users : Single(u))
    BY DEF Init, Tidy, Single, CurrentTrips, Open, Ended
  <2>. QED BY <2>1, <2>2 DEF RulesInv
<1>2. CredInv
  <2>1. Timely /\ (\A t \in Trips : CredOK(t)) /\ \A r \in Requests : CanMend(req[r])
    BY IdleMends DEF Init, Timely, CredOK, Open, Ended
  <2>. QED BY <2>1 DEF CredInv
<1>. QED BY <1>1, <1>2 DEF SerialInv

LEMMA BeginServes ==
  ASSUME NEW r \in Requests, Begin(r)
  PROVE  \E n : Serve(r, n)
<1>1. ASSUME NEW pc, NEW t, NEW u, Start(r, pc, t, u) PROVE \E n : Serve(r, n)
  BY <1>1 DEF Start
<1>2. ASSUME NEW t, NEW to, BeginEnd(r, t, to) PROVE \E n : Serve(r, n)
  BY <1>2 DEF BeginEnd
<1>3. (\E pc, t, u : Start(r, pc, t, u)) \/ \E t, to : BeginEnd(r, t, to)
  BY DEF Begin, BeginCreateTrip, BeginEnsure, BeginJoin, BeginAsk, BeginApprove, BeginReject,
     BeginLeave, BeginConsent, BeginCreateGroup, BeginInvite, BeginUninvite, BeginLock, BeginStart,
     BeginExtend
<1>. QED BY <1>1, <1>2, <1>3

\* No step changes how requests are served, and failures are only counted up.
LEMMA Frame ==
  ASSUME Next
  PROVE  overlap' = overlap /\ failures' \in {failures, failures + 1}
<1>1. ASSUME NEW r \in Requests, Begin(r) PROVE UNCHANGED <<overlap, failures>>
  BY <1>1, BeginServes DEF Serve
<1>2. ASSUME NEW r \in Requests, Step(r) PROVE UNCHANGED <<overlap, failures>>
  BY <1>2 DEF Step, CreateTrip, EnsureIndividual, Consent, CreateGroup, IssueGroup, Invite, Join,
     Ask, Approve, Reject, RejectAll, Lock, Leave, RevokeOne, StartTrip, Extend, ExtendAll,
     EndTrip, RevokeAll, EndRows, RevokeRows, Fixed
<1>3. ASSUME NEW t \in Trips, Tick(t) PROVE UNCHANGED <<overlap, failures>>
  BY <1>3 DEF Tick, Fixed
<1>4. CASE BeginJob \/ JobComplete \/ JobRevoke
  BY <1>4 DEF BeginJob, JobComplete, JobRevoke, EndRows, RevokeRows
<1>5. CASE FailJob \/ Restart \/ \E r \in Requests : FailRequest(r)
  BY <1>5 DEF FailJob, FailRequest, Restart, Fail
<1>. QED BY <1>1, <1>2, <1>3, <1>4, <1>5 DEF Next

LEMMA NextSerial == IInv /\ SerialInv /\ [Next]_vars => SerialInv'
<1>. SUFFICES ASSUME IInv, SerialInv, [Next]_vars PROVE SerialInv'
  OBVIOUS
<1>1. overlap' = overlap /\ (failures' = 0 => failures = 0)
  BY Frame, TripAssumption DEF IInv, TypeOK, vars
<1>2. ASSUME Serial PROVE RulesInv' /\ (failures' = 0 => CredInv')
  BY <1>1, <1>2, NextRules, NextCred DEF SerialInv
<1>. QED BY <1>1, <1>2 DEF SerialInv, Serial

LEMMA SerialInvariance == Spec => [](IInv /\ SerialInv)
<1>1. Init => IInv /\ SerialInv
  BY InitEstablishes, InitRules
<1>2. (IInv /\ SerialInv) /\ [Next]_vars => (IInv /\ SerialInv)'
  BY NextKeeps, NextSerial
<1>. QED BY <1>1, <1>2, PTL DEF Spec

\* findCurrentTrip before every insert keeps a tourist off two open trips, also
\* where queries fail, as long as requests do not overlap.
THEOREM NobodyOnTwoTrips == Spec => []OneOpenTrip
<1>1. SerialInv => OneOpenTrip
  <2>. SUFFICES ASSUME RulesInv, NEW u \in Users PROVE Cardinality(CurrentTrips(u)) <= 1
    BY DEF SerialInv, OneOpenTrip
  <2>1. CASE CurrentTrips(u) = {}
    BY <2>1, FS_EmptySet
  <2>2. CASE CurrentTrips(u) # {}
    <3>1. PICK t : t \in CurrentTrips(u)
      BY <2>2
    <3>2. CurrentTrips(u) = {t}
      BY <3>1 DEF RulesInv, Single
    <3>. QED BY <3>2, FS_Singleton
  <2>. QED BY <2>1, <2>2
<1>. QED BY <1>1, SerialInvariance, PTL

\* rejectPendingJoinRequests runs before the lock, and nobody asks a locked group.
THEOREM NobodyWaits == Spec => []LockAnswersEverybody
<1>1. SerialInv => LockAnswersEverybody
  BY DEF SerialInv, RulesInv, Tidy, LockAnswersEverybody
<1>. QED BY <1>1, SerialInvariance, PTL

LEMMA AtRest ==
  ASSUME SerialInv, Calm
  PROVE  RulesInv /\ CredInv /\ job = Rest /\ \A r \in Requests : req[r] = Idle
  BY DEF SerialInv, Calm, Quiet

\* completeTrip, cancelTrip and the job leave nothing usable of a trip behind.
THEOREM TripIsOver == Spec => []NothingOutlivesTrip
<1>1. SerialInv => NothingOutlivesTrip
  BY AtRest, IdleKnows DEF NothingOutlivesTrip, RulesInv, Tidy, CredInv, CredOK, Revokes
<1>. QED BY <1>1, SerialInvariance, PTL

\* A credential is issued, renewed and revoked with the membership it stands for.
THEOREM CredentialsOfMembers == Spec => []CredentialFollowsMembership
<1>1. SerialInv => CredentialFollowsMembership
  BY AtRest, IdleMends DEF CredentialFollowsMembership, CredInv, CredOK, Valid, Mends
<1>. QED BY <1>1, SerialInvariance, PTL

-----------------------------------------------------------------------------
(* Every step keeps the rules of a trip, or does not concern them. *)

\* What the rulebook sees of a trip.
LEMMA SeenIs ==
  /\ Phase = [t \in Trips |-> IF trip[t] \in Ended THEN "ENDED" ELSE trip[t]]
  /\ Party = [t \in Trips |-> IF owner[t] = None THEN {} ELSE members[t] \cup {owner[t]}]
  BY DEF Phase, Party

LEMMA SeenThen ==
  /\ Phase' = [t \in Trips |-> IF trip'[t] \in Ended THEN "ENDED" ELSE trip'[t]]
  /\ Party' = [t \in Trips |-> IF owner'[t] = None THEN {} ELSE members'[t] \cup {owner'[t]}]
  BY DEF Phase, Party

LEMMA PartyAt ==
  ASSUME NEW t \in Trips
  PROVE  /\ Party[t] = IF owner[t] = None THEN {} ELSE members[t] \cup {owner[t]}
         /\ Party'[t] = IF owner'[t] = None THEN {} ELSE members'[t] \cup {owner'[t]}
  BY SeenIs, SeenThen

LEMMA OtherParty ==
  ASSUME NEW s \in Trips, owner'[s] = owner[s], members'[s] = members[s]
  PROVE  Party'[s] = Party[s]
  BY PartyAt

LEMMA PartyIs ==
  ASSUME NEW t \in Trips, NEW S, Party'[t] = S, \A s \in Trips : s # t => Party'[s] = Party[s]
  PROVE  Party' = [Party EXCEPT ![t] = S]
  BY SeenIs, SeenThen

\* TripRules counts as this module does.
LEMMA SameCount == \A S : Rulebook!Cardinality(S) = Cardinality(S)
  BY DEF Rulebook!Cardinality, Cardinality

LEMMA SamePhase ==
  ASSUME trip' = trip
  PROVE  Phase' = Phase
  BY SeenIs, SeenThen

LEMMA SameParty ==
  ASSUME UNCHANGED <<owner, members>>
  PROVE  Party' = Party
  BY SeenIs, SeenThen

LEMMA RulesStay ==
  ASSUME UNCHANGED <<overlap, trip, owner, locked>>, Party' = Party
  PROVE  UNCHANGED Rulebook!rvars
  BY SamePhase DEF Rulebook!rvars, Serial

\* The planner of a trip that exists is a tourist.
LEMMA LedTrip ==
  ASSUME IInv, NEW t \in Trips, trip[t] # "NONE"
  PROVE  owner[t] \in Users /\ owner[t] # None /\ Party[t] = members[t] \cup {owner[t]}
  BY TripAssumption, SeenIs DEF IInv, RowsOK, RowOK

\* findCurrentTrip and findOpenTripForUser see every open trip of the tourist.
LEMMA FreeIs ==
  ASSUME IInv, RulesInv, NEW u \in Users, CurrentTrips(u) = {}
  PROVE  Rulebook!Free(u)
<1>. SUFFICES ASSUME NEW t \in Trips, Phase[t] \in {"PLANNED", "ACTIVE"}, u \in Party[t] PROVE FALSE
  BY DEF Rulebook!Free, Rulebook!Open
<1>1. trip[t] \in Open
  BY SeenIs DEF Open, Ended
<1>2. owner[t] = u \/ u \in members[t]
  BY SeenIs
<1>3. u \in members[t] => group[t] = "ACTIVE"
  BY <1>1 DEF RulesInv, Tidy, IInv, TypeOK
<1>. QED BY <1>1, <1>2, <1>3 DEF CurrentTrips

LEMMA PlanStep ==
  ASSUME IInv, RulesInv, NEW r \in Requests, CreateTrip(r)
  PROVE  Rulebook!Rules
<1>1. PICK t, u : t = req[r].t /\ u = req[r].u
  OBVIOUS
<1>2. /\ trip' = [trip EXCEPT ![t] = "PLANNED"]
      /\ owner' = [owner EXCEPT ![t] = u]
      /\ UNCHANGED <<overlap, locked, members>>
      /\ req[r].pc = "createTrip"
  BY <1>1 DEF CreateTrip, At
<1>3. /\ t \in Trips /\ u \in Users /\ Tidy(t) /\ RowOK(t)
      /\ CurrentTrips(u) = {} /\ trip[t] = "NONE"
  BY <1>1, <1>2, Engaged DEF Knows, IInv, HandlersGood, Good
<1>4. members[t] = {} /\ u # None /\ Phase[t] = "NONE"
  BY <1>3, SeenIs, TripAssumption DEF Tidy, RowOK, Ended
<1>5. Phase' = [Phase EXCEPT ![t] = "PLANNED"]
  <2>1. \A s \in Trips : trip'[s] = IF s = t THEN "PLANNED" ELSE trip[s]
    BY <1>2 DEF IInv, TypeOK
  <2>. QED BY <1>3, <2>1, SeenIs, SeenThen DEF Ended
<1>6. Party' = [Party EXCEPT ![t] = {u}]
  <2>1. \A s \in Trips : owner'[s] = IF s = t THEN u ELSE owner[s]
    BY <1>2 DEF IInv, TypeOK
  <2>2. Party'[t] = {u}
    BY <1>2, <1>3, <1>4, <2>1, PartyAt
  <2>3. \A s \in Trips : s # t => Party'[s] = Party[s]
    BY <1>2, <2>1, OtherParty
  <2>. QED BY <1>3, <2>2, <2>3, PartyIs
<1>7. Rulebook!Plan(t, u)
  BY <1>2, <1>3, <1>4, <1>5, <1>6, FreeIs DEF Rulebook!Plan
<1>. QED BY <1>2, <1>3, <1>7 DEF Rulebook!Rules, Serial

LEMMA AdmitStep ==
  ASSUME IInv, RulesInv, NEW r \in Requests, Join(r) \/ Approve(r)
  PROVE  Rulebook!Rules
<1>1. PICK t, u : t = req[r].t /\ u = req[r].u
  OBVIOUS
<1>2. /\ req[r].pc \in {"join", "approve"}
      /\ members' = [members EXCEPT ![t] = members[t] \cup {u}]
      /\ UNCHANGED <<overlap, trip, owner, locked>>
  BY <1>1 DEF Join, Approve, At, Fixed
<1>3. t \in Trips /\ u \in Users /\ Tidy(t) /\ MayJoin(t, u)
  BY <1>1, <1>2, Engaged DEF Knows
<1>4. /\ trip[t] = "PLANNED" /\ ~locked[t] /\ group[t] = "ACTIVE" /\ CurrentTrips(u) = {}
      /\ t \in GroupTrips
  BY <1>3 DEF MayJoin, MembershipOpen, Tidy
<1>5. owner[t] # None /\ Phase[t] = "PLANNED"
  BY <1>3, <1>4, LedTrip, SeenIs DEF Ended
<1>6. Party' = [Party EXCEPT ![t] = Party[t] \cup {u}]
  <2>1. \A s \in Trips : members'[s] = IF s = t THEN members[s] \cup {u} ELSE members[s]
    BY <1>2 DEF IInv, TypeOK
  <2>2. Party'[t] = Party[t] \cup {u}
    <3>1. Party[t] = members[t] \cup {owner[t]} /\ Party'[t] = members'[t] \cup {owner[t]}
      BY <1>2, <1>3, <1>5, PartyAt
    <3>2. members'[t] = members[t] \cup {u}
      BY <1>3, <2>1
    <3>. QED BY <1>3, <3>1, <3>2
  <2>3. \A s \in Trips : s # t => Party'[s] = Party[s]
    BY <1>2, <2>1, OtherParty
  <2>. QED BY <1>3, <2>2, <2>3, PartyIs
<1>7. Rulebook!Admit(t, u)
  BY <1>2, <1>3, <1>4, <1>5, <1>6, FreeIs, SamePhase DEF Rulebook!Admit
<1>. QED BY <1>2, <1>3, <1>7 DEF Rulebook!Rules, Serial

LEMMA PartStep ==
  ASSUME IInv, RulesInv, NEW r \in Requests, Leave(r)
  PROVE  Rulebook!Rules
<1>1. PICK t, u : t = req[r].t /\ u = req[r].u
  OBVIOUS
<1>2. /\ req[r].pc = "leave"
      /\ members' = [members EXCEPT ![t] = members[t] \ {u}]
      /\ UNCHANGED <<overlap, trip, owner, locked>>
  BY <1>1 DEF Leave, At, Fixed
<1>3. t \in Trips /\ u \in Users /\ trip[t] \in Open /\ u \in members[t] /\ u # owner[t]
  BY <1>1, <1>2, Engaged DEF Knows, GroupOpen, IInv, HandlersGood, Good
<1>4. owner[t] # None /\ Phase[t] \in {"PLANNED", "ACTIVE"} /\ u \in Party[t]
  BY <1>3, LedTrip, SeenIs DEF Open, Ended
<1>5. Party' = [Party EXCEPT ![t] = Party[t] \ {u}]
  <2>1. \A s \in Trips : members'[s] = IF s = t THEN members[s] \ {u} ELSE members[s]
    BY <1>2 DEF IInv, TypeOK
  <2>2. Party'[t] = Party[t] \ {u}
    <3>1. Party[t] = members[t] \cup {owner[t]} /\ Party'[t] = members'[t] \cup {owner[t]}
      BY <1>2, <1>3, <1>4, PartyAt
    <3>2. members'[t] = members[t] \ {u}
      BY <1>3, <2>1
    <3>. QED BY <1>3, <3>1, <3>2
  <2>3. \A s \in Trips : s # t => Party'[s] = Party[s]
    BY <1>2, <2>1, OtherParty
  <2>. QED BY <1>3, <2>2, <2>3, PartyIs
<1>6. Rulebook!Part(t, u)
  BY <1>2, <1>3, <1>4, <1>5, SamePhase DEF Rulebook!Part, Rulebook!Open
<1>. QED BY <1>2, <1>3, <1>6 DEF Rulebook!Rules, Serial

LEMMA SealStep ==
  ASSUME IInv, RulesInv, NEW r \in Requests, Lock(r)
  PROVE  Rulebook!Rules
<1>1. PICK t : t = req[r].t
  OBVIOUS
<1>2. /\ req[r].pc = "lock"
      /\ locked' = [locked EXCEPT ![t] = TRUE]
      /\ UNCHANGED <<overlap, trip, owner, members>>
  BY <1>1 DEF Lock, At, Fixed
<1>3. t \in Trips /\ trip[t] = "PLANNED" /\ group[t] # "NONE" /\ Cardinality(members[t]) >= 2
  BY <1>1, <1>2, Engaged DEF Knows, IInv, HandlersGood, Good
<1>4. Phase[t] = "PLANNED" /\ Party[t] = members[t]
  <2>1. owner[t] \in members[t]
    BY <1>3 DEF IInv, GroupKeepsLeader
  <2>. QED BY <1>3, <2>1, LedTrip, SeenIs DEF Ended
<1>5. {s \in Trips : locked'[s]} = {s \in Trips : locked[s]} \cup {t}
  BY <1>2, <1>3 DEF IInv, TypeOK
<1>6. Rulebook!Seal(t)
  BY <1>2, <1>3, <1>4, <1>5, SamePhase, SameParty, SameCount DEF Rulebook!Seal
<1>. QED BY <1>2, <1>3, <1>6 DEF Rulebook!Rules, Serial

\* The party that was complete and locked when the handler began still is.
LEMMA BeginStep ==
  ASSUME IInv, RulesInv, NEW r \in Requests, StartTrip(r)
  PROVE  Rulebook!Rules
<1>1. PICK t : t = req[r].t
  OBVIOUS
<1>2. /\ req[r].pc = "start"
      /\ trip' = [trip EXCEPT ![t] = "ACTIVE"]
      /\ UNCHANGED <<overlap, owner, members, locked>>
  BY <1>1 DEF StartTrip, At, Fixed
<1>3. /\ t \in Trips /\ trip[t] = "PLANNED" /\ RowOK(t)
      /\ t \in GroupTrips => locked[t] /\ Cardinality(members[t]) >= 2
  BY <1>1, <1>2, Engaged DEF Knows, IInv, HandlersGood, Good
<1>4. Phase[t] = "PLANNED" /\ (t \in GroupTrips => Party[t] = members[t])
  <2>1. t \in GroupTrips => owner[t] \in members[t]
    BY <1>3 DEF IInv, GroupKeepsLeader, RowOK
  <2>. QED BY <1>3, <2>1, LedTrip, SeenIs DEF Ended
<1>5. Phase' = [Phase EXCEPT ![t] = "ACTIVE"]
  <2>1. \A s \in Trips : trip'[s] = IF s = t THEN "ACTIVE" ELSE trip[s]
    BY <1>2 DEF IInv, TypeOK
  <2>. QED BY <1>3, <2>1, SeenIs, SeenThen DEF Ended
<1>6. Rulebook!Begin(t)
  BY <1>2, <1>3, <1>4, <1>5, SameParty, SameCount DEF Rulebook!Begin
<1>. QED BY <1>2, <1>3, <1>6 DEF Rulebook!Rules, Serial

\* From a request and from the job.
LEMMA EndStep ==
  ASSUME IInv, NEW t \in Trips, trip[t] \in Open, NEW to \in Ended, EndRows(t, to)
  PROVE  Rulebook!Rules
<1>1. /\ trip' = [trip EXCEPT ![t] = to]
      /\ UNCHANGED <<overlap, owner, members, locked>>
  BY DEF EndRows
<1>2. Phase[t] \in {"PLANNED", "ACTIVE"}
  BY SeenIs DEF Open, Ended
<1>3. Phase' = [Phase EXCEPT ![t] = "ENDED"]
  <2>1. \A s \in Trips : trip'[s] = IF s = t THEN to ELSE trip[s]
    BY <1>1 DEF IInv, TypeOK
  <2>. QED BY <2>1, SeenIs, SeenThen
<1>4. Rulebook!End(t)
  BY <1>1, <1>2, <1>3, SameParty DEF Rulebook!End, Rulebook!Open
<1>. QED BY <1>1, <1>4 DEF Rulebook!Rules, Serial

\* The leader is on the trip before the group is.
LEMMA GroupStays ==
  ASSUME IInv, RulesInv, NEW r \in Requests, CreateGroup(r)
  PROVE  UNCHANGED Rulebook!rvars
<1>1. PICK t : t = req[r].t
  OBVIOUS
<1>2. UNCHANGED <<overlap, trip, owner, locked>>
  BY DEF CreateGroup, Fixed
<1>3. t \in Trips /\ Tidy(t) /\ trip[t] = "PLANNED"
  BY <1>1, Engaged DEF CreateGroup, At, Knows
<1>4. CASE members' = members
  BY <1>2, <1>4, SameParty, RulesStay
<1>5. CASE group[t] = "NONE" /\ members' = [members EXCEPT ![t] = {owner[t]}]
  <2>1. /\ members[t] = {}
        /\ \A s \in Trips : members'[s] = IF s = t THEN {owner[t]} ELSE members[s]
    BY <1>3, <1>5 DEF Tidy, IInv, TypeOK
  <2>2. Party' = Party
    BY <1>2, <2>1, SeenIs, SeenThen
  <2>. QED BY <1>2, <2>2, RulesStay
<1>. QED BY <1>1, <1>4, <1>5 DEF CreateGroup

LEMMA StepKeepsRules ==
  ASSUME IInv, RulesInv, NEW r \in Requests, Step(r)
  PROVE  Rulebook!Rules \/ UNCHANGED Rulebook!rvars
<1>1. CASE EndTrip(r)
  <2>1. req[r].t \in Trips /\ trip[req[r].t] \in Open /\ req[r].to \in Ended
    BY <1>1, Engaged DEF EndTrip, At, Knows, IInv, HandlersGood, Good
  <2>. QED BY <1>1, <2>1, EndStep DEF EndTrip
<1>2. CASE \/ EnsureIndividual(r) \/ Consent(r) \/ IssueGroup(r) \/ Invite(r) \/ Ask(r) \/ Reject(r)
           \/ RejectAll(r) \/ RevokeOne(r) \/ Extend(r) \/ ExtendAll(r) \/ RevokeAll(r)
  <2>1. UNCHANGED <<overlap, trip, owner, members, locked>>
    BY <1>2 DEF EnsureIndividual, Consent, IssueGroup, Invite, Ask, Reject, RejectAll, RevokeOne,
                Extend, ExtendAll, RevokeAll, RevokeRows, Fixed
  <2>. QED BY <2>1, SameParty, RulesStay
<1>. QED BY <1>1, <1>2, PlanStep, AdmitStep, PartStep, SealStep, BeginStep, GroupStays DEF Step

LEMMA NextKeepsRules ==
  ASSUME IInv, SerialInv, [Next]_vars, Serial
  PROVE  Rulebook!Rules \/ UNCHANGED Rulebook!rvars
<1>1. RulesInv
  BY DEF SerialInv
<1>2. ASSUME NEW r \in Requests, Begin(r)
      PROVE  UNCHANGED <<overlap, trip, owner, members, locked>>
  BY <1>2, BeginServes DEF Serve, rows
<1>3. CASE BeginJob \/ JobRevoke \/ FailJob \/ Restart \/ \E r \in Requests : FailRequest(r)
  <2>1. UNCHANGED <<overlap, trip, owner, members, locked>>
    BY <1>3 DEF BeginJob, JobRevoke, RevokeRows, FailJob, Restart, FailRequest, rows
  <2>. QED BY <2>1, SameParty, RulesStay
<1>4. ASSUME NEW t \in Trips, Tick(t) PROVE UNCHANGED <<overlap, trip, owner, members, locked>>
  BY <1>4 DEF Tick, Fixed
<1>5. CASE JobComplete
  <2>1. PICK t \in job.todo : EndRows(t, "COMPLETED")
    BY <1>5 DEF JobComplete
  <2>2. t \in Trips /\ trip[t] \in Open /\ "COMPLETED" \in Ended
    BY <1>1, <2>1 DEF IInv, TypeOK, Sweep, RulesInv, SweepKnows, Open, Ended
  <2>. QED BY <2>1, <2>2, EndStep
<1>6. CASE UNCHANGED vars
  BY <1>6, SameParty, RulesStay DEF vars, rows
<1>. QED BY <1>1, <1>2, <1>3, <1>4, <1>5, <1>6, StepKeepsRules, SameParty, RulesStay DEF Next

\* Served one at a time, whatever fails, the rows of trips and groups follow the rules
\* of TripRules: planTrip, joinGroup, leaveGroup, lockGroup, startTrip and the ways a
\* trip ends are its steps, and no other handler or tick of the job is visible there.
THEOREM RowsKeepRules == Spec => KeepsRules
<1>1. Init => Rulebook!Init
  <2>. SUFFICES ASSUME Init PROVE Rulebook!Init
    OBVIOUS
  <2>1. Phase = [t \in Trips |-> "NONE"]
    BY SeenIs DEF Init, Ended
  <2>2. Party = [t \in Trips |-> {}]
    BY SeenIs DEF Init
  <2>. QED BY <2>1, <2>2 DEF Init, Serial, Rulebook!Init
<1>2. (IInv /\ SerialInv) /\ [Next]_vars => [Serial => Rulebook!Rules]_(Rulebook!rvars)
  BY NextKeepsRules
<1>. QED BY <1>1, <1>2, SerialInvariance, PTL DEF Spec, KeepsRules, Rulebook!Spec
=============================================================================
