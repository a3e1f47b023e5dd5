-------------------------- MODULE SafetyChecksProofs --------------------------
(***************************************************************************)
(* TypeOK, EscalatedHasIncident and EscalationEarned for any number of     *)
(* cases, alerts, overlapping requests and failures.                       *)
(*                                                                         *)
(* Neither of the two is inductive: whether an incident is earned was      *)
(* decided some awaits before it is written.  Good says what a handler     *)
(* still knows when it goes on.  It speaks only of what no step undoes:    *)
(* grounds once given stay, rows once inserted stay and keep their case    *)
(* (Grows), so that it survives the steps of all the others (Carry).       *)
(***************************************************************************)
EXTENDS SafetyChecks, TLAPS

\* The alert a was raised for the case c.
Linked(a, c) == a \in Checked /\ alert[a] # "NONE" /\ caseOf[a] = c

\* What a handler that remembers h may count on, whatever ran since it began.
Good(h) ==
    /\ h.pc \in {"clearAlerts", "falseAlarm", "confirm"} => kind = "MEMBER" /\ h.c \in Cases
    /\ h.pc \in {"findAlert", "createAlert"} => kind = "MEMBER" /\ h.c \in Cases /\ h.c \in grounds
    /\ h.pc \in {"findIncident", "createIncident"} =>
         /\ kind = "MEMBER" => h.c \in Cases /\ h.c \in grounds /\ Linked(h.a, h.c)
         /\ kind # "MEMBER" => h.c = 0 /\ h.a \in Checked /\ h.a \in grounds
    /\ h.pc = "escalate" => h.c \in Cases /\ Linked(h.a, h.c) /\ inc[h.a] # "NONE"
    /\ h.pc \in {"prompt", "ask", "linked", "tell", "clear", "safe", "help"} => kind # "MEMBER"
    /\ h.pc \in {"linked", "tell", "help"} => h.a \in Checked /\ h.c = 0
    /\ h.pc = "tell" \/ (h.pc = "linked" /\ h.lost) => h.a \in grounds
    /\ h.told /\ kind # "MEMBER" => h.a \in grounds
    /\ h.pc \in {"resolveAlert", "acknowledge"} => alert[h.a] # "NONE"
    /\ h.pc = "staff" => inc[h.a] # "NONE" /\ h.to \in {"OPEN", "RESOLVED", "DISMISSED"}
    /\ h.pc = "evaluate" => h.to \in {"OPEN", "RESOLVED"}
    /\ \A a \in h.make : alert[a] # "NONE" /\ (a # Gap => CheckOf(a) \in grounds)
    /\ h.pc = "sync" => \A a \in h.shut : inc[a] # "NONE"

RowTypes ==
    /\ kind \in Kinds
    /\ overlap \in BOOLEAN
    /\ trip \in {"ACTIVE", "ENDED"}
    /\ place \in {"FINE", "LOST", "UNKNOWN"}
    /\ cse \in [Cases -> {"NONE", "WAITING", "ESCALATED", "FALSE_ALARM", "RESOLVED"}]
    /\ again \in [Cases -> {"LATER", "NOW", "NEVER"}]
    /\ alert \in [Alerts -> {"NONE", "OPEN", "RESOLVED"}]
    /\ caseOf \in [Checked -> {0} \cup Cases]
    /\ asked \in [Checked -> BOOLEAN]
    /\ told \in [Checked -> BOOLEAN]
    /\ inc \in [Alerts -> {"NONE", "OPEN", "RESOLVED", "DISMISSED"}]
    /\ late \subseteq Checked
    /\ grounds \subseteq Checked
    /\ failures \in 0..MaxFailures

RowsOK ==
    /\ late \subseteq grounds
    /\ kind = "MEMBER" => \A a \in Checked : alert[a] # "NONE" => caseOf[a] \in grounds
    /\ \A a \in Checked : told[a] => a \in grounds
    /\ EscalationEarned
    /\ EscalatedHasIncident

HandlersGood == \A p \in Actors : Good(at[p])

IInv ==
    /\ RowTypes
    /\ at \in [Actors -> Handler]
    /\ RowsOK
    /\ HandlersGood

\* What no step undoes.
Grows ==
    /\ kind' = kind
    /\ grounds \subseteq grounds'
    /\ \A a \in Alerts : alert[a] # "NONE" => alert'[a] # "NONE"
    /\ \A a \in Alerts : inc[a] # "NONE" => inc'[a] # "NONE"
    /\ \A a \in Checked : alert[a] # "NONE" => caseOf'[a] = caseOf[a]

\* What a step must see to, besides, when it writes.
Earns ==
    /\ late' \subseteq grounds'
    /\ kind = "MEMBER" => \A a \in Checked :
          alert'[a] # "NONE" => alert[a] # "NONE" \/ caseOf'[a] \in grounds'
    /\ \A a \in Checked : caseOf'[a] = caseOf[a] \/ (kind = "MEMBER" /\ caseOf'[a] \in grounds')
    /\ \A a \in Checked : told'[a] => a \in grounds'
    /\ \A a \in Checked : inc'[a] # "NONE" => inc[a] # "NONE" \/ CheckOf(a) \in grounds
    /\ \A c \in Cases : cse'[c] = "ESCALATED" =>
          cse[c] = "ESCALATED" \/ \E a \in Checked : Linked(a, c) /\ inc[a] # "NONE"

Written == RowTypes' /\ Grows /\ Earns

LEMMA CasesAreChecked == /\ Cases \subseteq Checked
                         /\ 0 \notin Checked
                         /\ Checked \subseteq Alerts
                         /\ Alerts \ {Gap} = Checked
                         /\ Gap = 0
  BY CheckAssumption DEF Cases, Checked, Alerts, Gap

LEMMA RowsStay ==
  ASSUME IInv, Written
  PROVE  RowsOK'
<1>1. (late \subseteq grounds)'
  BY DEF Written, Earns
<1>2. (kind = "MEMBER" => \A a \in Checked : alert[a] # "NONE" => caseOf[a] \in grounds)'
  BY DEF IInv, RowsOK, Written, Earns, Grows
<1>3. (\A a \in Checked : told[a] => a \in grounds)'
  BY DEF Written, Earns
<1>4. EscalationEarned'
  <2>. SUFFICES ASSUME NEW a \in Checked, inc'[a] # "NONE" PROVE CheckOf(a)' \in grounds'
    BY DEF EscalationEarned
  <2>1. CheckOf(a) \in grounds
    BY DEF IInv, RowsOK, EscalationEarned, Written, Earns
  <2>. QED BY <2>1 DEF CheckOf, Written, Earns, Grows
<1>5. EscalatedHasIncident'
  <2>. SUFFICES ASSUME NEW c \in Cases, cse'[c] = "ESCALATED"
                PROVE  \E a \in Checked : alert'[a] # "NONE" /\ caseOf'[a] = c /\ inc'[a] # "NONE"
    BY DEF EscalatedHasIncident
  <2>1. \E a \in Checked : alert[a] # "NONE" /\ caseOf[a] = c /\ inc[a] # "NONE"
    BY DEF IInv, RowsOK, EscalatedHasIncident, Written, Earns, Linked
  <2>. QED BY <2>1, CasesAreChecked DEF Written, Grows
<1>. QED BY <1>1, <1>2, <1>3, <1>4, <1>5 DEF RowsOK

\* What a handler knows survives the steps of the others.
LEMMA Carry ==
  ASSUME IInv, Grows, NEW h \in Handler, Good(h)
  PROVE  Good(h)'
<1>1. \A c : \A a \in Checked : Linked(a, c) => Linked(a, c)'
  BY CasesAreChecked DEF Linked, Grows
<1>2. \A a \in h.make : (alert[a] # "NONE" /\ (a # Gap => CheckOf(a) \in grounds))'
  BY CasesAreChecked DEF Good, Grows, CheckOf, Handler
<1>3. h.a \in Alerts /\ h.shut \subseteq Alerts
  BY DEF Handler
<1>4. h.pc \in {"findIncident", "createIncident"} =>
         /\ kind' = "MEMBER" => h.c \in Cases /\ h.c \in grounds' /\ Linked(h.a, h.c)'
         /\ kind' # "MEMBER" => h.c = 0 /\ h.a \in Checked /\ h.a \in grounds'
  BY <1>1 DEF Good, Grows, Linked
<1>5. h.pc = "escalate" => h.c \in Cases /\ Linked(h.a, h.c)' /\ inc'[h.a] # "NONE"
  BY <1>1, <1>3 DEF Good, Grows, Linked
<1>. QED BY <1>2, <1>3, <1>4, <1>5 DEF Good, Grows

\* One handler goes on to remember h.
LEMMA HandlerStep ==
  ASSUME IInv, Written, NEW p \in Actors, NEW h \in Handler,
         at' = [at EXCEPT ![p] = h], Good(h)'
  PROVE  IInv'
<1>1. at' \in [Actors -> Handler]
  BY DEF IInv
<1>2. HandlersGood'
  <2>. SUFFICES ASSUME NEW q \in Actors PROVE Good(at[q])'
    BY DEF HandlersGood
  <2>1. CASE q = p
    <3>1. at'[q] = h
      BY <2>1 DEF IInv
    <3>. QED BY <3>1 DEF Good, CheckOf, Linked
  <2>2. CASE q # p
    <3>1. PICK k \in Handler : k = at[q]
      BY DEF IInv
    <3>2. Good(k)
      BY <3>1 DEF IInv, HandlersGood
    <3>3. Good(k)'
      BY <3>2, Carry DEF Written
    <3>4. at'[q] = k
      BY <2>2, <3>1 DEF IInv
    <3>. QED BY <3>3, <3>4 DEF Good, CheckOf, Linked
  <2>. QED BY <2>1, <2>2
<1>. QED BY <1>1, <1>2, RowsStay DEF IInv, Written

LEMMA IdleGood ==
  /\ Idle \in Handler
  /\ \A h : h = Idle => Good(h)'
  /\ \A h : h = Idle => Good(h)
<1>1. Idle \in Handler
  BY DEF Idle, Handler, Places, Alerts, Gap
<1>2. ASSUME NEW h, h = Idle PROVE Good(h)
  BY <1>2 DEF Good, Idle
<1>3. ASSUME NEW h, h = Idle PROVE Good(h)'
  BY <1>3 DEF Good, Idle
<1>. QED BY <1>1, <1>2, <1>3

LEMMA FinishStep ==
  ASSUME IInv, Written, NEW p \in Actors, Finish(p)
  PROVE  IInv'
<1>1. PICK h \in Handler : h = Idle
  BY IdleGood
<1>2. at' = [at EXCEPT ![p] = h]
  BY <1>1 DEF Finish
<1>. QED BY <1>1, <1>2, IdleGood, HandlerStep

\* No handler moves.
LEMMA WorldStep ==
  ASSUME IInv, Written, UNCHANGED at
  PROVE  IInv'
<1>1. HandlersGood'
  <2>. SUFFICES ASSUME NEW q \in Actors PROVE Good(at[q])'
    BY DEF HandlersGood
  <2>1. PICK k \in Handler : k = at[q]
    BY DEF IInv
  <2>2. Good(k)'
    BY <2>1, Carry DEF Written, IInv, HandlersGood
  <2>. QED BY <2>1, <2>2 DEF Good, CheckOf, Linked
<1>. QED BY <1>1, RowsStay DEF IInv, Written

LEMMA UnwrittenRows ==
  ASSUME IInv, UNCHANGED <<kind, overlap, rows>>, failures' \in 0..MaxFailures
  PROVE  Written
<1>1. RowTypes'
  BY DEF IInv, RowTypes, rows
<1>2. Grows
  BY DEF Grows, rows
<1>3. Earns
  BY DEF Earns, IInv, RowsOK, rows
<1>. QED BY <1>1, <1>2, <1>3 DEF Written

\* A step that only reads.
LEMMA ReadStep ==
  ASSUME IInv, Unwritten, NEW p \in Actors, NEW h \in Handler,
         at' = [at EXCEPT ![p] = h], Good(h)
  PROVE  IInv'
<1>1. Written
  BY UnwrittenRows DEF Unwritten, Fixed, IInv, RowTypes
<1>2. Good(h)'
  BY <1>1, Carry DEF Written
<1>. QED BY <1>1, <1>2, HandlerStep

LEMMA BeginStep ==
  ASSUME IInv, NEW p \in Actors, NEW h \in Handler, Begin(p, h), Good(h)
  PROVE  IInv'
  BY ReadStep DEF Begin, Unwritten, Fixed

LEMMA ReadAndFinish ==
  ASSUME IInv, Unwritten, NEW p \in Actors, Finish(p)
  PROVE  IInv'
<1>1. Written
  BY UnwrittenRows DEF Unwritten, Fixed, IInv, RowTypes
<1>. QED BY <1>1, FinishStep

\* The program counter moves, the rest of the memory stays.
Same(h, g) == /\ h.c = g.c /\ h.a = g.a /\ h.to = g.to /\ h.lost = g.lost
              /\ h.asked = g.asked /\ h.told = g.told /\ h.make = g.make /\ h.shut = g.shut

LEMMA SetPlace ==
  ASSUME NEW g \in Handler, NEW pc \in Places
  PROVE  \E h \in Handler : h = [g EXCEPT !.pc = pc] /\ h.pc = pc /\ Same(h, g)
<1>. DEFINE h == [g EXCEPT !.pc = pc]
<1>1. h \in Handler
  BY DEF Handler
<1>2. h.pc = pc /\ Same(h, g)
  BY DEF Handler, Same
<1>. HIDE DEF h
<1>3. WITNESS h \in Handler
<1>. QED BY <1>2 DEF h

LEMMA GotoStep ==
  ASSUME IInv, Written, NEW p \in Actors, NEW pc \in Places, Goto(p, pc),
         NEW g \in Handler, g = at[p],
         \A h \in Handler : (h.pc = pc /\ Same(h, g)) => Good(h)'
  PROVE  IInv'
<1>1. PICK h \in Handler : h = [g EXCEPT !.pc = pc] /\ h.pc = pc /\ Same(h, g)
  BY SetPlace
<1>2. at' = [at EXCEPT ![p] = h]
  BY <1>1 DEF Goto
<1>. QED BY <1>1, <1>2, HandlerStep

LEMMA ReadAndGoto ==
  ASSUME IInv, Unwritten, NEW p \in Actors, NEW pc \in Places, Goto(p, pc),
         NEW g \in Handler, g = at[p],
         \A h \in Handler : (h.pc = pc /\ Same(h, g)) => Good(h)
  PROVE  IInv'
<1>1. PICK h \in Handler : h = [g EXCEPT !.pc = pc] /\ h.pc = pc /\ Same(h, g)
  BY SetPlace
<1>2. at' = [at EXCEPT ![p] = h]
  BY <1>1 DEF Goto
<1>. QED BY <1>1, <1>2, ReadStep

\* What any handler knows, wherever it goes on.
LEMMA Kept ==
  ASSUME IInv, Grows, NEW g \in Handler, Good(g), NEW h \in Handler, Same(h, g)
  PROVE  /\ (\A a \in h.make : alert[a] # "NONE" /\ (a # Gap => CheckOf(a) \in grounds))'
         /\ (h.told /\ kind # "MEMBER" => h.a \in grounds)'
<1>1. Good(g)'
  BY Carry
<1>. QED BY <1>1 DEF Good, Same

LEMMA Held ==
  ASSUME IInv, NEW p \in Actors
  PROVE  \E g \in Handler : g = at[p] /\ Good(g)
  BY DEF IInv, HandlersGood

LEMMA WhoActs == Sweeper \in Actors /\ Desk \in Actors /\ Lifecycle \in Actors /\ Requests \subseteq Actors
  BY DEF Actors

LEMMA InitEstablishes == Init => IInv
<1>. SUFFICES ASSUME Init PROVE IInv
  OBVIOUS
<1>1. RowTypes
  <2>1. failures \in 0..MaxFailures
    BY CheckAssumption DEF Init
  <2>. QED BY <2>1, CasesAreChecked DEF Init, RowTypes
<1>2. at \in [Actors -> Handler]
  BY IdleGood DEF Init
<1>3. RowsOK
  BY CasesAreChecked DEF Init, RowsOK, EscalationEarned, EscalatedHasIncident
<1>4. HandlersGood
  BY IdleGood DEF Init, HandlersGood
<1>. QED BY <1>1, <1>2, <1>3, <1>4 DEF IInv
-----------------------------------------------------------------------------
(* The world *)

LEMMA MoveKeeps ==
  ASSUME IInv, Move
  PROVE  IInv'
<1>1. Written
  <2>1. RowTypes'
    BY DEF IInv, RowTypes, Move, WhereTo, Fixed
  <2>2. Grows
    BY DEF IInv, RowTypes, Grows, Move, Fixed
  <2>3. Earns
    BY DEF IInv, RowTypes, RowsOK, Earns, Move, Fixed
  <2>. QED BY <2>1, <2>2, <2>3 DEF Written
<1>. QED BY <1>1, WorldStep DEF Move

LEMMA DeadlineKeeps ==
  ASSUME IInv, NEW k \in Checked, Deadline(k)
  PROVE  IInv'
<1>1. Written
  <2>1. RowTypes'
    BY DEF IInv, RowTypes, Deadline, Fixed
  <2>2. Grows
    BY DEF IInv, RowTypes, Grows, Deadline, Fixed
  <2>3. Earns
    BY DEF IInv, RowTypes, RowsOK, Earns, Deadline, Fixed
  <2>. QED BY <2>1, <2>2, <2>3 DEF Written
<1>. QED BY <1>1, WorldStep DEF Deadline

LEMMA RecheckKeeps ==
  ASSUME IInv, NEW c \in Cases, Recheck(c)
  PROVE  IInv'
<1>1. Written
  <2>1. RowTypes'
    BY DEF IInv, RowTypes, Recheck, Fixed
  <2>2. Grows
    BY DEF IInv, RowTypes, Grows, Recheck, Fixed
  <2>3. Earns
    BY DEF IInv, RowTypes, RowsOK, Earns, Recheck, Fixed
  <2>. QED BY <2>1, <2>2, <2>3 DEF Written
<1>. QED BY <1>1, WorldStep DEF Recheck

-----------------------------------------------------------------------------
(* The sweep *)

LEMMA BeginSweepKeeps ==
  ASSUME IInv, BeginSweep
  PROVE  IInv'
<1>1. PICK h : h = [Idle EXCEPT !.pc = "look", !.lost = (place = "LOST")]
  OBVIOUS
<1>2. h \in Handler
  <2>1. "look" \in Places /\ (place = "LOST") \in BOOLEAN
    BY DEF IInv, RowTypes, Places
  <2>. QED BY <1>1, <2>1, IdleGood DEF Handler
<1>3. Good(h)
  BY <1>1 DEF Good, Idle
<1>. QED BY <1>1, <1>2, <1>3, BeginStep, WhoActs DEF BeginSweep

LEMMA LookForStep ==
  ASSUME IInv, At(Sweeper, "look"),
         NEW pc \in {"openCase", "findAlert", "askAgain", "resolveCase", "prompt", "ask", "linked"},
         NEW c \in {0} \cup Cases, NEW a \in Alerts, LookFor(pc, c, a),
         pc = "findAlert" => kind = "MEMBER" /\ c \in Cases /\ c \in grounds,
         pc \in {"prompt", "ask", "linked"} => kind # "MEMBER",
         pc = "linked" => a \in Checked /\ c = 0 /\ (at[Sweeper].lost => a \in grounds)
  PROVE  IInv'
<1>. DEFINE ask == IF a = 0 THEN FALSE ELSE asked[a]
            tell == IF a = 0 THEN FALSE ELSE told[a]
<1>1. PICK g \in Handler : g = at[Sweeper] /\ Good(g)
  BY Held, WhoActs
<1>2. ask \in BOOLEAN /\ tell \in BOOLEAN /\ (tell => a \in grounds)
  BY CasesAreChecked DEF IInv, RowTypes, RowsOK
<1>3. at' = [at EXCEPT ![Sweeper] = [g EXCEPT !.pc = pc, !.c = c, !.a = a, !.asked = ask, !.told = tell]]
  BY <1>1, WhoActs DEF LookFor, IInv
<1>. HIDE DEF ask, tell
<1>. DEFINE h == [g EXCEPT !.pc = pc, !.c = c, !.a = a, !.asked = ask, !.told = tell]
<1>4. h \in Handler
  <2>1. pc \in Places
    BY DEF Places
  <2>. QED BY <1>2, <2>1 DEF Handler
<1>5. /\ h.pc = pc /\ h.c = c /\ h.a = a /\ h.told = tell /\ h.lost = g.lost
      /\ h.make = g.make /\ h.shut = g.shut
  BY DEF Handler
<1>. HIDE DEF h
<1>6. Good(h)
  BY <1>1, <1>2, <1>5 DEF Good
<1>. QED BY <1>3, <1>4, <1>6, ReadStep, WhoActs DEF LookFor, h

LEMMA LookAtCaseKeeps ==
  ASSUME IInv, LookAtCase
  PROVE  IInv'
<1>1. 0 \in Alerts /\ kind = "MEMBER" /\ At(Sweeper, "look")
  BY CasesAreChecked DEF LookAtCase, Alerts
<1>2. CASE LookFor("openCase", 0, 0)
  BY <1>1, <1>2, LookForStep
<1>3. ASSUME NEW c \in Cases, NEW pc, pc = IF at[Sweeper].lost THEN DueCase(c) ELSE "resolveCase",
             pc # "idle", LookFor(pc, c, 0)
      PROVE  IInv'
  <2>1. pc \in {"findAlert", "askAgain", "resolveCase"}
    BY <1>3 DEF DueCase
  <2>2. pc = "findAlert" => c \in grounds
    BY <1>3 DEF DueCase, IInv, RowsOK
  <2>. QED BY <1>1, <1>3, <2>1, <2>2, LookForStep
<1>4. CASE Finish(Sweeper) /\ Unwritten
  BY <1>4, ReadAndFinish, WhoActs
<1>. QED BY <1>2, <1>3, <1>4 DEF LookAtCase

LEMMA LookAtAlertKeeps ==
  ASSUME IInv, LookAtAlert
  PROVE  IInv'
<1>1. 0 \in Alerts /\ kind # "MEMBER" /\ At(Sweeper, "look")
  BY CasesAreChecked DEF LookAtAlert, Alerts
<1>2. CASE LookFor("prompt", 0, 0)
  BY <1>1, <1>2, LookForStep
<1>3. ASSUME NEW a \in Checked, NEW pc, pc = IF at[Sweeper].lost THEN DueAlert(a) ELSE "linked",
             pc # "idle", LookFor(pc, 0, a)
      PROVE  IInv'
  <2>1. pc \in {"ask", "linked"}
    BY <1>3 DEF DueAlert
  <2>2. pc = "linked" /\ at[Sweeper].lost => a \in grounds
    BY <1>3 DEF DueAlert, IInv, RowsOK
  <2>. QED BY <1>1, <1>3, <2>1, <2>2, LookForStep, CasesAreChecked
<1>4. CASE Finish(Sweeper) /\ Unwritten
  BY <1>4, ReadAndFinish, WhoActs
<1>. QED BY <1>2, <1>3, <1>4 DEF LookAtAlert

LEMMA OpenCaseKeeps ==
  ASSUME IInv, OpenCase
  PROVE  IInv'
<1>1. PICK g \in Handler : g = at[Sweeper] /\ Good(g)
  BY Held, WhoActs
<1>3. Written
  <2>1. RowTypes'
    BY <1>1 DEF IInv, RowTypes, OpenCase, Fixed, Handler
  <2>2. Grows
    BY <1>1 DEF IInv, RowTypes, Grows, OpenCase, Fixed, Handler
  <2>3. Earns
    BY <1>1 DEF IInv, RowTypes, RowsOK, Earns, OpenCase, Fixed, Handler
  <2>. QED BY <2>1, <2>2, <2>3 DEF Written
<1>. QED BY <1>3, FinishStep, WhoActs DEF OpenCase

LEMMA AskAgainKeeps ==
  ASSUME IInv, AskAgain
  PROVE  IInv'
<1>1. PICK g \in Handler : g = at[Sweeper] /\ Good(g)
  BY Held, WhoActs
<1>3. Written
  <2>1. RowTypes'
    BY <1>1 DEF IInv, RowTypes, AskAgain, Fixed, Handler
  <2>2. Grows
    BY <1>1 DEF IInv, RowTypes, Grows, AskAgain, Fixed, Handler
  <2>3. Earns
    BY <1>1 DEF IInv, RowTypes, RowsOK, Earns, AskAgain, Fixed, Handler
  <2>. QED BY <2>1, <2>2, <2>3 DEF Written
<1>. QED BY <1>3, FinishStep, WhoActs DEF AskAgain

LEMMA ResolveCaseKeeps ==
  ASSUME IInv, ResolveCase
  PROVE  IInv'
<1>1. PICK g \in Handler : g = at[Sweeper] /\ Good(g)
  BY Held, WhoActs
<1>3. Written
  <2>1. RowTypes'
    BY <1>1 DEF IInv, RowTypes, ResolveCase, Fixed, Handler
  <2>2. Grows
    BY <1>1 DEF IInv, RowTypes, Grows, ResolveCase, Fixed, Handler
  <2>3. Earns
    BY <1>1 DEF IInv, RowTypes, RowsOK, Earns, ResolveCase, Fixed, Handler
  <2>. QED BY <2>1, <2>2, <2>3 DEF Written
<1>4. \A h \in Handler : (h.pc = "resolveAlerts" /\ Same(h, g)) => Good(h)'
  BY <1>1, <1>3, Carry DEF Good, Same, Written
<1>5. Goto(Sweeper, "resolveAlerts") /\ "resolveAlerts" \in Places
  BY DEF ResolveCase, Places
<1>. QED BY <1>1, <1>3, <1>4, <1>5, GotoStep, WhoActs

LEMMA ResolveAlertsKeeps ==
  ASSUME IInv, ResolveAlerts
  PROVE  IInv'
<1>1. PICK g \in Handler : g = at[Sweeper] /\ Good(g)
  BY Held, WhoActs
<1>3. Written
  <2>1. RowTypes'
    BY <1>1, CasesAreChecked DEF IInv, RowTypes, ResolveAlerts, Fixed, Handler, CloseAlerts
  <2>2. Grows
    BY <1>1, CasesAreChecked DEF IInv, RowTypes, Grows, ResolveAlerts, Fixed, Handler, CloseAlerts
  <2>3. Earns
    BY <1>1, CasesAreChecked DEF IInv, RowTypes, RowsOK, Earns, ResolveAlerts, Fixed, Handler, CloseAlerts
  <2>. QED BY <2>1, <2>2, <2>3 DEF Written
<1>. QED BY <1>3, FinishStep, WhoActs DEF ResolveAlerts

LEMMA PromptKeeps ==
  ASSUME IInv, Prompt
  PROVE  IInv'
<1>1. PICK g \in Handler : g = at[Sweeper] /\ Good(g)
  BY Held, WhoActs
<1>2. kind # "MEMBER"
  BY <1>1 DEF Good, Prompt, At
<1>3. Written
  <2>1. RowTypes'
    BY <1>1, <1>2, CasesAreChecked DEF IInv, RowTypes, Prompt, Fixed, Handler
  <2>2. Grows
    BY <1>1, <1>2, CasesAreChecked DEF IInv, RowTypes, Grows, Prompt, Fixed, Handler
  <2>3. Earns
    BY <1>1, <1>2, CasesAreChecked DEF IInv, RowTypes, RowsOK, Earns, Prompt, Fixed, Handler
  <2>. QED BY <2>1, <2>2, <2>3 DEF Written
<1>. QED BY <1>3, FinishStep, WhoActs DEF Prompt

LEMMA AskKeeps ==
  ASSUME IInv, Ask
  PROVE  IInv'
<1>1. PICK g \in Handler : g = at[Sweeper] /\ Good(g)
  BY Held, WhoActs
<1>2. kind # "MEMBER" /\ (g.told => g.a \in grounds)
  BY <1>1 DEF Good, Ask, At
<1>3. Written
  <2>1. RowTypes'
    BY <1>1, <1>2 DEF IInv, RowTypes, Ask, Fixed, Handler, Details
  <2>2. Grows
    BY <1>1, <1>2 DEF IInv, RowTypes, Grows, Ask, Fixed, Handler, Details
  <2>3. Earns
    BY <1>1, <1>2 DEF IInv, RowTypes, RowsOK, Earns, Ask, Fixed, Handler, Details
  <2>. QED BY <2>1, <2>2, <2>3 DEF Written
<1>. QED BY <1>3, FinishStep, WhoActs DEF Ask

LEMMA CheckLinkedKeeps ==
  ASSUME IInv, CheckLinked
  PROVE  IInv'
<1>1. PICK g \in Handler : g = at[Sweeper] /\ Good(g)
  BY Held, WhoActs
<1>2. /\ g.pc = "linked" /\ kind # "MEMBER" /\ g.a \in Checked /\ g.c = 0
      /\ g.lost => g.a \in grounds
  BY <1>1 DEF Good, CheckLinked, At
<1>3. CASE Finish(Sweeper)
  BY <1>3, ReadAndFinish, WhoActs DEF CheckLinked
<1>4. ASSUME NEW pc \in {"tell", "clear"}, pc = "tell" => g.lost, Goto(Sweeper, pc)
      PROVE  IInv'
  <2>1. \A h \in Handler : (h.pc = pc /\ Same(h, g)) => Good(h)
    BY <1>1, <1>2, <1>4 DEF Good, Same
  <2>2. pc \in Places
    BY DEF Places
  <2>. QED BY <1>1, <1>4, <2>1, <2>2, ReadAndGoto, WhoActs DEF CheckLinked
<1>. QED BY <1>1, <1>3, <1>4 DEF CheckLinked

LEMMA ClearKeeps ==
  ASSUME IInv, Clear
  PROVE  IInv'
<1>1. PICK g \in Handler : g = at[Sweeper] /\ Good(g)
  BY Held, WhoActs
<1>2. kind # "MEMBER" /\ (g.told => g.a \in grounds)
  BY <1>1 DEF Good, Clear, At
<1>3. Written
  <2>1. RowTypes'
    BY <1>1, <1>2, CasesAreChecked DEF IInv, RowTypes, Clear, Fixed, Handler, Details, OpenAlerts
  <2>2. Grows
    BY <1>1, <1>2, CasesAreChecked DEF IInv, RowTypes, Grows, Clear, Fixed, Handler, Details, OpenAlerts
  <2>3. Earns
    BY <1>1, <1>2, CasesAreChecked DEF IInv, RowTypes, RowsOK, Earns, Clear, Fixed, Handler, Details, OpenAlerts
  <2>. QED BY <2>1, <2>2, <2>3 DEF Written
<1>. QED BY <1>3, FinishStep, WhoActs DEF Clear

LEMMA TellKeeps ==
  ASSUME IInv, Tell
  PROVE  IInv'
<1>1. PICK g \in Handler : g = at[Sweeper] /\ Good(g)
  BY Held, WhoActs
<1>2. kind # "MEMBER" /\ g.a \in Checked /\ g.c = 0 /\ g.a \in grounds
  BY <1>1 DEF Good, Tell, At
<1>3. Written
  <2>1. RowTypes'
    BY <1>1, <1>2 DEF IInv, RowTypes, Tell, Fixed, Handler, Details
  <2>2. Grows
    BY <1>1, <1>2 DEF IInv, RowTypes, Grows, Tell, Fixed, Handler, Details
  <2>3. Earns
    BY <1>1, <1>2 DEF IInv, RowTypes, RowsOK, Earns, Tell, Fixed, Handler, Details
  <2>. QED BY <2>1, <2>2, <2>3 DEF Written
<1>4. \A h \in Handler : (h.pc = "findIncident" /\ Same(h, g)) => Good(h)'
  BY <1>1, <1>2, <1>3, Kept DEF Good, Same, Written, Grows
<1>5. Goto(Sweeper, "findIncident") /\ "findIncident" \in Places
  BY DEF Tell, Places
<1>. QED BY <1>1, <1>3, <1>4, <1>5, GotoStep, WhoActs

-----------------------------------------------------------------------------
(* Answers *)

LEMMA BeginRespondKeeps ==
  ASSUME IInv, NEW r \in Requests, NEW c \in Cases, NEW pc, BeginRespond(r, c, pc)
  PROVE  IInv'
<1>1. PICK h : h = [Idle EXCEPT !.pc = pc, !.c = c]
  OBVIOUS
<1>2. h \in Handler
  <2>1. pc \in Places
    BY DEF BeginRespond, Places
  <2>. QED BY <1>1, <2>1, IdleGood DEF Handler
<1>3. Good(h)
  BY <1>1 DEF Good, Idle, BeginRespond
<1>. QED BY <1>1, <1>2, <1>3, BeginStep, WhoActs DEF BeginRespond

LEMMA ClearAlertsKeeps ==
  ASSUME IInv, NEW r \in Requests, ClearAlerts(r)
  PROVE  IInv'
<1>1. PICK g \in Handler : g = at[r] /\ Good(g)
  BY Held, WhoActs
<1>2. kind = "MEMBER" /\ g.c \in Cases
  BY <1>1 DEF Good, ClearAlerts, At
<1>3. Written
  <2>1. RowTypes'
    BY <1>1, <1>2, CasesAreChecked DEF IInv, RowTypes, ClearAlerts, Fixed, Handler, CloseAlerts
  <2>2. Grows
    BY <1>1, <1>2, CasesAreChecked DEF IInv, RowTypes, Grows, ClearAlerts, Fixed, Handler, CloseAlerts
  <2>3. Earns
    BY <1>1, <1>2, CasesAreChecked DEF IInv, RowTypes, RowsOK, Earns, ClearAlerts, Fixed, Handler, CloseAlerts
  <2>. QED BY <2>1, <2>2, <2>3 DEF Written
<1>4. \A h \in Handler : (h.pc = "falseAlarm" /\ Same(h, g)) => Good(h)'
  BY <1>1, <1>2, <1>3, Kept DEF Good, Same, Written, Grows
<1>5. Goto(r, "falseAlarm") /\ "falseAlarm" \in Places
  BY DEF ClearAlerts, Places
<1>. QED BY <1>1, <1>3, <1>4, <1>5, GotoStep, WhoActs

LEMMA FalseAlarmKeeps ==
  ASSUME IInv, NEW r \in Requests, FalseAlarm(r)
  PROVE  IInv'
<1>1. PICK g \in Handler : g = at[r] /\ Good(g)
  BY Held, WhoActs
<1>3. Written
  <2>1. RowTypes'
    BY <1>1 DEF IInv, RowTypes, FalseAlarm, Fixed, Handler
  <2>2. Grows
    BY <1>1 DEF IInv, RowTypes, Grows, FalseAlarm, Fixed, Handler
  <2>3. Earns
    BY <1>1 DEF IInv, RowTypes, RowsOK, Earns, FalseAlarm, Fixed, Handler
  <2>. QED BY <2>1, <2>2, <2>3 DEF Written
<1>. QED BY <1>3, FinishStep, WhoActs DEF FalseAlarm

LEMMA ConfirmKeeps ==
  ASSUME IInv, NEW r \in Requests, Confirm(r)
  PROVE  IInv'
<1>1. PICK g \in Handler : g = at[r] /\ Good(g)
  BY Held, WhoActs
<1>2. kind = "MEMBER" /\ g.c \in Cases
  BY <1>1 DEF Good, Confirm, At
<1>3. Written
  <2>1. RowTypes'
    BY <1>1, <1>2, CasesAreChecked DEF IInv, RowTypes, Confirm, Fixed, Handler
  <2>2. Grows
    BY <1>1, <1>2, CasesAreChecked DEF IInv, RowTypes, Grows, Confirm, Fixed, Handler
  <2>3. Earns
    BY <1>1, <1>2, CasesAreChecked DEF IInv, RowTypes, RowsOK, Earns, Confirm, Fixed, Handler
  <2>. QED BY <2>1, <2>2, <2>3 DEF Written
<1>4. \A h \in Handler : (h.pc = "findAlert" /\ Same(h, g)) => Good(h)'
  BY <1>1, <1>2, <1>3, Kept DEF Good, Same, Written, Grows, Confirm
<1>5. Goto(r, "findAlert") /\ "findAlert" \in Places
  BY DEF Confirm, Places
<1>. QED BY <1>1, <1>3, <1>4, <1>5, GotoStep, WhoActs

LEMMA BeginAnswerKeeps ==
  ASSUME IInv, NEW r \in Requests, NEW a \in Checked, NEW pc, BeginAnswer(r, a, pc)
  PROVE  IInv'
<1>1. PICK h : h = [Idle EXCEPT !.pc = pc, !.a = a, !.asked = asked[a], !.told = told[a]]
  OBVIOUS
<1>2. asked[a] \in BOOLEAN /\ told[a] \in BOOLEAN /\ (told[a] => a \in grounds)
  BY DEF IInv, RowTypes, RowsOK
<1>3. h \in Handler
  <2>1. pc \in Places /\ a \in Alerts
    BY CasesAreChecked DEF BeginAnswer, Places
  <2>. QED BY <1>1, <1>2, <2>1, IdleGood DEF Handler
<1>4. Good(h)
  BY <1>1, <1>2 DEF Good, Idle, BeginAnswer
<1>. QED BY <1>1, <1>3, <1>4, BeginStep, WhoActs DEF BeginAnswer

LEMMA SafeKeeps ==
  ASSUME IInv, NEW r \in Requests, Safe(r)
  PROVE  IInv'
<1>1. PICK g \in Handler : g = at[r] /\ Good(g)
  BY Held, WhoActs
<1>2. kind # "MEMBER" /\ (g.told => g.a \in grounds)
  BY <1>1 DEF Good, Safe, At
<1>3. Written
  <2>1. RowTypes'
    BY <1>1, <1>2 DEF IInv, RowTypes, Safe, Fixed, Handler, Details
  <2>2. Grows
    BY <1>1, <1>2 DEF IInv, RowTypes, Grows, Safe, Fixed, Handler, Details
  <2>3. Earns
    BY <1>1, <1>2 DEF IInv, RowTypes, RowsOK, Earns, Safe, Fixed, Handler, Details
  <2>. QED BY <2>1, <2>2, <2>3 DEF Written
<1>. QED BY <1>3, FinishStep, WhoActs DEF Safe

LEMMA HelpKeeps ==
  ASSUME IInv, NEW r \in Requests, Help(r)
  PROVE  IInv'
<1>1. PICK g \in Handler : g = at[r] /\ Good(g)
  BY Held, WhoActs
<1>2. kind # "MEMBER" /\ g.a \in Checked /\ g.c = 0
  BY <1>1 DEF Good, Help, At
<1>3. Written
  <2>1. RowTypes'
    BY <1>1, <1>2 DEF IInv, RowTypes, Help, Fixed, Handler, Details
  <2>2. Grows
    BY <1>1, <1>2 DEF IInv, RowTypes, Grows, Help, Fixed, Handler, Details
  <2>3. Earns
    BY <1>1, <1>2 DEF IInv, RowTypes, RowsOK, Earns, Help, Fixed, Handler, Details
  <2>. QED BY <2>1, <2>2, <2>3 DEF Written
<1>4. \A h \in Handler : (h.pc = "findIncident" /\ Same(h, g)) => Good(h)'
  BY <1>1, <1>2, <1>3, Kept DEF Good, Same, Written, Grows, Help
<1>5. Goto(r, "findIncident") /\ "findIncident" \in Places
  BY DEF Help, Places
<1>. QED BY <1>1, <1>3, <1>4, <1>5, GotoStep, WhoActs

-----------------------------------------------------------------------------
(* Escalation *)

\* The handler goes on with the alert a of its case.
LEMMA AlertStep ==
  ASSUME IInv, Written, NEW p \in Actors, NEW a \in Checked, NEW g \in Handler, g = at[p], Good(g),
         kind = "MEMBER", g.c \in Cases, g.c \in grounds, Linked(a, g.c)',
         at' = [at EXCEPT ![p].pc = "findIncident", ![p].a = a]
  PROVE  IInv'
<1>. DEFINE h == [g EXCEPT !.pc = "findIncident", !.a = a]
<1>1. at' = [at EXCEPT ![p] = h]
  BY DEF IInv
<1>2. h \in Handler
  <2>1. a \in Alerts /\ "findIncident" \in Places
    BY CasesAreChecked DEF Places
  <2>. QED BY <2>1 DEF Handler
<1>3. h.pc = "findIncident" /\ h.a = a /\ h.c = g.c /\ h.make = g.make /\ h.shut = g.shut
  BY DEF Handler
<1>4. Good(g)'
  BY Carry DEF Written
<1>. HIDE DEF h
<1>5. Good(h)'
  BY <1>3, <1>4 DEF Good, Written, Grows, Linked
<1>. QED BY <1>1, <1>2, <1>5, HandlerStep

LEMMA FindAlertKeeps ==
  ASSUME IInv, NEW p \in Actors, FindAlert(p)
  PROVE  IInv'
<1>1. PICK g \in Handler : g = at[p] /\ Good(g)
  BY Held
<1>2. kind = "MEMBER" /\ g.c \in Cases /\ g.c \in grounds
  BY <1>1 DEF Good, FindAlert, At
<1>3. Unwritten /\ Written
  BY UnwrittenRows DEF FindAlert, Unwritten, Fixed, IInv, RowTypes
<1>4. ASSUME NEW a \in Checked, alert[a] # "NONE", caseOf[a] = g.c,
             at' = [at EXCEPT ![p].pc = "findIncident", ![p].a = a]
      PROVE  IInv'
  <2>1. Linked(a, g.c)'
    BY <1>3, <1>4 DEF Linked, Unwritten, rows
  <2>. QED BY <1>1, <1>2, <1>3, <1>4, <2>1, AlertStep
<1>5. ASSUME Goto(p, "createAlert") PROVE IInv'
  <2>1. \A h \in Handler : (h.pc = "createAlert" /\ Same(h, g)) => Good(h)
    BY <1>1, <1>2 DEF Good, Same
  <2>. QED BY <1>1, <1>3, <1>5, <2>1, ReadAndGoto DEF Places
<1>. QED BY <1>1, <1>4, <1>5 DEF FindAlert

LEMMA CreateAlertKeeps ==
  ASSUME IInv, NEW p \in Actors, CreateAlert(p)
  PROVE  IInv'
<1>1. PICK g \in Handler : g = at[p] /\ Good(g)
  BY Held
<1>2. kind = "MEMBER" /\ g.c \in Cases /\ g.c \in grounds
  BY <1>1 DEF Good, CreateAlert, At
<1>3. PICK a \in Checked :
         /\ alert[a] = "NONE"
         /\ alert' = [alert EXCEPT ![a] = "OPEN"]
         /\ caseOf' = [caseOf EXCEPT ![a] = g.c]
         /\ at' = [at EXCEPT ![p].pc = "findIncident", ![p].a = a]
         /\ UNCHANGED <<kind, overlap, failures, trip, place, cse, again, asked, told, inc, late, grounds>>
  <2>1. ASSUME NEW a \in Checked, NewRow(alert, Checked, a) PROVE alert[a] = "NONE"
    BY <2>1 DEF NewRow, Checked
  <2>. QED BY <1>1, <2>1 DEF CreateAlert, Fixed
<1>4. Written
  <2>1. RowTypes'
    BY <1>2, <1>3, CasesAreChecked DEF IInv, RowTypes
  <2>2. Grows
    BY <1>2, <1>3, CasesAreChecked DEF IInv, RowTypes, Grows
  <2>3. Earns
    BY <1>2, <1>3, CasesAreChecked DEF IInv, RowTypes, RowsOK, Earns, Linked
  <2>. QED BY <2>1, <2>2, <2>3 DEF Written
<1>5. Linked(a, g.c)'
  BY <1>2, <1>3, CasesAreChecked DEF Linked, IInv, RowTypes
<1>. QED BY <1>1, <1>2, <1>3, <1>4, <1>5, AlertStep

\* The incident is there: a case is marked next, the other checks are through.
LEMMA IncidentStep ==
  ASSUME IInv, Written, NEW p \in Actors, NEW g \in Handler, g = at[p], Good(g),
         g.pc \in {"findIncident", "createIncident"}, AfterIncident(p), inc'[g.a] # "NONE"
  PROVE  IInv'
<1>1. CASE Finish(p)
  BY <1>1, FinishStep
<1>2. ASSUME g.c # 0, Goto(p, "escalate") PROVE IInv'
  <2>1. kind = "MEMBER" /\ g.c \in Cases /\ Linked(g.a, g.c)
    BY <1>2 DEF Good
  <2>2. Linked(g.a, g.c)'
    BY <2>1, CasesAreChecked DEF Linked, Written, Grows
  <2>3. \A h \in Handler : (h.pc = "escalate" /\ Same(h, g)) => Good(h)'
    BY <2>1, <2>2, Kept DEF Good, Same, Written, Grows, Linked
  <2>. QED BY <1>2, <2>3, GotoStep DEF Places
<1>. QED BY <1>1, <1>2 DEF AfterIncident

LEMMA FindIncidentKeeps ==
  ASSUME IInv, NEW p \in Actors, FindIncident(p)
  PROVE  IInv'
<1>1. PICK g \in Handler : g = at[p] /\ Good(g)
  BY Held
<1>2. g.pc = "findIncident" /\ Unwritten /\ Written
  BY <1>1, UnwrittenRows DEF FindIncident, Unwritten, Fixed, IInv, RowTypes, At
<1>3. CASE inc[g.a] # "NONE" /\ AfterIncident(p)
  BY <1>1, <1>2, <1>3, IncidentStep DEF Unwritten, rows
<1>4. ASSUME Goto(p, "createIncident") PROVE IInv'
  <2>1. \A h \in Handler : (h.pc = "createIncident" /\ Same(h, g)) => Good(h)
    BY <1>1, <1>2 DEF Good, Same
  <2>. QED BY <1>1, <1>2, <1>4, <2>1, ReadAndGoto DEF Places
<1>. QED BY <1>1, <1>3, <1>4 DEF FindIncident

LEMMA CreateIncidentKeeps ==
  ASSUME IInv, NEW p \in Actors, CreateIncident(p)
  PROVE  IInv'
<1>1. PICK g \in Handler : g = at[p] /\ Good(g)
  BY Held
<1>2. /\ g.pc = "createIncident" /\ g.a \in Checked /\ g.a \in Alerts
      /\ CheckOf(g.a) \in grounds
  BY <1>1, CasesAreChecked DEF CreateIncident, At, Good, Linked, CheckOf
<1>3. /\ inc' = [inc EXCEPT ![g.a] = "OPEN"] \/ inc' = inc
      /\ UNCHANGED <<kind, overlap, failures, trip, place, cse, again, alert, caseOf, asked, told, late, grounds>>
      /\ Finish(p) \/ (AfterIncident(p) /\ inc' = [inc EXCEPT ![g.a] = "OPEN"])
  BY <1>1 DEF CreateIncident, Fixed
<1>4. Written
  <2>1. RowTypes'
    BY <1>2, <1>3, CasesAreChecked DEF IInv, RowTypes
  <2>2. Grows
    BY <1>2, <1>3, CasesAreChecked DEF IInv, RowTypes, Grows
  <2>3. Earns
    BY <1>2, <1>3, CasesAreChecked DEF IInv, RowTypes, RowsOK, Earns
  <2>. QED BY <2>1, <2>2, <2>3 DEF Written
<1>5. CASE Finish(p)
  BY <1>4, <1>5, FinishStep
<1>6. CASE AfterIncident(p) /\ inc' = [inc EXCEPT ![g.a] = "OPEN"]
  <2>1. inc'[g.a] # "NONE"
    BY <1>2, <1>6 DEF IInv, RowTypes
  <2>. QED BY <1>1, <1>2, <1>4, <1>6, <2>1, IncidentStep
<1>. QED BY <1>3, <1>5, <1>6

LEMMA EscalateKeeps ==
  ASSUME IInv, NEW p \in Actors, Escalate(p)
  PROVE  IInv'
<1>1. PICK g \in Handler : g = at[p] /\ Good(g)
  BY Held, WhoActs
<1>2. g.c \in Cases /\ Linked(g.a, g.c) /\ inc[g.a] # "NONE"
  BY <1>1 DEF Good, Escalate, At
<1>3. Written
  <2>1. RowTypes'
    BY <1>1, <1>2 DEF IInv, RowTypes, Escalate, Fixed, Handler, Linked
  <2>2. Grows
    BY <1>1, <1>2 DEF IInv, RowTypes, Grows, Escalate, Fixed, Handler, Linked
  <2>3. Earns
    BY <1>1, <1>2 DEF IInv, RowTypes, RowsOK, Earns, Escalate, Fixed, Handler, Linked
  <2>. QED BY <2>1, <2>2, <2>3 DEF Written
<1>. QED BY <1>3, FinishStep, WhoActs DEF Escalate

-----------------------------------------------------------------------------
(* Others who write alerts and incidents *)

LEMMA BeginAlertKeeps ==
  ASSUME IInv, NEW r \in Requests, NEW a \in Alerts, NEW pc, BeginAlert(r, a, pc)
  PROVE  IInv'
<1>1. PICK h : h = [Idle EXCEPT !.pc = pc, !.a = a]
  OBVIOUS
<1>2. h \in Handler
  <2>1. pc \in Places
    BY DEF BeginAlert, Places
  <2>. QED BY <1>1, <2>1, IdleGood DEF Handler
<1>3. Good(h)
  BY <1>1 DEF Good, Idle, BeginAlert
<1>. QED BY <1>1, <1>2, <1>3, BeginStep, WhoActs DEF BeginAlert

LEMMA ResolveAlertKeeps ==
  ASSUME IInv, NEW r \in Requests, ResolveAlert(r)
  PROVE  IInv'
<1>1. PICK g \in Handler : g = at[r] /\ Good(g)
  BY Held, WhoActs
<1>2. g.a \in Alerts /\ alert[g.a] # "NONE"
  BY <1>1 DEF Good, ResolveAlert, At, Handler
<1>3. Written
  <2>1. RowTypes'
    BY <1>1, <1>2, CasesAreChecked DEF IInv, RowTypes, ResolveAlert, Fixed, Handler
  <2>2. Grows
    BY <1>1, <1>2, CasesAreChecked DEF IInv, RowTypes, Grows, ResolveAlert, Fixed, Handler
  <2>3. Earns
    BY <1>1, <1>2, CasesAreChecked DEF IInv, RowTypes, RowsOK, Earns, ResolveAlert, Fixed, Handler
  <2>. QED BY <2>1, <2>2, <2>3 DEF Written
<1>. QED BY <1>3, FinishStep, WhoActs DEF ResolveAlert

LEMMA AcknowledgeKeeps ==
  ASSUME IInv, NEW r \in Requests, Acknowledge(r)
  PROVE  IInv'
<1>1. PICK g \in Handler : g = at[r] /\ Good(g)
  BY Held, WhoActs
<1>2. alert[g.a] # "NONE"
  BY <1>1 DEF Good, Acknowledge, At
<1>3. Written
  <2>1. RowTypes'
    BY <1>1, <1>2, CasesAreChecked DEF IInv, RowTypes, Acknowledge, Fixed, Handler
  <2>2. Grows
    BY <1>1, <1>2, CasesAreChecked DEF IInv, RowTypes, Grows, Acknowledge, Fixed, Handler
  <2>3. Earns
    BY <1>1, <1>2, CasesAreChecked DEF IInv, RowTypes, RowsOK, Earns, Acknowledge, Fixed, Handler
  <2>. QED BY <2>1, <2>2, <2>3 DEF Written
<1>. QED BY <1>3, FinishStep, WhoActs DEF Acknowledge

LEMMA BeginStaffKeeps ==
  ASSUME IInv, NEW r \in Requests, NEW a \in Alerts, NEW to, BeginStaff(r, a, to)
  PROVE  IInv'
<1>1. PICK h : h = [Idle EXCEPT !.pc = "staff", !.a = a, !.to = to]
  OBVIOUS
<1>2. h \in Handler
  <2>1. "staff" \in Places /\ to \in {"OPEN", "RESOLVED", "DISMISSED"}
    BY DEF BeginStaff, Places
  <2>. QED BY <1>1, <2>1, IdleGood DEF Handler
<1>3. Good(h)
  BY <1>1 DEF Good, Idle, BeginStaff
<1>. QED BY <1>1, <1>2, <1>3, BeginStep, WhoActs DEF BeginStaff

LEMMA StaffKeeps ==
  ASSUME IInv, NEW r \in Requests, Staff(r)
  PROVE  IInv'
<1>1. PICK g \in Handler : g = at[r] /\ Good(g)
  BY Held, WhoActs
<1>2. inc[g.a] # "NONE" /\ g.to \in {"OPEN", "RESOLVED", "DISMISSED"}
  BY <1>1 DEF Good, Staff, At
<1>3. Written
  <2>1. RowTypes'
    BY <1>1, <1>2, CasesAreChecked DEF IInv, RowTypes, Staff, Fixed, Handler
  <2>2. Grows
    BY <1>1, <1>2, CasesAreChecked DEF IInv, RowTypes, Grows, Staff, Fixed, Handler
  <2>3. Earns
    BY <1>1, <1>2, CasesAreChecked DEF IInv, RowTypes, RowsOK, Earns, Staff, Fixed, Handler
  <2>. QED BY <2>1, <2>2, <2>3 DEF Written
<1>. QED BY <1>3, FinishStep, WhoActs DEF Staff

LEMMA BeginEvaluateKeeps ==
  ASSUME IInv, NEW r \in Requests, BeginEvaluate(r)
  PROVE  IInv'
<1>1. PICK h : h = [Idle EXCEPT !.pc = "evaluate", !.to = IF place = "LOST" THEN "OPEN" ELSE "RESOLVED"]
  OBVIOUS
<1>2. h \in Handler
  <2>1. "evaluate" \in Places
    BY DEF Places
  <2>. QED BY <1>1, <2>1, IdleGood DEF Handler
<1>3. Good(h)
  BY <1>1 DEF Good, Idle, BeginEvaluate
<1>. QED BY <1>1, <1>2, <1>3, BeginStep, WhoActs DEF BeginEvaluate

LEMMA EvaluateKeeps ==
  ASSUME IInv, NEW r \in Requests, Evaluate(r)
  PROVE  IInv'
<1>1. PICK g \in Handler : g = at[r] /\ Good(g)
  BY Held, WhoActs
<1>2. g.to \in {"OPEN", "RESOLVED"}
  BY <1>1 DEF Good, Evaluate, At
<1>3. Written
  <2>1. RowTypes'
    BY <1>1, <1>2, CasesAreChecked DEF IInv, RowTypes, Evaluate, Fixed, Handler
  <2>2. Grows
    BY <1>1, <1>2, CasesAreChecked DEF IInv, RowTypes, Grows, Evaluate, Fixed, Handler
  <2>3. Earns
    BY <1>1, <1>2, CasesAreChecked DEF IInv, RowTypes, RowsOK, Earns, Evaluate, Fixed, Handler
  <2>. QED BY <2>1, <2>2, <2>3 DEF Written
<1>. QED BY <1>3, FinishStep, WhoActs DEF Evaluate

-----------------------------------------------------------------------------
(* The disaster managers' queue *)

LEMMA BeginSyncKeeps ==
  ASSUME IInv, BeginSync
  PROVE  IInv'
<1>. DEFINE made == {a \in Alerts : alert[a] # "NONE"}
            open == {a \in made : Reportable(a)}
<1>1. PICK h : h = [Idle EXCEPT !.pc = "readTrip", !.make = open, !.shut = made \ open]
  OBVIOUS
<1>2. h \in Handler
  <2>1. "readTrip" \in Places
    BY DEF Places
  <2>. QED BY <1>1, <2>1, IdleGood DEF Handler
<1>3. \A a \in open : alert[a] # "NONE" /\ (a # Gap => CheckOf(a) \in grounds)
  BY CasesAreChecked DEF Reportable, CheckOf, IInv, RowsOK
<1>4. h.pc = "readTrip" /\ h.make = open /\ ~h.told
  BY <1>1 DEF Idle
<1>. HIDE DEF open
<1>5. Good(h)
  BY <1>3, <1>4 DEF Good
<1>6. Begin(Desk, h)
  BY <1>1 DEF BeginSync, open
<1>. QED BY <1>2, <1>5, <1>6, BeginStep, WhoActs

LEMMA SyncTripKeeps ==
  ASSUME IInv, SyncTrip
  PROVE  IInv'
<1>1. PICK g \in Handler : g = at[Desk] /\ Good(g)
  BY Held, WhoActs
<1>2. PICK make \in SUBSET Alerts, shut \in SUBSET Alerts :
         /\ make \subseteq g.make
         /\ at' = [at EXCEPT ![Desk].pc = "readIncidents", ![Desk].make = make, ![Desk].shut = shut]
  <2>1. CASE trip = "ACTIVE"
    <3>1. at' = [at EXCEPT ![Desk].pc = "readIncidents", ![Desk].make = g.make, ![Desk].shut = g.shut]
      BY <1>1, <2>1, WhoActs DEF SyncTrip, IInv
    <3>. QED BY <3>1 DEF Handler
  <2>2. CASE trip # "ACTIVE"
    <3>1. at' = [at EXCEPT ![Desk].pc = "readIncidents", ![Desk].make = {}, ![Desk].shut = g.shut \cup g.make]
      BY <1>1, <2>2, WhoActs DEF SyncTrip, IInv
    <3>. QED BY <3>1 DEF Handler
  <2>. QED BY <2>1, <2>2
<1>. DEFINE h == [g EXCEPT !.pc = "readIncidents", !.make = make, !.shut = shut]
<1>3. at' = [at EXCEPT ![Desk] = h]
  BY <1>1, <1>2, WhoActs DEF IInv
<1>4. h \in Handler
  <2>1. "readIncidents" \in Places
    BY DEF Places
  <2>. QED BY <2>1 DEF Handler
<1>5. h.pc = "readIncidents" /\ h.make = make /\ h.told = g.told /\ h.a = g.a
  BY DEF Handler
<1>. HIDE DEF h
<1>6. Good(h)
  BY <1>1, <1>2, <1>5 DEF Good
<1>. QED BY <1>3, <1>4, <1>6, ReadStep, WhoActs DEF SyncTrip

LEMMA SyncIncidentsKeeps ==
  ASSUME IInv, SyncIncidents
  PROVE  IInv'
<1>1. PICK g \in Handler : g = at[Desk] /\ Good(g)
  BY Held, WhoActs
<1>. DEFINE make == {a \in g.make : inc[a] = "NONE"}
            shut == {a \in g.shut : inc[a] = "OPEN"}
            h == [g EXCEPT !.pc = "sync", !.make = make, !.shut = shut]
<1>2. make \in SUBSET Alerts /\ shut \in SUBSET Alerts
  BY DEF Handler
<1>3. at' = [at EXCEPT ![Desk] = h]
  BY <1>1, WhoActs DEF SyncIncidents, IInv
<1>4. make \subseteq g.make /\ \A a \in shut : inc[a] # "NONE"
  OBVIOUS
<1>. HIDE DEF make, shut
<1>5. h \in Handler
  <2>1. "sync" \in Places
    BY DEF Places
  <2>. QED BY <1>2, <2>1 DEF Handler
<1>6. h.pc = "sync" /\ h.make = make /\ h.shut = shut /\ h.told = g.told /\ h.a = g.a
  BY DEF Handler
<1>. HIDE DEF h
<1>7. Good(h)
  BY <1>1, <1>4, <1>6 DEF Good
<1>. QED BY <1>3, <1>5, <1>7, ReadStep, WhoActs DEF SyncIncidents

LEMMA SyncKeeps ==
  ASSUME IInv, Sync
  PROVE  IInv'
<1>1. PICK g \in Handler : g = at[Desk] /\ Good(g)
  BY Held, WhoActs
<1>2. /\ g.pc = "sync" /\ \A a \in g.shut : inc[a] # "NONE"
      /\ \A a \in g.make : a # Gap => CheckOf(a) \in grounds
  BY <1>1 DEF Sync, At, Good
<1>3. UNCHANGED <<kind, overlap, failures, trip, place, cse, again, alert, caseOf, asked, told, late, grounds>>
  BY DEF Sync, Fixed
<1>4. ASSUME UNCHANGED inc, Finish(Desk) PROVE IInv'
  BY <1>3, <1>4, ReadAndFinish, WhoActs DEF Unwritten, Fixed, rows
<1>5. ASSUME NEW a \in g.make, inc' = [inc EXCEPT ![a] = "OPEN"],
             at' = [at EXCEPT ![Desk].make = @ \ {a}]
      PROVE  IInv'
  <2>. DEFINE h == [g EXCEPT !.make = g.make \ {a}]
  <2>1. Written
    <3>1. RowTypes'
      BY <1>2, <1>3, <1>5, CasesAreChecked DEF IInv, RowTypes
    <3>2. Grows
      BY <1>2, <1>3, <1>5, CasesAreChecked DEF IInv, RowTypes, Grows
    <3>3. Earns
      BY <1>2, <1>3, <1>5, CasesAreChecked DEF IInv, RowTypes, RowsOK, Earns
    <3>. QED BY <3>1, <3>2, <3>3 DEF Written
  <2>2. at' = [at EXCEPT ![Desk] = h]
    BY <1>1, <1>5, WhoActs DEF IInv
  <2>3. h \in Handler
    BY DEF Handler
  <2>4. h.pc = "sync" /\ h.make \subseteq g.make /\ h.shut = g.shut /\ h.told = g.told /\ h.a = g.a
    BY <1>2 DEF Handler
  <2>. HIDE DEF h
  <2>5. Good(g)'
    BY <1>1, <2>1, Carry DEF Written
  <2>6. Good(h)'
    BY <1>2, <2>4, <2>5 DEF Good
  <2>. QED BY <2>1, <2>2, <2>3, <2>6, HandlerStep, WhoActs
<1>6. ASSUME NEW a \in g.shut, inc' = [inc EXCEPT ![a] = "RESOLVED"],
             at' = [at EXCEPT ![Desk].shut = @ \ {a}]
      PROVE  IInv'
  <2>. DEFINE h == [g EXCEPT !.shut = g.shut \ {a}]
  <2>1. Written
    <3>1. RowTypes'
      BY <1>2, <1>3, <1>6, CasesAreChecked DEF IInv, RowTypes
    <3>2. Grows
      BY <1>2, <1>3, <1>6, CasesAreChecked DEF IInv, RowTypes, Grows
    <3>3. Earns
      BY <1>2, <1>3, <1>6, CasesAreChecked DEF IInv, RowTypes, RowsOK, Earns
    <3>. QED BY <3>1, <3>2, <3>3 DEF Written
  <2>2. at' = [at EXCEPT ![Desk] = h]
    BY <1>1, <1>6, WhoActs DEF IInv
  <2>3. h \in Handler
    BY DEF Handler
  <2>4. h.pc = "sync" /\ h.make = g.make /\ h.shut \subseteq g.shut /\ h.told = g.told /\ h.a = g.a
    BY <1>2 DEF Handler
  <2>. HIDE DEF h
  <2>5. Good(g)'
    BY <1>1, <2>1, Carry DEF Written
  <2>6. Good(h)'
    BY <1>2, <2>4, <2>5 DEF Good
  <2>. QED BY <2>1, <2>2, <2>3, <2>6, HandlerStep, WhoActs
<1>. QED BY <1>1, <1>4, <1>5, <1>6 DEF Sync, SyncMake, SyncShut

-----------------------------------------------------------------------------
(* The end of the trip, and failures *)

LEMMA BeginEndKeeps ==
  ASSUME IInv, BeginEnd
  PROVE  IInv'
<1>1. PICK h : h = [Idle EXCEPT !.pc = "expire", !.to = "ENDED"]
  OBVIOUS
<1>2. h \in Handler
  <2>1. "expire" \in Places
    BY DEF Places
  <2>. QED BY <1>1, <2>1, IdleGood DEF Handler
<1>3. Good(h)
  BY <1>1 DEF Good, Idle, BeginEnd
<1>. QED BY <1>1, <1>2, <1>3, BeginStep, WhoActs DEF BeginEnd

LEMMA BeginReconcileKeeps ==
  ASSUME IInv, BeginReconcile
  PROVE  IInv'
<1>1. PICK h : h = [Idle EXCEPT !.pc = "expire"]
  OBVIOUS
<1>2. h \in Handler
  <2>1. "expire" \in Places
    BY DEF Places
  <2>. QED BY <1>1, <2>1, IdleGood DEF Handler
<1>3. Good(h)
  BY <1>1 DEF Good, Idle, BeginReconcile
<1>. QED BY <1>1, <1>2, <1>3, BeginStep, WhoActs DEF BeginReconcile

LEMMA ExpireKeeps ==
  ASSUME IInv, Expire
  PROVE  IInv'
<1>1. PICK g \in Handler : g = at[Lifecycle] /\ Good(g)
  BY Held, WhoActs
<1>2. Written
  <2>1. RowTypes'
    BY CasesAreChecked DEF IInv, RowTypes, Expire, Fixed, OpenCases
  <2>2. Grows
    BY CasesAreChecked DEF IInv, RowTypes, Grows, Expire, Fixed, OpenCases
  <2>3. Earns
    BY CasesAreChecked DEF IInv, RowTypes, RowsOK, Earns, Expire, Fixed, OpenCases
  <2>. QED BY <2>1, <2>2, <2>3 DEF Written
<1>3. CASE Finish(Lifecycle)
  BY <1>2, <1>3, FinishStep, WhoActs
<1>4. CASE Goto(Lifecycle, "end")
  <2>1. \A h \in Handler : (h.pc = "end" /\ Same(h, g)) => Good(h)'
    BY <1>1, <1>2, Kept DEF Good, Same, Written
  <2>. QED BY <1>1, <1>2, <1>4, <2>1, GotoStep, WhoActs DEF Places
<1>. QED BY <1>3, <1>4 DEF Expire

LEMMA EndTripKeeps ==
  ASSUME IInv, EndTrip
  PROVE  IInv'
<1>1. PICK g \in Handler : g = at[Lifecycle] /\ Good(g)
  BY Held, WhoActs
<1>3. Written
  <2>1. RowTypes'
    BY <1>1 DEF IInv, RowTypes, EndTrip, Fixed, Handler
  <2>2. Grows
    BY <1>1 DEF IInv, RowTypes, Grows, EndTrip, Fixed, Handler
  <2>3. Earns
    BY <1>1 DEF IInv, RowTypes, RowsOK, Earns, EndTrip, Fixed, Handler
  <2>. QED BY <2>1, <2>2, <2>3 DEF Written
<1>. QED BY <1>3, FinishStep, WhoActs DEF EndTrip

LEMMA FailKeeps ==
  ASSUME IInv, NEW p \in Actors, Fail(p)
  PROVE  IInv'
<1>1. failures' \in 0..MaxFailures
  BY CheckAssumption DEF Fail, IInv, RowTypes
<1>2. Written
  BY <1>1, UnwrittenRows DEF Fail
<1>3. CASE Finish(p)
  BY <1>2, <1>3, FinishStep
<1>4. CASE at' = [q \in Actors |-> Idle]
  <2>1. at' \in [Actors -> Handler] /\ \A q \in Actors : at'[q] = Idle
    BY <1>4, IdleGood
  <2>2. HandlersGood'
    <3>. SUFFICES ASSUME NEW q \in Actors PROVE Good(at[q])'
      BY DEF HandlersGood
    <3>. QED BY <2>1 DEF Good, Idle
  <2>. QED BY <1>2, <2>1, <2>2, RowsStay DEF IInv, Written
<1>. QED BY <1>3, <1>4 DEF Fail

-----------------------------------------------------------------------------
(* Every step *)

LEMMA RequestsKeep ==
  ASSUME IInv, NEW r \in Requests, BeginRequest(r) \/ RequestStep(r)
  PROVE  IInv'
<1>1. CASE BeginRequest(r)
  BY <1>1, BeginRespondKeeps, BeginAnswerKeeps, BeginAlertKeeps, BeginStaffKeeps,
     BeginEvaluateKeeps DEF BeginRequest
<1>2. CASE RequestStep(r)
  BY <1>2, ClearAlertsKeeps, FalseAlarmKeeps, ConfirmKeeps, SafeKeeps, HelpKeeps,
     ResolveAlertKeeps, AcknowledgeKeeps, StaffKeeps, EvaluateKeeps DEF RequestStep
<1>. QED BY <1>1, <1>2

LEMMA SweepKeeps ==
  ASSUME IInv, SweepStep
  PROVE  IInv'
  BY LookAtCaseKeeps, LookAtAlertKeeps, OpenCaseKeeps, AskAgainKeeps, ResolveCaseKeeps,
     ResolveAlertsKeeps, PromptKeeps, AskKeeps, CheckLinkedKeeps, ClearKeeps, TellKeeps
     DEF SweepStep

LEMMA EscalationsKeep ==
  ASSUME IInv, NEW p \in Actors, EscalateStep(p)
  PROVE  IInv'
  BY FindAlertKeeps, CreateAlertKeeps, FindIncidentKeeps, CreateIncidentKeeps, EscalateKeeps
     DEF EscalateStep

LEMMA NextKeeps ==
  ASSUME IInv, [Next]_vars
  PROVE  IInv'
<1>1. CASE UNCHANGED vars
  <2>1. Written /\ UNCHANGED at
    BY <1>1, UnwrittenRows DEF vars, IInv, RowTypes
  <2>. QED BY <2>1, WorldStep
<1>2. CASE Move \/ (\E k \in Checked : Deadline(k)) \/ (\E c \in Cases : Recheck(c))
  BY <1>2, MoveKeeps, DeadlineKeeps, RecheckKeeps
<1>3. CASE BeginSweep \/ SweepStep
  BY <1>3, BeginSweepKeeps, SweepKeeps
<1>4. CASE \E r \in Requests : BeginRequest(r) \/ RequestStep(r)
  BY <1>4, RequestsKeep
<1>5. CASE \E p \in Actors : EscalateStep(p) \/ Fail(p)
  BY <1>5, EscalationsKeep, FailKeeps
<1>6. CASE BeginSync \/ DeskStep
  BY <1>6, BeginSyncKeeps, SyncTripKeeps, SyncIncidentsKeeps, SyncKeeps DEF DeskStep
<1>7. CASE BeginEnd \/ BeginReconcile \/ Expire \/ EndTrip
  BY <1>7, BeginEndKeeps, BeginReconcileKeeps, ExpireKeeps, EndTripKeeps
<1>. QED BY <1>1, <1>2, <1>3, <1>4, <1>5, <1>6, <1>7 DEF Next

-----------------------------------------------------------------------------
(* Theorems *)

\* Rows and handlers stay in step in every behaviour: signal-loss.service.js, the
\* queue and the trip's end as they overlap and fail.
THEOREM Invariance == Spec => []IInv
<1>1. Init => IInv
  BY InitEstablishes
<1>2. IInv /\ [Next]_vars => IInv'
  BY NextKeeps
<1>. QED BY <1>1, <1>2, PTL DEF Spec

\* Every row holds a value of its column's enum, every handler an id of its kind.
THEOREM TypeCorrect == Spec => []TypeOK
<1>1. IInv => TypeOK
  BY DEF IInv, RowTypes, TypeOK
<1>. QED BY <1>1, Invariance, PTL

\* A case counts as escalated only once disaster management has an incident for
\* it: escalateCase writes the status last, and no handler takes the alert or the
\* incident away.
THEOREM EscalatedIsReported == Spec => []EscalatedHasIncident
<1>1. IInv => EscalatedHasIncident
  BY DEF IInv, RowsOK
<1>. QED BY <1>1, Invariance, PTL

\* No check reports anybody to disaster management before its deadline has passed
\* or somebody has said that there is danger: neither the sweep, nor an answer,
\* nor the queue's synchronisation.
THEOREM EscalationIsEarned == Spec => []EscalationEarned
<1>1. IInv => EscalationEarned
  BY DEF IInv, RowsOK
<1>. QED BY <1>1, Invariance, PTL
=============================================================================
