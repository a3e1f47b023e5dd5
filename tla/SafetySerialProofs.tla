------------------------- MODULE SafetySerialProofs -------------------------
(***************************************************************************)
(* SafetyChecks with one handler at a time: OneAlarmPerLoss,               *)
(* AnsweredIsSettled and the action property DeskSeesEscalations, for any  *)
(* number of cases, alerts and failures.                                   *)
(*                                                                         *)
(* overlap is a variable and the properties speak of the behaviours in     *)
(* which it is FALSE, so nothing is assumed of the constants.  There       *)
(* everybody else rests (Alone), and what a handler has read still holds   *)
(* when it writes (Knows): that the case has no alert yet, that the alert  *)
(* has no incident yet, which incidents the queue lacks.  Only Settled     *)
(* needs that no handler was cut short; Cleared, which also says that a    *)
(* false alarm leaves no alert open, holds after failures too.             *)
(***************************************************************************)
EXTENDS SafetyChecksProofs

Alone == \A p, q \in Actors : at[p] # Idle /\ at[q] # Idle => p = q

Made == {a \in Alerts : alert[a] # "NONE"}
Wanted(a) == trip = "ACTIVE" /\ Reportable(a)

\* What the handler has read, and nobody else has written since.
Knows(h) ==
    /\ h.pc = "createAlert" => \A a \in Checked : alert[a] # "NONE" => caseOf[a] # h.c
    /\ h.pc \in {"linked", "tell", "help", "findIncident", "createIncident"} => alert[h.a] # "NONE"
    /\ h.pc = "createIncident" => inc[h.a] = "NONE"
    /\ h.pc = "acknowledge" => alert[h.a] = "OPEN"
    /\ h.pc = "askAgain" => cse[h.c] = "FALSE_ALARM"
    /\ h.pc = "falseAlarm" => \A a \in Checked : alert[a] = "OPEN" => caseOf[a] # h.c
    /\ h.pc = "readTrip" => /\ h.make = {a \in Alerts : Reportable(a)}
                            /\ h.shut = Made \ h.make
    /\ h.pc = "readIncidents" => /\ h.make = {a \in Alerts : Wanted(a)}
                                 /\ h.shut = Made \ h.make
    /\ h.pc = "sync" => /\ \A a \in h.make : Wanted(a) /\ inc[a] = "NONE"
                        /\ \A a \in Alerts : Wanted(a) => inc[a] # "NONE" \/ a \in h.make
                        /\ \A a \in Alerts : inc[a] = "OPEN" => Wanted(a) \/ a \in h.shut

OneAlarm == kind = "MEMBER" => \A a, b \in Checked :
    alert[a] # "NONE" /\ alert[b] # "NONE" /\ caseOf[a] = caseOf[b] => a = b

IncidentsHaveAlerts == \A a \in Alerts : inc[a] # "NONE" => alert[a] # "NONE"

\* The handler is about to escalate the case, or to close its alerts.
Settles(h, c) == h.c = c /\ h.pc \in {"findIncident", "createIncident", "escalate", "resolveAlerts"}
Settled == kind = "MEMBER" => \A a \in Checked : alert[a] = "OPEN" =>
    cse[caseOf[a]] = "ESCALATED" \/ \E p \in Actors : Settles(at[p], caseOf[a])

ChecksInv ==
    /\ Alone
    /\ \A p \in Actors : Knows(at[p])
    /\ OneAlarm
    /\ IncidentsHaveAlerts

SerialInv == Serial => ChecksInv /\ (failures = 0 => Settled)

-----------------------------------------------------------------------------
(* Who is in flight, and where it goes *)

Others(p) == \A q \in Actors \ {p} : at[q] = Idle

LEMMA IdleKnows == Idle.pc = "idle" /\ Knows(Idle) /\ Knows(Idle)'
  BY DEF Idle, Knows

LEMMA AtWork ==
  ASSUME ChecksInv, NEW p \in Actors, at[p].pc # "idle"
  PROVE  Others(p) /\ Knows(at[p])
  BY IdleKnows DEF ChecksInv, Alone, Others

\* The handler of p goes on to remember n.
LEMMA Moves ==
  ASSUME IInv, NEW p \in Actors, NEW n, Others(p), at' = [at EXCEPT ![p] = n],
         Knows(n)', OneAlarm', IncidentsHaveAlerts'
  PROVE  ChecksInv'
<1>1. at'[p] = n /\ \A q \in Actors \ {p} : at'[q] = Idle
  BY DEF IInv, Others
<1>2. Alone'
  BY <1>1 DEF Alone
<1>3. ASSUME NEW q \in Actors PROVE Knows(at[q])'
  <2>1. at'[q] = n \/ at'[q] = Idle
    BY <1>1
  <2>. QED BY <2>1, IdleKnows DEF Knows, Wanted, Made, Reportable
<1>. QED BY <1>2, <1>3 DEF ChecksInv

LEMMA Goes ==
  ASSUME IInv, NEW p \in Actors, NEW pc, Others(p), Goto(p, pc), NEW g \in Handler, g = at[p],
         \A h \in Handler : (h.pc = pc /\ Same(h, g)) => Knows(h)',
         pc \in Places, OneAlarm', IncidentsHaveAlerts'
  PROVE  ChecksInv'
<1>1. PICK h \in Handler : h = [g EXCEPT !.pc = pc] /\ h.pc = pc /\ Same(h, g)
  BY SetPlace
<1>2. at' = [at EXCEPT ![p] = h]
  BY <1>1 DEF Goto
<1>. QED BY <1>1, <1>2, Moves

LEMMA Rests ==
  ASSUME IInv, NEW p \in Actors, Others(p), Finish(p), OneAlarm', IncidentsHaveAlerts'
  PROVE  ChecksInv'
<1>1. PICK n : n = Idle
  OBVIOUS
<1>2. Knows(n)'
  BY <1>1, IdleKnows DEF Knows
<1>. QED BY <1>1, <1>2, Moves DEF Finish

\* Rows that stay as they are.
Untouched == UNCHANGED <<kind, trip, cse, alert, caseOf, told, inc>>

LEMMA UntouchedKeeps ==
  ASSUME ChecksInv, Untouched
  PROVE  OneAlarm' /\ IncidentsHaveAlerts' /\ \A h : Knows(h) => Knows(h)'
<1>1. OneAlarm' /\ IncidentsHaveAlerts'
  BY DEF ChecksInv, Untouched, OneAlarm, IncidentsHaveAlerts
<1>2. /\ Made' = Made
      /\ \A a : Reportable(a)' = Reportable(a)
      /\ \A a : Wanted(a)' = Wanted(a)
  BY DEF Untouched, Made, Wanted, Reportable
<1>3. ASSUME NEW h, Knows(h) PROVE Knows(h)'
  BY <1>2, <1>3 DEF Untouched, Knows
<1>. QED BY <1>1, <1>3

\* No new alert of a case, and no incident without an alert.
LEMMA RowsFollow ==
  ASSUME ChecksInv, kind' = kind,
         \A a \in Checked : (kind = "MEMBER" /\ alert'[a] # "NONE")
                               => alert[a] # "NONE" /\ caseOf'[a] = caseOf[a],
         \A a \in Alerts : alert[a] # "NONE" => alert'[a] # "NONE",
         \A a \in Alerts : inc'[a] # "NONE" => inc[a] # "NONE" \/ alert[a] # "NONE"
  PROVE  OneAlarm' /\ IncidentsHaveAlerts'
<1>1. OneAlarm'
  BY DEF ChecksInv, OneAlarm
<1>2. IncidentsHaveAlerts'
  BY DEF ChecksInv, IncidentsHaveAlerts
<1>. QED BY <1>1, <1>2

\* A handler begins when everybody rests.
LEMMA Starts ==
  ASSUME IInv, ChecksInv, Serial, NEW p \in Actors, NEW n, Begin(p, n), Knows(n)
  PROVE  ChecksInv'
<1>1. Others(p) /\ at' = [at EXCEPT ![p] = n] /\ Untouched
  BY DEF Begin, CanStart, Serial, Quiet, Others, Untouched, rows
<1>. QED BY <1>1, UntouchedKeeps, Moves

LEMMA WorldChecks ==
  ASSUME IInv, ChecksInv, Untouched, UNCHANGED at
  PROVE  ChecksInv'
<1>1. ASSUME NEW p \in Actors PROVE Knows(at[p])'
  <2>1. PICK h : h = at[p] /\ Knows(h)
    BY DEF ChecksInv
  <2>2. Knows(h)'
    BY <2>1, UntouchedKeeps
  <2>. QED BY <2>1, <2>2 DEF Knows
<1>2. Alone'
  BY DEF ChecksInv, Alone
<1>. QED BY <1>1, <1>2, UntouchedKeeps DEF ChecksInv

\* Handlers are cut short.
LEMMA FailChecks ==
  ASSUME IInv, ChecksInv, NEW p \in Actors, Fail(p)
  PROVE  ChecksInv'
<1>1. Untouched
  BY DEF Fail, Untouched, rows
<1>2. \A q \in Actors : at'[q] = at[q] \/ at'[q] = Idle
  BY DEF Fail, Finish, IInv
<1>3. ASSUME NEW q \in Actors PROVE Knows(at[q])'
  <2>1. PICK h : h = at'[q] /\ Knows(h)
    BY <1>2, IdleKnows DEF ChecksInv
  <2>2. Knows(h)'
    BY <1>1, <2>1, UntouchedKeeps
  <2>. QED BY <2>1, <2>2 DEF Knows
<1>4. Alone'
  BY <1>2 DEF ChecksInv, Alone
<1>. QED BY <1>1, <1>3, <1>4, UntouchedKeeps DEF ChecksInv

-----------------------------------------------------------------------------
(* Handlers begin *)

LEMMA BeginRequestChecks ==
  ASSUME IInv, ChecksInv, Serial, NEW r \in Requests, BeginRequest(r)
  PROVE  ChecksInv'
<1>1. ASSUME NEW c \in Cases, NEW pc, BeginRespond(r, c, pc) PROVE ChecksInv'
  <2>1. PICK n : n = [Idle EXCEPT !.pc = pc, !.c = c]
    OBVIOUS
  <2>2. n.pc \in {"clearAlerts", "confirm"} /\ Begin(r, n)
    BY <1>1, <2>1 DEF BeginRespond, Idle
  <2>3. Knows(n)
    BY <2>2 DEF Knows
  <2>. QED BY <2>2, <2>3, Starts, WhoActs
<1>2. ASSUME NEW a \in Checked, NEW pc, BeginAnswer(r, a, pc) PROVE ChecksInv'
  <2>1. PICK n : n = [Idle EXCEPT !.pc = pc, !.a = a, !.asked = asked[a], !.told = told[a]]
    OBVIOUS
  <2>2. n.pc \in {"safe", "help"} /\ n.a = a /\ alert[a] # "NONE" /\ Begin(r, n)
    BY <1>2, <2>1 DEF BeginAnswer, Idle
  <2>3. Knows(n)
    BY <2>2 DEF Knows
  <2>. QED BY <2>2, <2>3, Starts, WhoActs
<1>3. ASSUME NEW a \in Alerts, NEW pc, BeginAlert(r, a, pc) PROVE ChecksInv'
  <2>1. PICK n : n = [Idle EXCEPT !.pc = pc, !.a = a]
    OBVIOUS
  <2>2. n.pc \in {"resolveAlert", "acknowledge"} /\ n.a = a /\ alert[a] = "OPEN" /\ Begin(r, n)
    BY <1>3, <2>1 DEF BeginAlert, Idle
  <2>3. Knows(n)
    BY <2>2 DEF Knows
  <2>. QED BY <2>2, <2>3, Starts, WhoActs
<1>4. ASSUME NEW a \in Alerts, NEW to, BeginStaff(r, a, to) PROVE ChecksInv'
  <2>1. PICK n : n = [Idle EXCEPT !.pc = "staff", !.a = a, !.to = to]
    OBVIOUS
  <2>2. n.pc = "staff" /\ Begin(r, n)
    BY <1>4, <2>1 DEF BeginStaff, Idle
  <2>3. Knows(n)
    BY <2>2 DEF Knows
  <2>. QED BY <2>2, <2>3, Starts, WhoActs
<1>5. ASSUME BeginEvaluate(r) PROVE ChecksInv'
  <2>1. PICK n : n = [Idle EXCEPT !.pc = "evaluate", !.to = IF place = "LOST" THEN "OPEN" ELSE "RESOLVED"]
    OBVIOUS
  <2>2. n.pc = "evaluate" /\ Begin(r, n)
    BY <1>5, <2>1 DEF BeginEvaluate, Idle
  <2>3. Knows(n)
    BY <2>2 DEF Knows
  <2>. QED BY <2>2, <2>3, Starts, WhoActs
<1>. QED BY <1>1, <1>2, <1>3, <1>4, <1>5 DEF BeginRequest

LEMMA BeginOthersChecks ==
  ASSUME IInv, ChecksInv, Serial, BeginSweep \/ BeginSync \/ BeginEnd \/ BeginReconcile
  PROVE  ChecksInv'
<1>1. CASE BeginSweep
  <2>1. PICK n : n = [Idle EXCEPT !.pc = "look", !.lost = (place = "LOST")]
    OBVIOUS
  <2>2. n.pc = "look" /\ Begin(Sweeper, n)
    BY <1>1, <2>1 DEF BeginSweep, Idle
  <2>3. Knows(n)
    BY <2>2 DEF Knows
  <2>. QED BY <2>2, <2>3, Starts, WhoActs
<1>2. CASE BeginSync
  <2>. DEFINE made == {a \in Alerts : alert[a] # "NONE"}
              open == {a \in made : Reportable(a)}
  <2>1. PICK n : n = [Idle EXCEPT !.pc = "readTrip", !.make = open, !.shut = made \ open]
    OBVIOUS
  <2>2. n.pc = "readTrip" /\ n.make = open /\ n.shut = made \ open /\ Begin(Desk, n)
    BY <1>2, <2>1 DEF BeginSync, Idle
  <2>3. open = {a \in Alerts : Reportable(a)} /\ made = Made
    BY DEF Reportable, Made
  <2>. HIDE DEF made, open
  <2>4. Knows(n)
    BY <2>2, <2>3 DEF Knows
  <2>. QED BY <2>2, <2>4, Starts, WhoActs
<1>3. CASE BeginEnd
  <2>1. PICK n : n = [Idle EXCEPT !.pc = "expire", !.to = "ENDED"]
    OBVIOUS
  <2>2. n.pc = "expire" /\ Begin(Lifecycle, n)
    BY <1>3, <2>1 DEF BeginEnd, Idle
  <2>3. Knows(n)
    BY <2>2 DEF Knows
  <2>. QED BY <2>2, <2>3, Starts, WhoActs
<1>4. CASE BeginReconcile
  <2>1. PICK n : n = [Idle EXCEPT !.pc = "expire"]
    OBVIOUS
  <2>2. n.pc = "expire" /\ Begin(Lifecycle, n)
    BY <1>4, <2>1 DEF BeginReconcile, Idle
  <2>3. Knows(n)
    BY <2>2 DEF Knows
  <2>. QED BY <2>2, <2>3, Starts, WhoActs
<1>. QED BY <1>1, <1>2, <1>3, <1>4

-----------------------------------------------------------------------------
(* The sweep goes on *)

LEMMA Looked ==
  ASSUME IInv, ChecksInv, At(Sweeper, "look"),
         NEW pc \in {"openCase", "findAlert", "askAgain", "resolveCase", "prompt", "ask", "linked"},
         NEW c \in {0} \cup Cases, NEW a \in Alerts, LookFor(pc, c, a),
         pc = "askAgain" => cse[c] = "FALSE_ALARM",
         pc = "linked" => alert[a] # "NONE"
  PROVE  ChecksInv'
<1>. DEFINE ask == IF a = 0 THEN FALSE ELSE asked[a]
            tell == IF a = 0 THEN FALSE ELSE told[a]
<1>1. PICK g \in Handler : g = at[Sweeper] /\ Good(g)
  BY Held, WhoActs
<1>2. PICK n : n = [g EXCEPT !.pc = pc, !.c = c, !.a = a, !.asked = ask, !.told = tell]
  OBVIOUS
<1>3. n.pc = pc /\ n.c = c /\ n.a = a
  BY <1>2 DEF Handler
<1>4. at' = [at EXCEPT ![Sweeper] = n]
  BY <1>1, <1>2, WhoActs DEF LookFor, IInv
<1>5. Others(Sweeper)
  BY AtWork, WhoActs DEF At
<1>6. Knows(n)
  BY <1>3 DEF Knows
<1>7. Untouched
  BY DEF LookFor, Unwritten, Fixed, rows, Untouched
<1>8. Knows(n)'
  BY <1>6, <1>7, UntouchedKeeps
<1>. QED BY <1>4, <1>5, <1>7, <1>8, UntouchedKeeps, Moves, WhoActs

LEMMA LookChecks ==
  ASSUME IInv, ChecksInv, LookAtCase \/ LookAtAlert
  PROVE  ChecksInv'
<1>1. 0 \in Alerts /\ At(Sweeper, "look") /\ Others(Sweeper)
  BY AtWork, WhoActs DEF LookAtCase, LookAtAlert, Alerts, Gap, At
<1>2. CASE LookFor("openCase", 0, 0) \/ LookFor("prompt", 0, 0)
  BY <1>1, <1>2, Looked
<1>3. ASSUME NEW c \in Cases, NEW pc, pc = IF at[Sweeper].lost THEN DueCase(c) ELSE "resolveCase",
             pc # "idle", LookFor(pc, c, 0)
      PROVE  ChecksInv'
  <2>1. pc \in {"findAlert", "askAgain", "resolveCase"}
    BY <1>3 DEF DueCase
  <2>2. pc = "askAgain" => cse[c] = "FALSE_ALARM"
    BY <1>3 DEF DueCase
  <2>. QED BY <1>1, <1>3, <2>1, <2>2, Looked
<1>4. ASSUME NEW a \in Checked, NEW pc, pc = IF at[Sweeper].lost THEN DueAlert(a) ELSE "linked",
             pc # "idle", LookFor(pc, 0, a), alert[a] = "OPEN"
      PROVE  ChecksInv'
  <2>1. pc \in {"ask", "linked"}
    BY <1>4 DEF DueAlert
  <2>. QED BY <1>1, <1>4, <2>1, Looked, CasesAreChecked
<1>5. CASE Finish(Sweeper) /\ Unwritten
  <2>1. Untouched
    BY <1>5 DEF Unwritten, Fixed, rows, Untouched
  <2>. QED BY <1>1, <1>5, <2>1, UntouchedKeeps, Rests, WhoActs
<1>6. CASE LookAtCase
  BY <1>2, <1>3, <1>5, <1>6 DEF LookAtCase
<1>7. CASE LookAtAlert
  BY <1>2, <1>4, <1>5, <1>7 DEF LookAtAlert, Latest, OpenAlerts
<1>. QED BY <1>6, <1>7

\* The case is written, the alerts stay.
LEMMA CaseChecks ==
  ASSUME IInv, ChecksInv, OpenCase \/ AskAgain \/ ResolveCase
  PROVE  ChecksInv'
<1>1. PICK g \in Handler : g = at[Sweeper] /\ Good(g)
  BY Held, WhoActs
<1>2. Others(Sweeper)
  BY AtWork, WhoActs DEF OpenCase, AskAgain, ResolveCase, At
<1>3. UNCHANGED <<kind, alert, caseOf, inc>>
  BY DEF OpenCase, AskAgain, ResolveCase, Fixed
<1>4. OneAlarm' /\ IncidentsHaveAlerts'
  BY <1>3, RowsFollow
<1>5. CASE Finish(Sweeper)
  BY <1>2, <1>4, <1>5, Rests, WhoActs
<1>6. CASE Goto(Sweeper, "resolveAlerts")
  <2>1. \A h \in Handler : (h.pc = "resolveAlerts" /\ Same(h, g)) => Knows(h)'
    BY DEF Knows
  <2>. QED BY <1>1, <1>2, <1>4, <1>6, <2>1, Goes, WhoActs DEF Places
<1>. QED BY <1>5, <1>6 DEF OpenCase, AskAgain, ResolveCase

\* Alerts of a check are written, and the handler rests.
LEMMA AlertChecks ==
  ASSUME IInv, ChecksInv, ResolveAlerts \/ Prompt \/ Ask \/ Clear
  PROVE  ChecksInv'
<1>1. PICK g \in Handler : g = at[Sweeper] /\ Good(g)
  BY Held, WhoActs
<1>2. Others(Sweeper) /\ Finish(Sweeper) /\ UNCHANGED <<kind, caseOf, inc>>
  BY AtWork, WhoActs DEF ResolveAlerts, Prompt, Ask, Clear, At, Fixed
<1>3. \A a \in Alerts : alert[a] # "NONE" => alert'[a] # "NONE"
  <2>1. CASE ResolveAlerts
    BY <2>1 DEF ResolveAlerts, CloseAlerts
  <2>2. CASE Prompt
    BY <2>2 DEF Prompt, IInv, RowTypes
  <2>3. CASE Ask
    BY <2>3 DEF Ask
  <2>4. CASE Clear
    BY <2>4 DEF Clear
  <2>. QED BY <2>1, <2>2, <2>3, <2>4
<1>4. \A a \in Checked : (kind = "MEMBER" /\ alert'[a] # "NONE") => alert[a] # "NONE"
  <2>1. CASE ResolveAlerts
    BY <2>1, CasesAreChecked DEF ResolveAlerts, CloseAlerts
  <2>2. CASE Prompt \/ Ask \/ Clear
    BY <1>1, <2>2 DEF Prompt, Ask, Clear, At, Good
  <2>. QED BY <2>1, <2>2
<1>5. OneAlarm' /\ IncidentsHaveAlerts'
  BY <1>2, <1>3, <1>4, RowsFollow
<1>. QED BY <1>2, <1>5, Rests, WhoActs

LEMMA CheckLinkedChecks ==
  ASSUME IInv, ChecksInv, CheckLinked
  PROVE  ChecksInv'
<1>1. PICK g \in Handler : g = at[Sweeper] /\ Good(g)
  BY Held, WhoActs
<1>2. Others(Sweeper) /\ alert[g.a] # "NONE"
  BY <1>1, AtWork, WhoActs DEF CheckLinked, At, Knows
<1>3. Untouched
  BY DEF CheckLinked, Unwritten, Fixed, rows, Untouched
<1>4. OneAlarm' /\ IncidentsHaveAlerts'
  BY <1>3, UntouchedKeeps
<1>5. CASE Finish(Sweeper)
  BY <1>2, <1>4, <1>5, Rests, WhoActs
<1>6. ASSUME NEW pc \in {"tell", "clear"}, Goto(Sweeper, pc) PROVE ChecksInv'
  <2>1. \A h \in Handler : (h.pc = pc /\ Same(h, g)) => Knows(h)'
    BY <1>2, <1>3, <1>6 DEF Knows, Same, Untouched
  <2>2. pc \in Places
    BY DEF Places
  <2>. QED BY <1>1, <1>2, <1>4, <1>6, <2>1, <2>2, Goes, WhoActs
<1>. QED BY <1>5, <1>6 DEF CheckLinked

LEMMA TellChecks ==
  ASSUME IInv, ChecksInv, Tell
  PROVE  ChecksInv'
<1>1. PICK g \in Handler : g = at[Sweeper] /\ Good(g)
  BY Held, WhoActs
<1>2. Others(Sweeper) /\ alert[g.a] # "NONE"
  BY <1>1, AtWork, WhoActs DEF Tell, At, Knows
<1>3. UNCHANGED <<kind, alert, caseOf, inc>> /\ Goto(Sweeper, "findIncident")
  BY DEF Tell, Fixed
<1>4. OneAlarm' /\ IncidentsHaveAlerts'
  BY <1>3, RowsFollow
<1>5. \A h \in Handler : (h.pc = "findIncident" /\ Same(h, g)) => Knows(h)'
  BY <1>2, <1>3 DEF Knows, Same
<1>. QED BY <1>1, <1>2, <1>3, <1>4, <1>5, Goes, WhoActs DEF Places

LEMMA SweepChecks ==
  ASSUME IInv, ChecksInv, SweepStep
  PROVE  ChecksInv'
  BY LookChecks, CaseChecks, AlertChecks, CheckLinkedChecks, TellChecks DEF SweepStep

-----------------------------------------------------------------------------
(* Escalations go on *)

\* Where a handler goes on once the incident is there.
LEMMA AfterChecks ==
  ASSUME IInv, NEW p \in Actors, Others(p), AfterIncident(p), OneAlarm', IncidentsHaveAlerts'
  PROVE  ChecksInv'
<1>1. PICK g \in Handler : g = at[p] /\ Good(g)
  BY Held
<1>2. CASE Goto(p, "escalate")
  <2>1. \A h \in Handler : (h.pc = "escalate" /\ Same(h, g)) => Knows(h)'
    BY DEF Knows
  <2>. QED BY <1>1, <1>2, <2>1, Goes DEF Places
<1>3. CASE Finish(p)
  BY <1>3, Rests
<1>. QED BY <1>2, <1>3 DEF AfterIncident

LEMMA FindAlertChecks ==
  ASSUME IInv, ChecksInv, NEW p \in Actors, FindAlert(p)
  PROVE  ChecksInv'
<1>1. PICK g \in Handler : g = at[p] /\ Good(g)
  BY Held
<1>2. Others(p) /\ Untouched
  BY AtWork DEF FindAlert, At, Unwritten, Fixed, rows, Untouched
<1>3. OneAlarm' /\ IncidentsHaveAlerts'
  BY <1>2, UntouchedKeeps
<1>4. ASSUME NEW a \in Checked, alert[a] # "NONE",
             at' = [at EXCEPT ![p].pc = "findIncident", ![p].a = a]
      PROVE  ChecksInv'
  <2>1. PICK n : n = [g EXCEPT !.pc = "findIncident", !.a = a]
    OBVIOUS
  <2>2. at' = [at EXCEPT ![p] = n] /\ n.pc = "findIncident" /\ n.a = a
    BY <1>1, <1>4, <2>1 DEF IInv, Handler
  <2>3. Knows(n)'
    BY <1>2, <1>4, <2>2 DEF Knows, Untouched
  <2>. QED BY <1>2, <1>3, <2>2, <2>3, Moves
<1>5. ASSUME \A a \in Checked : ~(alert[a] # "NONE" /\ caseOf[a] = g.c), Goto(p, "createAlert")
      PROVE  ChecksInv'
  <2>1. \A h \in Handler : (h.pc = "createAlert" /\ Same(h, g)) => Knows(h)'
    BY <1>2, <1>5 DEF Knows, Same, Untouched
  <2>. QED BY <1>1, <1>2, <1>3, <1>5, <2>1, Goes DEF Places
<1>. QED BY <1>1, <1>4, <1>5 DEF FindAlert

\* Nobody has made an alert of the case since the handler looked.
LEMMA CreateAlertChecks ==
  ASSUME IInv, ChecksInv, NEW p \in Actors, CreateAlert(p)
  PROVE  ChecksInv'
<1>1. PICK g \in Handler : g = at[p] /\ Good(g)
  BY Held
<1>2. Others(p) /\ \A a \in Checked : alert[a] # "NONE" => caseOf[a] # g.c
  BY <1>1, AtWork DEF CreateAlert, At, Knows
<1>3. PICK b \in Checked : /\ alert' = [alert EXCEPT ![b] = "OPEN"]
                           /\ caseOf' = [caseOf EXCEPT ![b] = g.c]
                           /\ at' = [at EXCEPT ![p].pc = "findIncident", ![p].a = b]
  BY <1>1 DEF CreateAlert
<1>4. UNCHANGED <<kind, inc>>
  BY DEF CreateAlert, Fixed
<1>5. /\ \A a \in Alerts : alert'[a] = IF a = b THEN "OPEN" ELSE alert[a]
      /\ \A a \in Checked : caseOf'[a] = IF a = b THEN g.c ELSE caseOf[a]
  BY <1>3 DEF IInv, RowTypes
<1>6. OneAlarm'
  <2>. SUFFICES ASSUME kind' = "MEMBER", NEW a \in Checked, NEW d \in Checked, alert'[a] # "NONE",
                       alert'[d] # "NONE", caseOf'[a] = caseOf'[d]
                PROVE  a = d
    BY DEF OneAlarm
  <2>1. CASE a = b \/ d = b
    BY <1>2, <1>5, <2>1, CasesAreChecked
  <2>2. CASE a # b /\ d # b
    BY <1>4, <1>5, <2>2, CasesAreChecked DEF ChecksInv, OneAlarm
  <2>. QED BY <2>1, <2>2
<1>7. IncidentsHaveAlerts'
  BY <1>4, <1>5 DEF ChecksInv, IncidentsHaveAlerts
<1>8. PICK n : n = [g EXCEPT !.pc = "findIncident", !.a = b]
  OBVIOUS
<1>9. at' = [at EXCEPT ![p] = n] /\ n.pc = "findIncident" /\ n.a = b
  BY <1>1, <1>3, <1>8 DEF IInv, Handler
<1>10. Knows(n)'
  BY <1>5, <1>9, CasesAreChecked DEF Knows
<1>. QED BY <1>2, <1>6, <1>7, <1>9, <1>10, Moves

LEMMA FindIncidentChecks ==
  ASSUME IInv, ChecksInv, NEW p \in Actors, FindIncident(p)
  PROVE  ChecksInv'
<1>1. PICK g \in Handler : g = at[p] /\ Good(g)
  BY Held
<1>2. Others(p) /\ alert[g.a] # "NONE" /\ Untouched
  BY <1>1, AtWork DEF FindIncident, At, Knows, Unwritten, Fixed, rows, Untouched
<1>3. OneAlarm' /\ IncidentsHaveAlerts'
  BY <1>2, UntouchedKeeps
<1>4. CASE AfterIncident(p)
  BY <1>2, <1>3, <1>4, AfterChecks
<1>5. CASE inc[g.a] = "NONE" /\ Goto(p, "createIncident")
  <2>1. \A h \in Handler : (h.pc = "createIncident" /\ Same(h, g)) => Knows(h)'
    BY <1>2, <1>5 DEF Knows, Same, Untouched
  <2>. QED BY <1>1, <1>2, <1>3, <1>5, <2>1, Goes DEF Places
<1>. QED BY <1>1, <1>4, <1>5 DEF FindIncident

\* The unique key never breaks: the alert had no incident, and still has none.
LEMMA IncidentIsMade ==
  ASSUME ChecksInv, NEW p \in Actors, CreateIncident(p)
  PROVE  /\ inc[at[p].a] = "NONE" /\ alert[at[p].a] # "NONE"
         /\ inc' = [inc EXCEPT ![at[p].a] = "OPEN"] /\ AfterIncident(p)
  BY AtWork DEF CreateIncident, At, Knows

LEMMA CreateIncidentChecks ==
  ASSUME IInv, ChecksInv, NEW p \in Actors, CreateIncident(p)
  PROVE  ChecksInv'
<1>1. Others(p)
  BY AtWork DEF CreateIncident, At
<1>2. UNCHANGED <<kind, alert, caseOf>>
  BY DEF CreateIncident, Fixed
<1>3. \A a \in Alerts : inc'[a] # "NONE" => inc[a] # "NONE" \/ alert[a] # "NONE"
  BY IncidentIsMade DEF IInv, RowTypes
<1>4. OneAlarm' /\ IncidentsHaveAlerts'
  BY <1>2, <1>3, RowsFollow
<1>. QED BY <1>1, <1>4, IncidentIsMade, AfterChecks

LEMMA EscalateChecks ==
  ASSUME IInv, ChecksInv, NEW p \in Actors, Escalate(p)
  PROVE  ChecksInv'
<1>1. Others(p) /\ Finish(p)
  BY AtWork DEF Escalate, At
<1>2. UNCHANGED <<kind, alert, caseOf, inc>>
  BY DEF Escalate, Fixed
<1>. QED BY <1>1, <1>2, RowsFollow, Rests

-----------------------------------------------------------------------------
(* Answers, and others who write alerts and incidents *)

LEMMA ClearAlertsChecks ==
  ASSUME IInv, ChecksInv, NEW r \in Requests, ClearAlerts(r)
  PROVE  ChecksInv'
<1>1. PICK g \in Handler : g = at[r] /\ Good(g)
  BY Held, WhoActs
<1>2. Others(r) /\ Goto(r, "falseAlarm") /\ UNCHANGED <<kind, caseOf, inc>>
  BY AtWork, WhoActs DEF ClearAlerts, At, Fixed
<1>3. alert' = [a \in Alerts |-> IF a # Gap /\ alert[a] = "OPEN" /\ caseOf[a] = g.c
                                 THEN "RESOLVED" ELSE alert[a]]
  BY <1>1 DEF ClearAlerts, CloseAlerts
<1>4. OneAlarm' /\ IncidentsHaveAlerts'
  BY <1>2, <1>3, CasesAreChecked, RowsFollow
<1>5. \A a \in Checked : alert'[a] = "OPEN" => caseOf[a] # g.c
  BY <1>3, CasesAreChecked
<1>6. \A h \in Handler : (h.pc = "falseAlarm" /\ Same(h, g)) => Knows(h)'
  BY <1>2, <1>5 DEF Knows, Same
<1>. QED BY <1>1, <1>2, <1>4, <1>6, Goes, WhoActs DEF Places

LEMMA ConfirmChecks ==
  ASSUME IInv, ChecksInv, NEW r \in Requests, Confirm(r)
  PROVE  ChecksInv'
<1>1. PICK g \in Handler : g = at[r] /\ Good(g)
  BY Held, WhoActs
<1>2. Others(r) /\ Goto(r, "findAlert") /\ UNCHANGED <<kind, alert, caseOf, inc>>
  BY AtWork, WhoActs DEF Confirm, At, Fixed
<1>3. OneAlarm' /\ IncidentsHaveAlerts'
  BY <1>2, RowsFollow
<1>4. \A h \in Handler : (h.pc = "findAlert" /\ Same(h, g)) => Knows(h)'
  BY DEF Knows
<1>. QED BY <1>1, <1>2, <1>3, <1>4, Goes, WhoActs DEF Places

LEMMA HelpChecks ==
  ASSUME IInv, ChecksInv, NEW r \in Requests, Help(r)
  PROVE  ChecksInv'
<1>1. PICK g \in Handler : g = at[r] /\ Good(g)
  BY Held, WhoActs
<1>2. /\ Others(r) /\ Goto(r, "findIncident") /\ alert[g.a] # "NONE"
      /\ UNCHANGED <<kind, alert, caseOf, inc>>
  BY <1>1, AtWork, WhoActs DEF Help, At, Fixed, Knows
<1>3. OneAlarm' /\ IncidentsHaveAlerts'
  BY <1>2, RowsFollow
<1>4. \A h \in Handler : (h.pc = "findIncident" /\ Same(h, g)) => Knows(h)'
  BY <1>2 DEF Knows, Same
<1>. QED BY <1>1, <1>2, <1>3, <1>4, Goes, WhoActs DEF Places

\* The request writes and rests.
LEMMA LastStepChecks ==
  ASSUME IInv, ChecksInv, NEW r \in Requests,
         FalseAlarm(r) \/ Safe(r) \/ ResolveAlert(r) \/ Acknowledge(r) \/ Staff(r) \/ Evaluate(r)
  PROVE  ChecksInv'
<1>1. PICK g \in Handler : g = at[r] /\ Good(g)
  BY Held, WhoActs
<1>2. Others(r) /\ Finish(r) /\ UNCHANGED <<kind, caseOf>>
  BY AtWork, WhoActs DEF FalseAlarm, Safe, ResolveAlert, Acknowledge, Staff, Evaluate, At, Fixed
<1>3. \A a \in Alerts : alert[a] # "NONE" => alert'[a] # "NONE"
  <2>1. CASE FalseAlarm(r) \/ Staff(r)
    BY <2>1 DEF FalseAlarm, Staff
  <2>2. CASE Safe(r) \/ ResolveAlert(r) \/ Acknowledge(r)
    BY <2>2 DEF Safe, ResolveAlert, Acknowledge, IInv, RowTypes
  <2>3. CASE Evaluate(r)
    <3>1. at[r].to # "NONE"
      BY <1>1, <2>3 DEF Evaluate, At, Good
    <3>. QED BY <2>3, <3>1 DEF Evaluate, IInv, RowTypes
  <2>. QED BY <2>1, <2>2, <2>3
<1>4. \A a \in Checked : (kind = "MEMBER" /\ alert'[a] # "NONE") => alert[a] # "NONE"
  <2>1. CASE FalseAlarm(r) \/ Staff(r)
    BY <2>1 DEF FalseAlarm, Staff
  <2>2. CASE Safe(r)
    BY <1>1, <2>2 DEF Safe, At, Good
  <2>3. CASE ResolveAlert(r) \/ Acknowledge(r)
    <3>1. alert[g.a] # "NONE"
      BY <1>1, <2>3 DEF ResolveAlert, Acknowledge, At, Good
    <3>. QED BY <1>1, <2>3, <3>1, CasesAreChecked DEF ResolveAlert, Acknowledge, IInv, RowTypes
  <2>4. CASE Evaluate(r)
    BY <2>4, CasesAreChecked DEF Evaluate, IInv, RowTypes
  <2>. QED BY <2>1, <2>2, <2>3, <2>4
<1>5. \A a \in Alerts : inc'[a] # "NONE" => inc[a] # "NONE"
  <2>1. CASE Staff(r)
    <3>1. inc[g.a] # "NONE"
      BY <1>1, <2>1 DEF Staff, At, Good
    <3>. QED BY <1>1, <2>1, <3>1 DEF Staff, IInv, RowTypes
  <2>2. CASE ResolveAlert(r)
    BY <2>2 DEF ResolveAlert, IInv, RowTypes
  <2>3. CASE UNCHANGED inc
    BY <2>3
  <2>. QED BY <2>1, <2>2, <2>3 DEF FalseAlarm, Safe, Acknowledge, Evaluate
<1>6. OneAlarm' /\ IncidentsHaveAlerts'
  BY <1>2, <1>3, <1>4, <1>5, RowsFollow
<1>. QED BY <1>2, <1>6, Rests, WhoActs

-----------------------------------------------------------------------------
(* The disaster managers' queue, and the end of the trip *)

LEMMA SyncTripChecks ==
  ASSUME IInv, ChecksInv, SyncTrip
  PROVE  ChecksInv'
<1>1. PICK g \in Handler : g = at[Desk] /\ Good(g)
  BY Held, WhoActs
<1>2. /\ Others(Desk) /\ Untouched
      /\ g.make = {a \in Alerts : Reportable(a)}
      /\ g.shut = Made \ g.make
  BY <1>1, AtWork, WhoActs DEF SyncTrip, At, Knows, Unwritten, Fixed, rows, Untouched
<1>3. PICK n : n = [g EXCEPT !.pc = "readIncidents",
                             !.make = IF trip = "ACTIVE" THEN g.make ELSE {},
                             !.shut = IF trip = "ACTIVE" THEN g.shut ELSE g.shut \cup g.make]
  OBVIOUS
<1>4. at' = [at EXCEPT ![Desk] = n]
  <2>1. CASE trip = "ACTIVE"
    BY <1>1, <1>3, <2>1, WhoActs DEF SyncTrip, IInv
  <2>2. CASE trip # "ACTIVE"
    BY <1>1, <1>3, <2>2, WhoActs DEF SyncTrip, IInv
  <2>. QED BY <2>1, <2>2
<1>5. /\ n.pc = "readIncidents"
      /\ n.make = IF trip = "ACTIVE" THEN g.make ELSE {}
      /\ n.shut = IF trip = "ACTIVE" THEN g.shut ELSE g.shut \cup g.make
  BY <1>3 DEF Handler
<1>6. n.make = {a \in Alerts : Wanted(a)} /\ n.shut = Made \ n.make
  <2>1. CASE trip = "ACTIVE"
    BY <1>2, <1>5, <2>1 DEF Wanted
  <2>2. CASE trip # "ACTIVE"
    <3>1. {a \in Alerts : Wanted(a)} = {} /\ g.make \subseteq Made
      BY <1>2, <2>2 DEF Wanted, Made, Reportable
    <3>. QED BY <1>2, <1>5, <2>2, <3>1
  <2>. QED BY <2>1, <2>2
<1>7. Knows(n)
  BY <1>5, <1>6 DEF Knows
<1>. QED BY <1>2, <1>4, <1>7, UntouchedKeeps, Moves, WhoActs

LEMMA SyncIncidentsChecks ==
  ASSUME IInv, ChecksInv, SyncIncidents
  PROVE  ChecksInv'
<1>1. PICK g \in Handler : g = at[Desk] /\ Good(g)
  BY Held, WhoActs
<1>2. /\ Others(Desk) /\ Untouched
      /\ g.make = {a \in Alerts : Wanted(a)}
      /\ g.shut = Made \ g.make
  BY <1>1, AtWork, WhoActs DEF SyncIncidents, At, Knows, Unwritten, Fixed, rows, Untouched
<1>3. PICK n : n = [g EXCEPT !.pc = "sync", !.make = {a \in g.make : inc[a] = "NONE"},
                             !.shut = {a \in g.shut : inc[a] = "OPEN"}]
  OBVIOUS
<1>4. at' = [at EXCEPT ![Desk] = n]
  BY <1>1, <1>3, WhoActs DEF SyncIncidents, IInv
<1>5. /\ n.pc = "sync"
      /\ n.make = {a \in g.make : inc[a] = "NONE"}
      /\ n.shut = {a \in g.shut : inc[a] = "OPEN"}
  BY <1>3 DEF Handler
<1>6. \A a \in Alerts : inc[a] = "OPEN" => a \in Made
  BY DEF ChecksInv, IncidentsHaveAlerts, Made
<1>7. Knows(n)
  BY <1>2, <1>5, <1>6 DEF Knows
<1>. QED BY <1>2, <1>4, <1>7, UntouchedKeeps, Moves, WhoActs

\* What the sync has read still holds at each row it writes.
LEMMA SyncRows ==
  ASSUME IInv, ChecksInv, Sync
  PROVE  \/ \E a \in at[Desk].make : inc[a] = "NONE" /\ inc' = [inc EXCEPT ![a] = "OPEN"]
                                     /\ at' = [at EXCEPT ![Desk].make = @ \ {a}]
         \/ \E a \in at[Desk].shut : inc[a] # "NONE" /\ inc' = [inc EXCEPT ![a] = "RESOLVED"]
                                     /\ at' = [at EXCEPT ![Desk].shut = @ \ {a}]
         \/ at[Desk].make = {} /\ at[Desk].shut = {} /\ inc' = inc /\ Finish(Desk)
<1>1. PICK g \in Handler : g = at[Desk] /\ Good(g)
  BY Held, WhoActs
<1>2. (\A a \in g.make : inc[a] = "NONE") /\ (\A a \in g.shut : inc[a] # "NONE")
  BY <1>1, AtWork, WhoActs DEF Sync, At, Knows, Good
<1>3. CASE \E a \in Alerts : SyncMake(a)
  BY <1>1, <1>2, <1>3 DEF SyncMake
<1>4. CASE \E a \in Alerts : SyncShut(a)
  BY <1>1, <1>2, <1>4 DEF SyncShut
<1>. QED BY <1>3, <1>4 DEF Sync

LEMMA SyncChecks ==
  ASSUME IInv, ChecksInv, Sync
  PROVE  ChecksInv'
<1>1. PICK g \in Handler : g = at[Desk] /\ Good(g)
  BY Held, WhoActs
<1>2. /\ Others(Desk) /\ g.pc = "sync" /\ Knows(g) /\ g.make \subseteq Alerts /\ g.shut \subseteq Alerts
      /\ UNCHANGED <<kind, trip, alert, caseOf, told>>
  BY <1>1, AtWork, WhoActs DEF Sync, At, Fixed, Handler
<1>3. \A a \in Alerts : Wanted(a)' = Wanted(a)
  BY <1>2 DEF Wanted, Reportable
<1>4. /\ \A a \in g.make : Wanted(a) /\ inc[a] = "NONE"
      /\ \A a \in g.shut : inc[a] # "NONE"
      /\ \A a \in Alerts : Wanted(a) => inc[a] # "NONE" \/ a \in g.make
      /\ \A a \in Alerts : inc[a] = "OPEN" => Wanted(a) \/ a \in g.shut
  BY <1>1, <1>2 DEF Knows, Good
<1>5. ASSUME NEW b \in g.make, inc' = [inc EXCEPT ![b] = "OPEN"],
             at' = [at EXCEPT ![Desk].make = @ \ {b}]
      PROVE  ChecksInv'
  <2>1. PICK n : n = [g EXCEPT !.make = g.make \ {b}]
    OBVIOUS
  <2>2. at' = [at EXCEPT ![Desk] = n] /\ n.pc = "sync" /\ n.make = g.make \ {b} /\ n.shut = g.shut
    BY <1>1, <1>2, <1>5, <2>1, WhoActs DEF IInv, Handler
  <2>3. \A a \in Alerts : inc'[a] = IF a = b THEN "OPEN" ELSE inc[a]
    BY <1>5 DEF IInv, RowTypes
  <2>4. \A a \in n.make : Wanted(a)' /\ inc'[a] = "NONE"
    BY <1>2, <1>3, <1>4, <2>2, <2>3
  <2>5. \A a \in Alerts : Wanted(a)' => inc'[a] # "NONE" \/ a \in n.make
    BY <1>3, <1>4, <2>2, <2>3
  <2>6. \A a \in Alerts : inc'[a] = "OPEN" => Wanted(a)' \/ a \in n.shut
    BY <1>2, <1>3, <1>4, <2>2, <2>3
  <2>7. Knows(n)'
    BY <2>2, <2>4, <2>5, <2>6 DEF Knows
  <2>8. \A a \in Alerts : inc'[a] # "NONE" => inc[a] # "NONE" \/ alert[a] # "NONE"
    BY <1>2, <1>4, <2>3 DEF Wanted, Reportable
  <2>9. OneAlarm' /\ IncidentsHaveAlerts'
    BY <1>2, <2>8, RowsFollow
  <2>. QED BY <1>2, <2>2, <2>7, <2>9, Moves, WhoActs
<1>6. ASSUME NEW b \in g.shut, inc' = [inc EXCEPT ![b] = "RESOLVED"],
             at' = [at EXCEPT ![Desk].shut = @ \ {b}]
      PROVE  ChecksInv'
  <2>1. PICK n : n = [g EXCEPT !.shut = g.shut \ {b}]
    OBVIOUS
  <2>2. at' = [at EXCEPT ![Desk] = n] /\ n.pc = "sync" /\ n.make = g.make /\ n.shut = g.shut \ {b}
    BY <1>1, <1>2, <1>6, <2>1, WhoActs DEF IInv, Handler
  <2>3. \A a \in Alerts : inc'[a] = IF a = b THEN "RESOLVED" ELSE inc[a]
    BY <1>6 DEF IInv, RowTypes
  <2>4. \A a \in n.make : Wanted(a)' /\ inc'[a] = "NONE"
    BY <1>2, <1>3, <1>4, <1>6, <2>2, <2>3
  <2>5. \A a \in Alerts : Wanted(a)' => inc'[a] # "NONE" \/ a \in n.make
    BY <1>3, <1>4, <2>2, <2>3
  <2>6. \A a \in Alerts : inc'[a] = "OPEN" => Wanted(a)' \/ a \in n.shut
    BY <1>3, <1>4, <2>2, <2>3
  <2>7. Knows(n)'
    BY <2>2, <2>4, <2>5, <2>6 DEF Knows
  <2>8. \A a \in Alerts : inc'[a] # "NONE" => inc[a] # "NONE" \/ alert[a] # "NONE"
    BY <1>4, <1>6, <2>3
  <2>9. OneAlarm' /\ IncidentsHaveAlerts'
    BY <1>2, <2>8, RowsFollow
  <2>. QED BY <1>2, <2>2, <2>7, <2>9, Moves, WhoActs
<1>7. CASE inc' = inc /\ Finish(Desk)
  BY <1>2, <1>7, RowsFollow, Rests, WhoActs
<1>. QED BY <1>1, <1>5, <1>6, <1>7, SyncRows

LEMMA ExpireChecks ==
  ASSUME IInv, ChecksInv, Expire
  PROVE  ChecksInv'
<1>1. PICK g \in Handler : g = at[Lifecycle] /\ Good(g)
  BY Held, WhoActs
<1>2. Others(Lifecycle) /\ UNCHANGED <<kind, caseOf>>
  BY AtWork, WhoActs DEF Expire, At, Fixed
<1>3. /\ \A a \in Alerts : alert'[a] = IF alert[a] = "OPEN" THEN "RESOLVED" ELSE alert[a]
      /\ \A a \in Alerts : inc'[a] = IF inc[a] = "OPEN" THEN "DISMISSED" ELSE inc[a]
  BY DEF Expire
<1>4. OneAlarm' /\ IncidentsHaveAlerts'
  <2>1. \A a \in Checked : alert'[a] # "NONE" => alert[a] # "NONE" /\ caseOf'[a] = caseOf[a]
    BY <1>2, <1>3, CasesAreChecked
  <2>2. \A a \in Alerts : alert[a] # "NONE" => alert'[a] # "NONE"
    BY <1>3
  <2>3. \A a \in Alerts : inc'[a] # "NONE" => inc[a] # "NONE"
    BY <1>3
  <2>. QED BY <1>2, <2>1, <2>2, <2>3, RowsFollow
<1>5. CASE Finish(Lifecycle)
  BY <1>2, <1>4, <1>5, Rests, WhoActs
<1>6. CASE Goto(Lifecycle, "end")
  <2>1. \A h \in Handler : (h.pc = "end" /\ Same(h, g)) => Knows(h)'
    BY DEF Knows
  <2>. QED BY <1>1, <1>2, <1>4, <1>6, <2>1, Goes, WhoActs DEF Places
<1>. QED BY <1>5, <1>6 DEF Expire

LEMMA EndTripChecks ==
  ASSUME IInv, ChecksInv, EndTrip
  PROVE  ChecksInv'
<1>1. Others(Lifecycle) /\ Finish(Lifecycle) /\ UNCHANGED <<kind, alert, caseOf, inc>>
  BY AtWork, WhoActs DEF EndTrip, At, Fixed
<1>. QED BY <1>1, RowsFollow, Rests, WhoActs

LEMMA NextChecks ==
  ASSUME IInv, ChecksInv, Serial, [Next]_vars
  PROVE  ChecksInv'
<1>1. CASE UNCHANGED vars \/ Move \/ (\E k \in Checked : Deadline(k)) \/ (\E c \in Cases : Recheck(c))
  <2>1. Untouched /\ UNCHANGED at
    BY <1>1 DEF vars, rows, Move, Deadline, Recheck, Fixed, Untouched
  <2>. QED BY <2>1, WorldChecks
<1>2. CASE SweepStep
  BY <1>2, SweepChecks
<1>3. CASE BeginSweep \/ BeginSync \/ BeginEnd \/ BeginReconcile
  BY <1>3, BeginOthersChecks
<1>4. ASSUME NEW r \in Requests, BeginRequest(r) PROVE ChecksInv'
  BY <1>4, BeginRequestChecks
<1>5. ASSUME NEW r \in Requests, RequestStep(r) PROVE ChecksInv'
  BY <1>5, ClearAlertsChecks, ConfirmChecks, HelpChecks, LastStepChecks DEF RequestStep
<1>6. ASSUME NEW p \in Actors, EscalateStep(p) PROVE ChecksInv'
  BY <1>6, FindAlertChecks, CreateAlertChecks, FindIncidentChecks, CreateIncidentChecks,
     EscalateChecks DEF EscalateStep
<1>7. ASSUME NEW p \in Actors, Fail(p) PROVE ChecksInv'
  BY <1>7, FailChecks
<1>8. CASE DeskStep \/ Expire \/ EndTrip
  BY <1>8, SyncTripChecks, SyncIncidentsChecks, SyncChecks, ExpireChecks, EndTripChecks DEF DeskStep
<1>. QED BY <1>1, <1>2, <1>3, <1>4, <1>5, <1>6, <1>7, <1>8 DEF Next

-----------------------------------------------------------------------------
(* Open alerts belong to escalated cases, but for what the handler in      *)
(* flight is about to settle                                               *)

\* Everybody else rests, and settles nothing.
LEMMA SettledBefore ==
  ASSUME Settled, NEW p \in Actors, Others(p), kind = "MEMBER", NEW a \in Checked, alert[a] = "OPEN"
  PROVE  cse[caseOf[a]] = "ESCALATED" \/ Settles(at[p], caseOf[a])
  BY IdleKnows DEF Settled, Settles, Others

LEMMA SettledAfter ==
  ASSUME IInv, NEW p \in Actors, NEW n, at' = [at EXCEPT ![p] = n],
         kind' = "MEMBER" => \A a \in Checked : alert'[a] = "OPEN" =>
            cse'[caseOf'[a]] = "ESCALATED" \/ Settles(n, caseOf'[a])
  PROVE  Settled'
<1>1. at'[p] = n
  BY DEF IInv
<1>. QED BY <1>1 DEF Settled, Settles

LEMMA Resting == \A c : ~Settles(Idle, c)
  BY IdleKnows DEF Settles

\* The case an open alert was raised for.
LEMMA CaseOfAlert ==
  ASSUME IInv, kind = "MEMBER", NEW a \in Checked, alert[a] # "NONE"
  PROVE  caseOf[a] \in Cases
  BY CasesAreChecked DEF IInv, RowTypes, RowsOK

\* Cases stay escalated, no alert opens, and the handler had nothing to settle.
LEMMA SettledStays ==
  ASSUME IInv, Settled, NEW p \in Actors, Others(p), \A c : ~Settles(at[p], c), kind' = kind,
         \A a \in Checked : (kind = "MEMBER" /\ alert'[a] = "OPEN")
                               => alert[a] = "OPEN" /\ caseOf'[a] = caseOf[a],
         \A c \in Cases : cse[c] = "ESCALATED" =>
            cse'[c] = "ESCALATED" \/ \A a \in Checked : alert'[a] = "OPEN" => caseOf'[a] # c
  PROVE  Settled'
<1>. SUFFICES ASSUME kind = "MEMBER", NEW a \in Checked, alert'[a] = "OPEN"
              PROVE  cse'[caseOf'[a]] = "ESCALATED"
  BY DEF Settled
<1>1. alert[a] = "OPEN" /\ caseOf'[a] = caseOf[a]
  OBVIOUS
<1>2. cse[caseOf[a]] = "ESCALATED" /\ caseOf[a] \in Cases
  BY <1>1, SettledBefore, CaseOfAlert
<1>. QED BY <1>1, <1>2

LEMMA MoveOf ==
  ASSUME IInv, NEW p \in Actors, NEW pc, Goto(p, pc)
  PROVE  \E n : at' = [at EXCEPT ![p] = n] /\ n.pc = pc /\ n.c = at[p].c
<1>1. PICK g \in Handler : g = at[p]
  BY DEF IInv
<1>2. PICK n : n = [g EXCEPT !.pc = pc]
  OBVIOUS
<1>3. at' = [at EXCEPT ![p] = n] /\ n.pc = pc /\ n.c = g.c
  BY <1>1, <1>2 DEF Goto, Handler
<1>. QED BY <1>1, <1>3

\* Steps of handlers that read, or write other rows than cases and alerts.
LEMMA SettledElsewhere ==
  ASSUME IInv, Settled, NEW p \in Actors, Others(p),
         at[p].pc \notin {"findIncident", "createIncident", "escalate", "resolveAlerts"},
         UNCHANGED <<kind, cse, alert, caseOf>>
  PROVE  Settled'
  BY SettledStays DEF Settles

LEMMA SettledAtRest ==
  ASSUME IInv, Settled, UNCHANGED <<kind, cse, alert, caseOf, at>>
  PROVE  Settled'
  BY DEF Settled, Settles

\* Of the other two checks nothing is said.
LEMMA OfMembersOnly ==
  ASSUME IInv, kind # "MEMBER", kind' = kind
  PROVE  Settled'
  BY DEF Settled

LEMMA BeginSettled ==
  ASSUME IInv, Settled, Serial, NEW p \in Actors, NEW n, Begin(p, n)
  PROVE  Settled'
<1>1. Others(p) /\ at[p].pc = "idle" /\ UNCHANGED <<kind, cse, alert, caseOf>>
  BY IdleKnows DEF Begin, CanStart, Serial, Quiet, Others, rows
<1>. QED BY <1>1, SettledElsewhere

LEMMA BeginsSettled ==
  ASSUME IInv, Settled, Serial,
         \/ BeginSweep \/ BeginSync \/ BeginEnd \/ BeginReconcile
         \/ \E r \in Requests : BeginRequest(r)
  PROVE  Settled'
<1>1. \E p \in Actors : \E n : Begin(p, n)
  <2>1. CASE BeginSweep
    BY <2>1, WhoActs DEF BeginSweep
  <2>2. CASE BeginSync
    BY <2>2, WhoActs DEF BeginSync
  <2>3. CASE BeginEnd \/ BeginReconcile
    BY <2>3, WhoActs DEF BeginEnd, BeginReconcile
  <2>4. ASSUME NEW r \in Requests, BeginRequest(r) PROVE \E n : Begin(r, n)
    BY <2>4 DEF BeginRequest, BeginRespond, BeginAnswer, BeginAlert, BeginStaff, BeginEvaluate
  <2>. QED BY <2>1, <2>2, <2>3, <2>4, WhoActs
<1>. QED BY <1>1, BeginSettled

\* Steps that write neither a case nor an alert.
LEMMA SideSettled ==
  ASSUME IInv, ChecksInv, Settled, NEW p \in Actors,
         \/ p = Sweeper /\ (LookAtCase \/ LookAtAlert)
         \/ p \in Requests /\ (Confirm(p) \/ Staff(p))
         \/ p = Desk /\ DeskStep
         \/ p = Lifecycle /\ EndTrip
         \/ FindAlert(p)
  PROVE  Settled'
<1>1. /\ at[p].pc \notin {"idle", "findIncident", "createIncident", "escalate", "resolveAlerts"}
      /\ UNCHANGED <<kind, cse, alert, caseOf>>
  BY DEF LookAtCase, LookAtAlert, LookFor, Confirm, Staff, DeskStep, SyncTrip, SyncIncidents, Sync,
         EndTrip, FindAlert, At, Unwritten, Fixed, rows
<1>. QED BY <1>1, AtWork, SettledElsewhere

\* The member's case is written by the sweep: a new one, and one answered with a
\* false alarm, have no open alert; a resolved one has its alerts resolved next.
LEMMA CaseSettled ==
  ASSUME IInv, ChecksInv, Settled, OpenCase \/ AskAgain \/ ResolveCase
  PROVE  Settled'
<1>1. PICK g \in Handler : g = at[Sweeper] /\ Good(g)
  BY Held, WhoActs
<1>2. Others(Sweeper) /\ UNCHANGED <<kind, alert, caseOf>>
  BY AtWork, WhoActs DEF OpenCase, AskAgain, ResolveCase, At, Fixed
<1>3. \A c : ~Settles(g, c)
  BY <1>1 DEF OpenCase, AskAgain, ResolveCase, At, Settles
<1>4. CASE OpenCase
  <2>1. PICK c \in Cases : cse[c] = "NONE" /\ cse' = [cse EXCEPT ![c] = "WAITING"]
    <3>1. PICK c \in Cases : NewRow(cse, Cases, c) /\ cse' = [cse EXCEPT ![c] = "WAITING"]
      BY <1>4 DEF OpenCase
    <3>2. c \in Nat
      BY CheckAssumption DEF Cases
    <3>3. cse[c] = "NONE"
      BY <3>1, <3>2 DEF NewRow
    <3>. QED BY <3>1, <3>3
  <2>2. \A b \in Cases : cse[b] = "ESCALATED" => cse'[b] = "ESCALATED"
    BY <2>1 DEF IInv, RowTypes
  <2>. QED BY <1>1, <1>2, <1>3, <2>2, SettledStays, WhoActs
<1>5. CASE AskAgain
  <2>1. cse[g.c] = "FALSE_ALARM" /\ cse' = [cse EXCEPT ![g.c] = "WAITING"]
    BY <1>1, <1>5, AtWork, WhoActs DEF AskAgain, At, Knows
  <2>2. \A b \in Cases : cse[b] = "ESCALATED" => cse'[b] = "ESCALATED"
    BY <2>1 DEF IInv, RowTypes
  <2>. QED BY <1>1, <1>2, <1>3, <2>2, SettledStays, WhoActs
<1>6. CASE ResolveCase
  <2>1. cse' = [cse EXCEPT ![g.c] = "RESOLVED"]
    BY <1>1, <1>6 DEF ResolveCase
  <2>2. PICK n : at' = [at EXCEPT ![Sweeper] = n] /\ n.pc = "resolveAlerts" /\ n.c = g.c
    BY <1>1, <1>6, MoveOf, WhoActs DEF ResolveCase
  <2>3. \A c \in Cases : c # g.c => cse'[c] = cse[c]
    BY <2>1 DEF IInv, RowTypes
  <2>4. ASSUME kind = "MEMBER", NEW a \in Checked, alert[a] = "OPEN"
        PROVE  cse'[caseOf[a]] = "ESCALATED" \/ Settles(n, caseOf[a])
    <3>1. cse[caseOf[a]] = "ESCALATED" /\ caseOf[a] \in Cases
      BY <1>1, <1>2, <1>3, <2>4, SettledBefore, CaseOfAlert, WhoActs
    <3>. QED BY <2>2, <2>3, <3>1 DEF Settles
  <2>. QED BY <1>2, <2>2, <2>4, SettledAfter, WhoActs
<1>. QED BY <1>4, <1>5, <1>6

\* Alerts are closed, or were open already; no case changes, or each that does has
\* no open alert.
LEMMA AlertsSettled ==
  ASSUME IInv, ChecksInv, Settled,
         \/ \E r \in Requests : \/ ClearAlerts(r) \/ FalseAlarm(r) \/ ResolveAlert(r)
                                \/ Acknowledge(r) \/ Evaluate(r)
         \/ Expire
  PROVE  Settled'
<1>1. CASE Expire
  <2>1. Others(Lifecycle) /\ (\A c : ~Settles(at[Lifecycle], c)) /\ UNCHANGED <<kind, caseOf>>
    BY <1>1, AtWork, WhoActs DEF Expire, At, Fixed, Settles
  <2>2. \A a \in Checked : alert'[a] # "OPEN"
    BY <1>1, CasesAreChecked DEF Expire
  <2>. QED BY <2>1, <2>2, SettledStays, WhoActs
<1>2. ASSUME NEW r \in Requests,
             ClearAlerts(r) \/ FalseAlarm(r) \/ ResolveAlert(r) \/ Acknowledge(r) \/ Evaluate(r)
      PROVE  Settled'
  <2>1. PICK g \in Handler : g = at[r] /\ Good(g) /\ r \in Actors
    BY Held, WhoActs
  <2>2. Others(r) /\ Knows(g) /\ (\A c : ~Settles(g, c)) /\ UNCHANGED <<kind, caseOf>>
    BY <1>2, <2>1, AtWork
       DEF ClearAlerts, FalseAlarm, ResolveAlert, Acknowledge, Evaluate, At, Fixed, Settles
  <2>3. \A a \in Checked : alert'[a] = "OPEN" => alert[a] = "OPEN"
    <3>1. CASE ClearAlerts(r)
      BY <3>1, CasesAreChecked DEF ClearAlerts, CloseAlerts
    <3>2. CASE FalseAlarm(r)
      BY <3>2 DEF FalseAlarm
    <3>3. CASE ResolveAlert(r)
      BY <3>3, CasesAreChecked DEF ResolveAlert, IInv, RowTypes
    <3>4. CASE Acknowledge(r)
      <4>1. alert[g.a] = "OPEN" /\ alert' = [alert EXCEPT ![g.a] = "OPEN"]
        BY <2>1, <2>2, <3>4 DEF Acknowledge, At, Knows
      <4>. QED BY <4>1, CasesAreChecked DEF IInv, RowTypes
    <3>5. CASE Evaluate(r)
      BY <3>5, CasesAreChecked DEF Evaluate, IInv, RowTypes
    <3>. QED BY <1>2, <3>1, <3>2, <3>3, <3>4, <3>5
  <2>4. \A c \in Cases : cse[c] = "ESCALATED" =>
            cse'[c] = "ESCALATED" \/ \A a \in Checked : alert'[a] = "OPEN" => caseOf'[a] # c
    <3>1. CASE FalseAlarm(r)
      <4>1. /\ \A a \in Checked : alert[a] = "OPEN" => caseOf[a] # g.c
            /\ cse' = [cse EXCEPT ![g.c] = "FALSE_ALARM"] /\ alert' = alert
        BY <2>1, <2>2, <3>1 DEF FalseAlarm, At, Knows
      <4>. QED BY <2>2, <4>1 DEF IInv, RowTypes
    <3>2. CASE UNCHANGED cse
      BY <3>2
    <3>. QED BY <1>2, <3>1, <3>2 DEF ClearAlerts, ResolveAlert, Acknowledge, Evaluate
  <2>. QED BY <2>1, <2>2, <2>3, <2>4, SettledStays
<1>. QED BY <1>1, <1>2

\* The alerts of the case are resolved right after it.
LEMMA ResolveAlertsSettled ==
  ASSUME IInv, ChecksInv, Settled, ResolveAlerts
  PROVE  Settled'
<1>1. PICK g \in Handler : g = at[Sweeper] /\ Good(g)
  BY Held, WhoActs
<1>2. Others(Sweeper) /\ UNCHANGED <<kind, cse, caseOf>>
  BY AtWork, WhoActs DEF ResolveAlerts, At, Fixed
<1>3. \A a \in Checked : alert'[a] = "OPEN" => alert[a] = "OPEN" /\ caseOf[a] # g.c
  BY <1>1, CasesAreChecked DEF ResolveAlerts, CloseAlerts
<1>4. ASSUME kind = "MEMBER", NEW a \in Checked, alert'[a] = "OPEN"
      PROVE  cse'[caseOf'[a]] = "ESCALATED"
  <2>1. cse[caseOf[a]] = "ESCALATED" \/ Settles(g, caseOf[a])
    BY <1>1, <1>2, <1>3, <1>4, SettledBefore, WhoActs
  <2>. QED BY <1>2, <1>3, <1>4, <2>1 DEF Settles
<1>. QED BY <1>2, <1>4 DEF Settled

\* From the alert to the status of the case nothing is left open on the way.
LEMMA EscalationSettled ==
  ASSUME IInv, ChecksInv, Settled, NEW p \in Actors,
         CreateAlert(p) \/ FindIncident(p) \/ CreateIncident(p) \/ Escalate(p)
  PROVE  Settled'
<1>1. PICK g \in Handler : g = at[p] /\ Good(g)
  BY Held
<1>2. Others(p) /\ kind' = kind
  BY AtWork DEF CreateAlert, FindIncident, CreateIncident, Escalate, At, Unwritten, Fixed
<1>3. CASE CreateAlert(p)
  <2>1. PICK b \in Checked : /\ alert' = [alert EXCEPT ![b] = "OPEN"]
                             /\ caseOf' = [caseOf EXCEPT ![b] = g.c]
                             /\ at' = [at EXCEPT ![p].pc = "findIncident", ![p].a = b]
                             /\ cse' = cse /\ g.pc = "createAlert"
    BY <1>1, <1>3 DEF CreateAlert, At
  <2>2. PICK n : n = [g EXCEPT !.pc = "findIncident", !.a = b]
    OBVIOUS
  <2>3. at' = [at EXCEPT ![p] = n] /\ n.pc = "findIncident" /\ n.c = g.c
    BY <1>1, <2>1, <2>2 DEF IInv, Handler
  <2>4. ASSUME kind = "MEMBER", NEW a \in Checked, alert'[a] = "OPEN"
        PROVE  cse'[caseOf'[a]] = "ESCALATED" \/ Settles(n, caseOf'[a])
    <3>1. CASE a = b
      <4>1. caseOf'[a] = g.c
        BY <2>1, <3>1 DEF IInv, RowTypes
      <4>. QED BY <2>3, <4>1 DEF Settles
    <3>2. CASE a # b
      <4>1. alert[a] = "OPEN" /\ caseOf'[a] = caseOf[a]
        BY <2>1, <2>4, <3>2, CasesAreChecked DEF IInv, RowTypes
      <4>2. cse[caseOf[a]] = "ESCALATED" \/ Settles(g, caseOf[a])
        BY <1>1, <1>2, <2>4, <4>1, SettledBefore
      <4>. QED BY <2>1, <4>1, <4>2 DEF Settles
    <3>. QED BY <3>1, <3>2
  <2>. QED BY <1>2, <2>3, <2>4, SettledAfter
<1>4. ASSUME NEW n, at' = [at EXCEPT ![p] = n], n.pc \in {"createIncident", "escalate"}, n.c = g.c,
             UNCHANGED <<cse, alert, caseOf>>
      PROVE  Settled'
  <2>1. ASSUME kind = "MEMBER", NEW a \in Checked, alert'[a] = "OPEN"
        PROVE  cse'[caseOf'[a]] = "ESCALATED" \/ Settles(n, caseOf'[a])
    <3>1. cse[caseOf[a]] = "ESCALATED" \/ Settles(g, caseOf[a])
      BY <1>1, <1>2, <1>4, <2>1, SettledBefore
    <3>. QED BY <1>4, <3>1 DEF Settles
  <2>. QED BY <1>2, <1>4, <2>1, SettledAfter
<1>5. ASSUME FindIncident(p) \/ CreateIncident(p) PROVE Settled'
  <2>1. UNCHANGED <<cse, alert, caseOf>> /\ g.pc \in {"findIncident", "createIncident"}
    BY <1>1, <1>5 DEF FindIncident, CreateIncident, At, Unwritten, rows
  <2>2. AfterIncident(p) \/ Goto(p, "createIncident")
    BY <1>5, IncidentIsMade DEF FindIncident
  <2>3. CASE kind = "MEMBER"
    <3>1. g.c # 0
      BY <1>1, <2>1, <2>3, CasesAreChecked DEF Good
    <3>2. Goto(p, "escalate") \/ Goto(p, "createIncident")
      BY <1>1, <2>2, <3>1 DEF AfterIncident
    <3>3. PICK n : at' = [at EXCEPT ![p] = n] /\ n.pc \in {"createIncident", "escalate"} /\ n.c = g.c
      BY <1>1, <3>2, MoveOf
    <3>. QED BY <1>4, <2>1, <3>3
  <2>4. CASE kind # "MEMBER"
    BY <1>2, <2>4, OfMembersOnly
  <2>. QED BY <2>3, <2>4
<1>6. CASE Escalate(p)
  <2>1. cse' = [cse EXCEPT ![g.c] = "ESCALATED"] /\ UNCHANGED <<alert, caseOf>>
    BY <1>1, <1>6 DEF Escalate
  <2>2. \A c \in Cases : cse'[c] = IF c = g.c THEN "ESCALATED" ELSE cse[c]
    BY <2>1 DEF IInv, RowTypes
  <2>3. ASSUME kind = "MEMBER", NEW a \in Checked, alert'[a] = "OPEN"
        PROVE  cse'[caseOf'[a]] = "ESCALATED"
    <3>1. alert[a] = "OPEN" /\ caseOf'[a] = caseOf[a] /\ caseOf[a] \in Cases
      BY <2>1, <2>3, CaseOfAlert
    <3>2. cse[caseOf[a]] = "ESCALATED" \/ Settles(g, caseOf[a])
      BY <1>1, <1>2, <2>3, <3>1, SettledBefore
    <3>. QED BY <2>2, <3>1, <3>2 DEF Settles
  <2>. QED BY <1>2, <2>3 DEF Settled
<1>. QED BY <1>3, <1>5, <1>6

LEMMA SoloSettled ==
  ASSUME IInv, Prompt \/ Ask \/ CheckLinked \/ Clear \/ Tell \/ \E r \in Requests : Safe(r) \/ Help(r)
  PROVE  Settled'
<1>1. PICK p \in Actors : at[p].pc \in {"prompt", "ask", "linked", "clear", "tell", "safe", "help"}
  BY WhoActs DEF Prompt, Ask, CheckLinked, Clear, Tell, Safe, Help, At
<1>2. kind' = kind
  BY DEF Prompt, Ask, CheckLinked, Clear, Tell, Safe, Help, Unwritten, Fixed
<1>3. kind # "MEMBER"
  BY <1>1, Held DEF Good
<1>. QED BY <1>2, <1>3, OfMembersOnly

\* Any step but a failure.
LEMMA NextSettled ==
  ASSUME IInv, ChecksInv, Settled, Serial, [Next]_vars, failures' = failures
  PROVE  Settled'
<1>1. CASE UNCHANGED vars \/ Move \/ (\E k \in Checked : Deadline(k)) \/ (\E c \in Cases : Recheck(c))
  BY <1>1, SettledAtRest DEF vars, rows, Move, Deadline, Recheck, Fixed
<1>2. CASE \/ BeginSweep \/ BeginSync \/ BeginEnd \/ BeginReconcile
           \/ \E r \in Requests : BeginRequest(r)
  BY <1>2, BeginsSettled
<1>3. CASE SweepStep
  BY <1>3, SideSettled, CaseSettled, ResolveAlertsSettled, SoloSettled, WhoActs DEF SweepStep
<1>4. ASSUME NEW r \in Requests, RequestStep(r) PROVE Settled'
  BY <1>4, SideSettled, AlertsSettled, SoloSettled, WhoActs DEF RequestStep
<1>5. ASSUME NEW p \in Actors, EscalateStep(p) PROVE Settled'
  BY <1>5, SideSettled, EscalationSettled DEF EscalateStep
<1>6. CASE DeskStep \/ Expire \/ EndTrip
  BY <1>6, SideSettled, AlertsSettled, WhoActs
<1>7. ASSUME NEW p \in Actors PROVE ~Fail(p)
  BY DEF Fail, IInv, RowTypes
<1>. QED BY <1>1, <1>2, <1>3, <1>4, <1>5, <1>6, <1>7 DEF Next

-----------------------------------------------------------------------------
(* No alert is open under a case that was answered FALSE_ALARM, and who is *)
(* on the way to raise one holds a case that was not                       *)

Cleared == kind = "MEMBER" =>
    \A a \in Checked : alert[a] = "OPEN" => cse[caseOf[a]] # "FALSE_ALARM"

Raising == {"confirm", "findAlert", "createAlert"}
Waits(h) == h.pc \in Raising => cse[h.c] # "FALSE_ALARM"

AnswersInv == Cleared /\ \A p \in Actors : Waits(at[p])

\* Of the other two checks nothing is said.
LEMMA OtherKinds ==
  ASSUME IInv', kind' # "MEMBER"
  PROVE  AnswersInv'
  BY DEF IInv, HandlersGood, Good, AnswersInv, Cleared, Waits, Raising

\* No alert opens, and no case is closed as a false alarm but one without alerts.
Quieter ==
    /\ kind' = kind
    /\ \A a \in Checked : (kind = "MEMBER" /\ alert'[a] = "OPEN")
                             => alert[a] = "OPEN" /\ caseOf'[a] = caseOf[a]
    /\ \A c \in Cases : cse'[c] = "FALSE_ALARM" =>
          cse[c] = "FALSE_ALARM" \/ \A a \in Checked : alert'[a] = "OPEN" => caseOf'[a] # c

LEMMA ClearedStays ==
  ASSUME IInv, Cleared, Quieter
  PROVE  Cleared'
<1>. SUFFICES ASSUME kind = "MEMBER", NEW a \in Checked, alert'[a] = "OPEN"
              PROVE  cse'[caseOf'[a]] # "FALSE_ALARM"
  BY DEF Cleared, Quieter
<1>1. alert[a] = "OPEN" /\ caseOf'[a] = caseOf[a]
  BY DEF Quieter
<1>2. cse[caseOf[a]] # "FALSE_ALARM" /\ caseOf[a] \in Cases
  BY <1>1, CaseOfAlert DEF Cleared
<1>. QED BY <1>1, <1>2 DEF Quieter

\* Only the handler that moves may be on its way to an alert.
LEMMA WaitsAfter ==
  ASSUME IInv, NEW p \in Actors, Others(p), NEW n, at' = [at EXCEPT ![p] = n], Waits(n)'
  PROVE  \A q \in Actors : Waits(at[q])'
<1>1. at'[p] = n /\ \A q \in Actors \ {p} : at'[q] = Idle
  BY DEF IInv, Others
<1>. QED BY <1>1, IdleKnows DEF Waits, Raising

LEMMA AnswersStay ==
  ASSUME IInv, AnswersInv, NEW p \in Actors, Others(p), Quieter,
         NEW n, at' = [at EXCEPT ![p] = n], n.pc \notin Raising \/ Waits(n)'
  PROVE  AnswersInv'
<1>1. Waits(n)'
  BY DEF Waits
<1>. QED BY <1>1, WaitsAfter, ClearedStays DEF AnswersInv

LEMMA AnswersRest ==
  ASSUME IInv, AnswersInv, NEW p \in Actors, Others(p), Quieter, Finish(p)
  PROVE  AnswersInv'
<1>1. PICK n : n = Idle
  OBVIOUS
<1>2. at' = [at EXCEPT ![p] = n] /\ n.pc \notin Raising
  BY <1>1, IdleKnows DEF Finish, Raising
<1>. QED BY <1>2, AnswersStay

LEMMA AnswersGo ==
  ASSUME IInv, AnswersInv, NEW p \in Actors, Others(p), Quieter,
         NEW pc, Goto(p, pc), pc \notin Raising
  PROVE  AnswersInv'
<1>1. PICK n : at' = [at EXCEPT ![p] = n] /\ n.pc = pc
  BY MoveOf
<1>. QED BY <1>1, AnswersStay

\* The rows in question stay as they are.
LEMMA QuietRows ==
  ASSUME UNCHANGED <<kind, cse, alert, caseOf>>
  PROVE  Quieter
  BY DEF Quieter

LEMMA BeginsAnswer ==
  ASSUME IInv, AnswersInv, Serial,
         \/ BeginSweep \/ BeginSync \/ BeginEnd \/ BeginReconcile
         \/ \E r \in Requests : BeginRequest(r)
  PROVE  AnswersInv'
<1>1. ASSUME NEW p \in Actors, NEW n, Begin(p, n), n.pc \notin Raising \/ Waits(n) PROVE AnswersInv'
  <2>1. Others(p) /\ at' = [at EXCEPT ![p] = n] /\ UNCHANGED <<kind, cse, alert, caseOf>>
    BY <1>1 DEF Begin, CanStart, Serial, Quiet, Others, rows
  <2>2. n.pc \notin Raising \/ Waits(n)'
    BY <1>1, <2>1 DEF Waits
  <2>. QED BY <2>1, <2>2, QuietRows, AnswersStay
<1>2. CASE BeginSweep
  <2>1. PICK n : n = [Idle EXCEPT !.pc = "look", !.lost = (place = "LOST")]
    OBVIOUS
  <2>2. n.pc = "look" /\ Begin(Sweeper, n)
    BY <1>2, <2>1 DEF BeginSweep, Idle
  <2>. QED BY <1>1, <2>2, WhoActs DEF Raising
<1>3. CASE BeginSync
  <2>1. PICK n : n.pc = "readTrip" /\ Begin(Desk, n)
    BY <1>3 DEF BeginSync, Idle
  <2>. QED BY <1>1, <2>1, WhoActs DEF Raising
<1>4. CASE BeginEnd
  <2>1. PICK n : n.pc = "expire" /\ Begin(Lifecycle, n)
    BY <1>4 DEF BeginEnd, Idle
  <2>. QED BY <1>1, <2>1, WhoActs DEF Raising
<1>5. CASE BeginReconcile
  <2>1. PICK n : n.pc = "expire" /\ Begin(Lifecycle, n)
    BY <1>5 DEF BeginReconcile, Idle
  <2>. QED BY <1>1, <2>1, WhoActs DEF Raising
<1>6. ASSUME NEW r \in Requests, NEW c \in Cases, NEW pc, BeginRespond(r, c, pc) PROVE AnswersInv'
  <2>1. PICK n : n = [Idle EXCEPT !.pc = pc, !.c = c]
    OBVIOUS
  <2>2. n.c = c /\ cse[c] = "WAITING" /\ Begin(r, n)
    BY <1>6, <2>1 DEF BeginRespond, Idle
  <2>. QED BY <1>1, <2>2, WhoActs DEF Waits
<1>7. ASSUME NEW r \in Requests, NEW a, NEW pc, BeginAnswer(r, a, pc) PROVE AnswersInv'
  <2>1. PICK n : n = [Idle EXCEPT !.pc = pc, !.a = a, !.asked = asked[a], !.told = told[a]]
    OBVIOUS
  <2>2. n.pc \in {"safe", "help"} /\ Begin(r, n)
    BY <1>7, <2>1 DEF BeginAnswer, Idle
  <2>. QED BY <1>1, <2>2, WhoActs DEF Raising
<1>8. ASSUME NEW r \in Requests, NEW a, NEW pc, BeginAlert(r, a, pc) PROVE AnswersInv'
  <2>1. PICK n : n = [Idle EXCEPT !.pc = pc, !.a = a]
    OBVIOUS
  <2>2. n.pc \in {"resolveAlert", "acknowledge"} /\ Begin(r, n)
    BY <1>8, <2>1 DEF BeginAlert, Idle
  <2>. QED BY <1>1, <2>2, WhoActs DEF Raising
<1>9. ASSUME NEW r \in Requests, NEW a, NEW to, BeginStaff(r, a, to) PROVE AnswersInv'
  <2>1. PICK n : n.pc = "staff" /\ Begin(r, n)
    BY <1>9 DEF BeginStaff, Idle
  <2>. QED BY <1>1, <2>1, WhoActs DEF Raising
<1>10. ASSUME NEW r \in Requests, BeginEvaluate(r) PROVE AnswersInv'
  <2>1. PICK n : n.pc = "evaluate" /\ Begin(r, n)
    BY <1>10 DEF BeginEvaluate, Idle
  <2>. QED BY <1>1, <2>1, WhoActs DEF Raising
<1>. QED BY <1>2, <1>3, <1>4, <1>5, <1>6, <1>7, <1>8, <1>9, <1>10 DEF BeginRequest

\* The sweep goes on to an alert only for a case that waits.
LEMMA LookAnswers ==
  ASSUME IInv, ChecksInv, AnswersInv, LookAtCase
  PROVE  AnswersInv'
<1>1. At(Sweeper, "look") /\ Others(Sweeper)
  BY AtWork, WhoActs DEF LookAtCase, At
<1>2. Quieter /\ cse' = cse
  BY QuietRows DEF LookAtCase, LookFor, Unwritten, Fixed, rows
<1>3. ASSUME NEW pc, NEW c, LookFor(pc, c, 0), pc \in Raising => cse[c] = "WAITING"
      PROVE  AnswersInv'
  <2>1. PICK g \in Handler : g = at[Sweeper]
    BY Held, WhoActs
  <2>2. PICK n : n = [g EXCEPT !.pc = pc, !.c = c, !.a = 0, !.asked = FALSE, !.told = FALSE]
    OBVIOUS
  <2>3. n.pc = pc /\ n.c = c /\ at' = [at EXCEPT ![Sweeper] = n]
    BY <1>3, <2>1, <2>2, WhoActs DEF LookFor, IInv, Handler
  <2>4. n.pc \notin Raising \/ Waits(n)'
    BY <1>2, <1>3, <2>3 DEF Waits
  <2>. QED BY <1>1, <1>2, <2>3, <2>4, AnswersStay, WhoActs
<1>4. ASSUME LookFor("openCase", 0, 0) PROVE AnswersInv'
  BY <1>3, <1>4 DEF Raising
<1>5. ASSUME NEW c \in Cases, NEW pc, pc = IF at[Sweeper].lost THEN DueCase(c) ELSE "resolveCase",
             LookFor(pc, c, 0)
      PROVE  AnswersInv'
  <2>1. pc \in Raising => cse[c] = "WAITING"
    BY <1>5 DEF DueCase, Raising
  <2>. QED BY <1>3, <1>5, <2>1
<1>6. ASSUME Finish(Sweeper) PROVE AnswersInv'
  BY <1>1, <1>2, <1>6, AnswersRest, WhoActs
<1>. QED BY <1>4, <1>5, <1>6 DEF LookAtCase

LEMMA CaseAnswers ==
  ASSUME IInv, ChecksInv, AnswersInv, OpenCase \/ AskAgain \/ ResolveCase
  PROVE  AnswersInv'
<1>1. Others(Sweeper)
  BY AtWork, WhoActs DEF OpenCase, AskAgain, ResolveCase, At
<1>2. \E c, s : cse' = [cse EXCEPT ![c] = s] /\ s \in {"WAITING", "RESOLVED"}
  BY DEF OpenCase, AskAgain, ResolveCase
<1>3. \A c \in Cases : cse'[c] = "FALSE_ALARM" => cse[c] = "FALSE_ALARM"
  BY <1>2 DEF IInv, RowTypes
<1>4. UNCHANGED <<kind, alert, caseOf>>
  BY DEF OpenCase, AskAgain, ResolveCase, Fixed
<1>5. Quieter
  BY <1>3, <1>4 DEF Quieter
<1>6. CASE Finish(Sweeper)
  BY <1>1, <1>5, <1>6, AnswersRest, WhoActs
<1>7. CASE Goto(Sweeper, "resolveAlerts")
  BY <1>1, <1>5, <1>7, AnswersGo, WhoActs DEF Raising
<1>. QED BY <1>6, <1>7 DEF OpenCase, AskAgain, ResolveCase

\* Alerts are closed, or were open already; a case becomes a false alarm once it
\* has no open alert.
LEMMA AlertAnswers ==
  ASSUME IInv, ChecksInv, AnswersInv,
         \/ \E r \in Requests : \/ ClearAlerts(r) \/ FalseAlarm(r) \/ ResolveAlert(r)
                                \/ Acknowledge(r) \/ Staff(r) \/ Evaluate(r)
         \/ ResolveAlerts \/ Expire \/ EndTrip
  PROVE  AnswersInv'
<1>1. PICK p \in Actors :
        \/ /\ p \in Requests
           /\ \/ ClearAlerts(p) \/ FalseAlarm(p) \/ ResolveAlert(p)
              \/ Acknowledge(p) \/ Staff(p) \/ Evaluate(p)
        \/ p = Sweeper /\ ResolveAlerts
        \/ p = Lifecycle /\ (Expire \/ EndTrip)
  BY WhoActs
<1>2. PICK g \in Handler : g = at[p] /\ Good(g)
  BY Held
<1>3. Others(p) /\ Knows(g) /\ UNCHANGED <<kind, caseOf>>
  BY <1>1, <1>2, AtWork
     DEF ClearAlerts, FalseAlarm, ResolveAlert, Acknowledge, Staff, Evaluate, ResolveAlerts, Expire,
         EndTrip, At, Fixed
<1>4. \A a \in Checked : alert'[a] = "OPEN" => alert[a] = "OPEN"
  <2>1. CASE ClearAlerts(p) \/ ResolveAlerts
    BY <2>1, CasesAreChecked DEF ClearAlerts, ResolveAlerts, CloseAlerts
  <2>2. CASE FalseAlarm(p) \/ Staff(p) \/ EndTrip
    BY <2>2 DEF FalseAlarm, Staff, EndTrip
  <2>3. CASE ResolveAlert(p)
    BY <2>3, CasesAreChecked DEF ResolveAlert, IInv, RowTypes
  <2>4. CASE Acknowledge(p)
    <3>1. alert[g.a] = "OPEN" /\ alert' = [alert EXCEPT ![g.a] = "OPEN"]
      BY <1>2, <1>3, <2>4 DEF Acknowledge, At, Knows
    <3>. QED BY <3>1, CasesAreChecked DEF IInv, RowTypes
  <2>5. CASE Evaluate(p)
    BY <2>5, CasesAreChecked DEF Evaluate, IInv, RowTypes
  <2>6. CASE Expire
    BY <2>6, CasesAreChecked DEF Expire
  <2>. QED BY <1>1, <2>1, <2>2, <2>3, <2>4, <2>5, <2>6
<1>5. \A c \in Cases : cse'[c] = "FALSE_ALARM" =>
          cse[c] = "FALSE_ALARM" \/ \A a \in Checked : alert'[a] = "OPEN" => caseOf'[a] # c
  <2>1. CASE FalseAlarm(p)
    <3>1. /\ \A a \in Checked : alert[a] = "OPEN" => caseOf[a] # g.c
          /\ cse' = [cse EXCEPT ![g.c] = "FALSE_ALARM"] /\ alert' = alert
      BY <1>2, <1>3, <2>1 DEF FalseAlarm, At, Knows
    <3>. QED BY <1>3, <3>1 DEF IInv, RowTypes
  <2>2. CASE Expire
    BY <2>2 DEF Expire
  <2>3. CASE UNCHANGED cse
    BY <2>3
  <2>. QED BY <1>1, <2>1, <2>2, <2>3
       DEF ClearAlerts, ResolveAlert, Acknowledge, Staff, Evaluate, ResolveAlerts, EndTrip
<1>6. Quieter
  BY <1>3, <1>4, <1>5 DEF Quieter
<1>7. Finish(p) \/ Goto(p, "falseAlarm") \/ Goto(p, "end")
  BY <1>1 DEF ClearAlerts, FalseAlarm, ResolveAlert, Acknowledge, Staff, Evaluate, ResolveAlerts,
              Expire, EndTrip
<1>. QED BY <1>3, <1>6, <1>7, AnswersRest, AnswersGo DEF Raising

\* The way to an alert: the case is held until the alert is there.
LEMMA RaisingAnswers ==
  ASSUME IInv, ChecksInv, AnswersInv, NEW p \in Actors,
         \/ p \in Requests /\ Confirm(p)
         \/ FindAlert(p)
  PROVE  AnswersInv'
<1>1. PICK g \in Handler : g = at[p]
  BY Held
<1>2. Others(p) /\ Waits(g) /\ g.pc \in Raising
  BY <1>1, AtWork DEF Confirm, FindAlert, At, AnswersInv, Raising
<1>3. UNCHANGED <<kind, cse, alert, caseOf>>
  BY DEF Confirm, FindAlert, Unwritten, Fixed, rows
<1>4. ASSUME NEW pc, Goto(p, pc) PROVE AnswersInv'
  <2>1. PICK n : at' = [at EXCEPT ![p] = n] /\ n.pc = pc /\ n.c = g.c
    BY <1>1, <1>4, MoveOf
  <2>2. Waits(n)'
    BY <1>2, <1>3, <2>1 DEF Waits
  <2>. QED BY <1>2, <1>3, <2>1, <2>2, QuietRows, AnswersStay
<1>5. ASSUME NEW a, at' = [at EXCEPT ![p].pc = "findIncident", ![p].a = a] PROVE AnswersInv'
  <2>1. PICK n : n = [g EXCEPT !.pc = "findIncident", !.a = a]
    OBVIOUS
  <2>2. at' = [at EXCEPT ![p] = n] /\ n.pc = "findIncident"
    BY <1>1, <1>5, <2>1 DEF IInv, Handler
  <2>. QED BY <1>2, <1>3, <2>2, QuietRows, AnswersStay DEF Raising
<1>. QED BY <1>4, <1>5 DEF Confirm, FindAlert

LEMMA CreateAlertAnswers ==
  ASSUME IInv, ChecksInv, AnswersInv, NEW p \in Actors, CreateAlert(p)
  PROVE  AnswersInv'
<1>1. PICK g \in Handler : g = at[p]
  BY Held
<1>2. Others(p) /\ cse[g.c] # "FALSE_ALARM"
  BY <1>1, AtWork DEF CreateAlert, At, AnswersInv, Waits, Raising
<1>3. PICK b \in Checked : /\ alert' = [alert EXCEPT ![b] = "OPEN"]
                           /\ caseOf' = [caseOf EXCEPT ![b] = g.c]
                           /\ at' = [at EXCEPT ![p].pc = "findIncident", ![p].a = b]
                           /\ UNCHANGED <<kind, cse>>
  BY <1>1 DEF CreateAlert, Fixed
<1>4. PICK n : n = [g EXCEPT !.pc = "findIncident", !.a = b]
  OBVIOUS
<1>5. at' = [at EXCEPT ![p] = n] /\ n.pc = "findIncident"
  BY <1>1, <1>3, <1>4 DEF IInv, Handler
<1>6. \A q \in Actors : Waits(at[q])'
  <2>1. Waits(n)'
    BY <1>5 DEF Waits, Raising
  <2>. QED BY <1>2, <1>5, <2>1, WaitsAfter
<1>7. Cleared'
  <2>. SUFFICES ASSUME kind = "MEMBER", NEW a \in Checked, alert'[a] = "OPEN"
                PROVE  cse'[caseOf'[a]] # "FALSE_ALARM"
    BY <1>3 DEF Cleared
  <2>1. CASE a = b
    BY <1>2, <1>3, <2>1 DEF IInv, RowTypes
  <2>2. CASE a # b
    <3>1. alert[a] = "OPEN" /\ caseOf'[a] = caseOf[a]
      BY <1>3, <2>2, CasesAreChecked DEF IInv, RowTypes
    <3>. QED BY <1>3, <3>1 DEF AnswersInv, Cleared
  <2>. QED BY <2>1, <2>2
<1>. QED BY <1>6, <1>7 DEF AnswersInv

LEMMA IncidentAnswers ==
  ASSUME IInv, ChecksInv, AnswersInv, NEW p \in Actors,
         FindIncident(p) \/ CreateIncident(p) \/ Escalate(p)
  PROVE  AnswersInv'
<1>1. Others(p) /\ UNCHANGED <<kind, alert, caseOf>>
  BY AtWork DEF FindIncident, CreateIncident, Escalate, At, Unwritten, Fixed, rows
<1>2. \A c \in Cases : cse'[c] = "FALSE_ALARM" => cse[c] = "FALSE_ALARM"
  BY DEF FindIncident, CreateIncident, Escalate, Unwritten, rows, IInv, RowTypes
<1>3. Quieter
  BY <1>1, <1>2 DEF Quieter
<1>4. Finish(p) \/ Goto(p, "createIncident") \/ Goto(p, "escalate")
  BY DEF FindIncident, CreateIncident, Escalate, AfterIncident
<1>. QED BY <1>1, <1>3, <1>4, AnswersRest, AnswersGo DEF Raising

LEMMA DeskAnswers ==
  ASSUME IInv, ChecksInv, AnswersInv, DeskStep
  PROVE  AnswersInv'
<1>1. PICK g \in Handler : g = at[Desk]
  BY Held, WhoActs
<1>2. Others(Desk) /\ g.pc \in {"readTrip", "readIncidents", "sync"}
  BY <1>1, AtWork, WhoActs DEF DeskStep, SyncTrip, SyncIncidents, Sync, At
<1>3. UNCHANGED <<kind, cse, alert, caseOf>>
  BY DEF DeskStep, SyncTrip, SyncIncidents, Sync, Unwritten, Fixed, rows
<1>4. at'[Desk].pc \notin Raising /\ at' = [at EXCEPT ![Desk] = at'[Desk]]
  <2>1. ASSUME NEW pc \in {"readIncidents", "sync"}, NEW m, NEW s,
               at' = [at EXCEPT ![Desk].pc = pc, ![Desk].make = m, ![Desk].shut = s]
        PROVE  at'[Desk].pc \notin Raising /\ at' = [at EXCEPT ![Desk] = at'[Desk]]
    <3>1. PICK n : n = [g EXCEPT !.pc = pc, !.make = m, !.shut = s]
      OBVIOUS
    <3>2. n.pc = pc
      BY <3>1 DEF Handler
    <3>3. at' = [at EXCEPT ![Desk] = n] /\ at'[Desk] = n
      BY <1>1, <2>1, <3>1, WhoActs DEF IInv
    <3>. QED BY <3>2, <3>3 DEF Raising
  <2>2. CASE Sync
    BY <1>1, <1>2, <2>2, IdleKnows, WhoActs
       DEF Sync, SyncMake, SyncShut, Finish, IInv, Handler, Raising
  <2>3. CASE SyncTrip
    BY <2>1, <2>3 DEF SyncTrip
  <2>4. CASE SyncIncidents
    BY <2>1, <2>4 DEF SyncIncidents
  <2>. QED BY <2>2, <2>3, <2>4 DEF DeskStep
<1>. QED BY <1>2, <1>3, <1>4, QuietRows, AnswersStay, WhoActs

LEMMA NextAnswers ==
  ASSUME IInv, IInv', ChecksInv, AnswersInv, Serial, [Next]_vars
  PROVE  AnswersInv'
<1>1. CASE UNCHANGED vars \/ Move \/ (\E k \in Checked : Deadline(k)) \/ (\E c \in Cases : Recheck(c))
  <2>1. UNCHANGED <<kind, cse, alert, caseOf, at>>
    BY <1>1 DEF vars, rows, Move, Deadline, Recheck, Fixed
  <2>. QED BY <2>1 DEF AnswersInv, Cleared, Waits
<1>2. CASE \/ BeginSweep \/ BeginSync \/ BeginEnd \/ BeginReconcile
           \/ \E r \in Requests : BeginRequest(r)
  BY <1>2, BeginsAnswer
<1>3. ASSUME \/ LookAtAlert \/ Prompt \/ Ask \/ CheckLinked \/ Clear \/ Tell
             \/ \E r \in Requests : Safe(r) \/ Help(r)
      PROVE  AnswersInv'
  <2>1. kind' = kind
    BY <1>3 DEF LookAtAlert, LookFor, Prompt, Ask, CheckLinked, Clear, Tell, Safe, Help, Unwritten, Fixed
  <2>2. kind # "MEMBER"
    <3>1. CASE LookAtAlert
      BY <3>1 DEF LookAtAlert
    <3>2. CASE ~LookAtAlert
      <4>1. PICK p \in Actors : at[p].pc \in {"prompt", "ask", "linked", "clear", "tell", "safe", "help"}
        BY <1>3, <3>2, WhoActs DEF Prompt, Ask, CheckLinked, Clear, Tell, Safe, Help, At
      <4>. QED BY <4>1, Held DEF Good
    <3>. QED BY <3>1, <3>2
  <2>. QED BY <2>1, <2>2, OtherKinds
<1>4. CASE SweepStep
  BY <1>3, <1>4, LookAnswers, CaseAnswers, AlertAnswers DEF SweepStep
<1>5. ASSUME NEW r \in Requests, RequestStep(r) PROVE AnswersInv'
  BY <1>3, <1>5, AlertAnswers, RaisingAnswers, WhoActs DEF RequestStep
<1>6. ASSUME NEW p \in Actors, EscalateStep(p) PROVE AnswersInv'
  BY <1>6, RaisingAnswers, CreateAlertAnswers, IncidentAnswers DEF EscalateStep
<1>7. CASE DeskStep \/ Expire \/ EndTrip
  BY <1>7, DeskAnswers, AlertAnswers
<1>8. ASSUME NEW p \in Actors, Fail(p) PROVE AnswersInv'
  <2>1. UNCHANGED <<kind, cse, alert, caseOf>> /\ \A q \in Actors : at'[q] = at[q] \/ at'[q] = Idle
    BY <1>8 DEF Fail, Finish, IInv, rows
  <2>. QED BY <2>1, IdleKnows DEF AnswersInv, Cleared, Waits, Raising
<1>. QED BY <1>1, <1>2, <1>4, <1>5, <1>6, <1>7, <1>8 DEF Next

-----------------------------------------------------------------------------
(* Theorems *)

\* How the bookkeeping variables move.
LEMMA Frame ==
  ASSUME IInv, [Next]_vars
  PROVE  overlap' = overlap /\ (failures' = failures \/ failures' = failures + 1)
<1>1. CASE UNCHANGED vars \/ Move \/ (\E k \in Checked : Deadline(k)) \/ (\E c \in Cases : Recheck(c))
  BY <1>1 DEF vars, Move, Deadline, Recheck, Fixed
<1>2. CASE SweepStep
  BY <1>2 DEF SweepStep, LookAtCase, LookAtAlert, LookFor, OpenCase, AskAgain, ResolveCase,
     ResolveAlerts, Prompt, Ask, CheckLinked, Clear, Tell, Unwritten, Fixed
<1>3. CASE BeginSweep \/ BeginSync \/ BeginEnd \/ BeginReconcile
  BY <1>3 DEF BeginSweep, BeginSync, BeginEnd, BeginReconcile, Begin
<1>4. ASSUME NEW r \in Requests, BeginRequest(r) PROVE UNCHANGED <<overlap, failures>>
  <2>1. \E n : Begin(r, n)
    BY <1>4 DEF BeginRequest, BeginRespond, BeginAnswer, BeginAlert, BeginStaff, BeginEvaluate
  <2>. QED BY <2>1 DEF Begin
<1>5. ASSUME NEW r \in Requests, RequestStep(r) PROVE UNCHANGED <<overlap, failures>>
  BY <1>5 DEF RequestStep, ClearAlerts, FalseAlarm, Confirm, Safe, Help, ResolveAlert, Acknowledge,
     Staff, Evaluate, Fixed
<1>6. ASSUME NEW p \in Actors, EscalateStep(p) PROVE UNCHANGED <<overlap, failures>>
  BY <1>6 DEF EscalateStep, FindAlert, CreateAlert, FindIncident, CreateIncident, Escalate,
     Unwritten, Fixed
<1>7. ASSUME NEW p \in Actors, Fail(p) PROVE overlap' = overlap /\ failures' = failures + 1
  BY <1>7 DEF Fail
<1>8. CASE DeskStep \/ Expire \/ EndTrip
  BY <1>8 DEF DeskStep, SyncTrip, SyncIncidents, Sync, Expire, EndTrip, Unwritten, Fixed
<1>. QED BY <1>1, <1>2, <1>3, <1>4, <1>5, <1>6, <1>7, <1>8 DEF Next

LEMMA SerialInvariance == Spec => []SerialInv
<1>1. Init => SerialInv
  <2>. SUFFICES ASSUME Init PROVE SerialInv
    OBVIOUS
  <2>1. \A p \in Actors : at[p] = Idle
    BY DEF Init
  <2>2. \A a \in Alerts : alert[a] = "NONE" /\ inc[a] = "NONE"
    BY DEF Init
  <2>3. ChecksInv
    BY <2>1, <2>2, IdleKnows, CasesAreChecked DEF ChecksInv, Alone, OneAlarm, IncidentsHaveAlerts
  <2>4. Settled
    BY <2>2, CasesAreChecked DEF Settled
  <2>. QED BY <2>3, <2>4 DEF SerialInv
<1>2. IInv /\ SerialInv /\ [Next]_vars => SerialInv'
  <2>. SUFFICES ASSUME IInv, SerialInv, [Next]_vars, Serial' PROVE SerialInv'
    BY DEF SerialInv
  <2>1. Serial /\ ChecksInv /\ (failures = 0 => Settled)
    BY Frame DEF Serial, SerialInv
  <2>2. ChecksInv'
    BY <2>1, NextChecks
  <2>3. failures' = 0 => failures = 0 /\ failures' = failures
    BY Frame DEF IInv, RowTypes
  <2>4. failures' = 0 => Settled'
    BY <2>1, <2>3, NextSettled
  <2>. QED BY <2>2, <2>4 DEF SerialInv
<1>. QED BY <1>1, <1>2, Invariance, PTL DEF Spec

\* Served one at a time, whatever fails, the leader's confirmation and the sweep
\* raise one alarm per loss: escalateCase looks the case's alert up before it makes
\* one, and takes one that was resolved meanwhile.
THEOREM OneAlarmRaised == Spec => []OneAlarmPerLoss
<1>1. SerialInv => OneAlarmPerLoss
  BY DEF SerialInv, ChecksInv, OneAlarm, OneAlarmPerLoss
<1>. QED BY <1>1, SerialInvariance, PTL

LEMMA AnswersInvariance == Spec => [](Serial => AnswersInv)
<1>1. Init => (Serial => AnswersInv)
  <2>. SUFFICES ASSUME Init PROVE AnswersInv
    OBVIOUS
  <2>1. \A p \in Actors : at[p] = Idle
    BY DEF Init
  <2>2. \A a \in Checked : alert[a] = "NONE"
    BY CasesAreChecked DEF Init
  <2>. QED BY <2>1, <2>2, IdleKnows DEF AnswersInv, Cleared, Waits, Raising
<1>2. IInv /\ IInv' /\ SerialInv /\ (Serial => AnswersInv) /\ [Next]_vars => (Serial => AnswersInv)'
  <2>. SUFFICES ASSUME IInv, IInv', SerialInv, Serial => AnswersInv, [Next]_vars, Serial'
                PROVE  AnswersInv'
    OBVIOUS
  <2>1. Serial /\ ChecksInv /\ AnswersInv
    BY Frame DEF Serial, SerialInv
  <2>. QED BY <2>1, NextAnswers
<1>. QED BY <1>1, <1>2, Invariance, SerialInvariance, PTL DEF Spec

\* Served one at a time, a leader's FALSE_ALARM leaves no alert of the case open,
\* whatever failed before: respond closes the alerts first and the case after them.
\* And while no handler was cut short a member's return and the end of the trip leave
\* none either: only an escalated case has an open alert.
THEOREM AnswersSettle == Spec => []AnsweredIsSettled
<1>1. SerialInv /\ (Serial => AnswersInv) => AnsweredIsSettled
  <2>. SUFFICES ASSUME SerialInv, Serial, AnswersInv, kind = "MEMBER", NEW a \in OpenAlerts
                PROVE  /\ cse[caseOf[a]] # "FALSE_ALARM"
                       /\ Quiet /\ failures = 0 => cse[caseOf[a]] = "ESCALATED"
    BY DEF AnsweredIsSettled
  <2>1. a \in Checked /\ alert[a] = "OPEN"
    BY DEF OpenAlerts
  <2>2. cse[caseOf[a]] # "FALSE_ALARM"
    BY <2>1 DEF AnswersInv, Cleared
  <2>3. ASSUME Quiet, failures = 0 PROVE cse[caseOf[a]] = "ESCALATED"
    BY <2>1, <2>3, Resting DEF SerialInv, Settled, Quiet
  <2>. QED BY <2>2, <2>3
<1>. QED BY <1>1, SerialInvariance, AnswersInvariance, PTL

\* The sync ends only when it has nothing left to write.
LEMMA SyncEnds ==
  ASSUME IInv, SerialInv, [Next]_vars, Serial, At(Desk, "sync"), at'[Desk] = Idle,
         failures' = failures
  PROVE  Sync /\ at[Desk].make = {} /\ at[Desk].shut = {} /\ inc' = inc
<1>1. ChecksInv /\ Desk \in Actors
  BY WhoActs DEF SerialInv
<1>2. Others(Desk) /\ at[Desk].pc = "sync" /\ at[Desk] # Idle
  BY <1>1, AtWork, IdleKnows DEF At
<1>3. \A p \in Actors : at[p].pc = "idle" \/ p = Desk
  BY <1>2, IdleKnows DEF Others
<1>4. ~Quiet
  BY <1>1, <1>2 DEF Quiet
<1>5. \A p \in Actors : \A n : ~Begin(p, n)
  BY <1>4 DEF Begin, CanStart, Serial
<1>6. ~BeginSweep /\ ~BeginSync /\ ~BeginEnd /\ ~BeginReconcile
  BY <1>5, WhoActs DEF BeginSweep, BeginSync, BeginEnd, BeginReconcile
<1>7. \A r \in Requests : ~BeginRequest(r)
  BY <1>5, WhoActs
     DEF BeginRequest, BeginRespond, BeginAnswer, BeginAlert, BeginStaff, BeginEvaluate
<1>8. \A r \in Requests : ~RequestStep(r)
  <2>. SUFFICES ASSUME NEW r \in Requests PROVE ~RequestStep(r)
    OBVIOUS
  <2>1. at[r].pc = "idle"
    BY <1>3, WhoActs, CheckAssumption
  <2>. QED BY <2>1 DEF RequestStep, ClearAlerts, FalseAlarm, Confirm, Safe, Help, ResolveAlert,
           Acknowledge, Staff, Evaluate, At
<1>9. at[Sweeper].pc = "idle" /\ at[Lifecycle].pc = "idle"
  BY <1>3, WhoActs, CheckAssumption
<1>10. ~SweepStep /\ ~Expire /\ ~EndTrip
  BY <1>9 DEF SweepStep, LookAtCase, LookAtAlert, OpenCase, AskAgain, ResolveCase,
     ResolveAlerts, Prompt, Ask, CheckLinked, Clear, Tell, Expire, EndTrip, At
<1>11. \A p \in Actors : ~EscalateStep(p)
  BY <1>2, <1>3 DEF EscalateStep, FindAlert, CreateAlert, FindIncident, CreateIncident, Escalate, At
<1>12. \A p \in Actors : ~Fail(p)
  BY DEF Fail, IInv, RowTypes
<1>13. ~(UNCHANGED vars \/ Move \/ (\E k \in Checked : Deadline(k)) \/ (\E c \in Cases : Recheck(c)))
  BY <1>2 DEF vars, Move, Deadline, Recheck
<1>14. Sync
  BY <1>2, <1>6, <1>7, <1>8, <1>10, <1>11, <1>12, <1>13
     DEF Next, DeskStep, SyncTrip, SyncIncidents, At
<1>15. PICK g \in Handler : g = at[Desk]
  BY <1>1, Held
<1>16. ASSUME NEW s, at' = [at EXCEPT ![Desk].make = s] \/ at' = [at EXCEPT ![Desk].shut = s]
       PROVE  FALSE
  <2>1. at'[Desk].pc = "sync"
    BY <1>1, <1>2, <1>15, <1>16 DEF IInv, Handler
  <2>. QED BY <2>1, IdleKnows
<1>17. at[Desk].make = {} /\ at[Desk].shut = {} /\ inc' = inc
  BY <1>1, <1>14, <1>16, SyncRows
<1>. QED BY <1>14, <1>17

\* Served one at a time, whatever failed before, a disaster manager who lists the
\* queue sees what was escalated: when syncSafetyAlertIncidents returns, the
\* incidents are those the alerts and the trip call for.
THEOREM DeskIsUpToDate == Spec => DeskSeesEscalations
<1>1. IInv /\ SerialInv /\ [Next]_vars =>
        [(Serial /\ At(Desk, "sync") /\ at'[Desk] = Idle /\ failures' = failures)
            => QueueFresh']_vars
  <2>. SUFFICES ASSUME IInv, SerialInv, [Next]_vars, Serial, At(Desk, "sync"), at'[Desk] = Idle,
                       failures' = failures
                PROVE  QueueFresh'
    OBVIOUS
  <2>1. Sync /\ at[Desk].make = {} /\ at[Desk].shut = {} /\ inc' = inc
    BY SyncEnds
  <2>2. UNCHANGED <<kind, trip, alert, told>>
    BY <2>1 DEF Sync, Fixed
  <2>3. Knows(at[Desk]) /\ at[Desk].pc = "sync"
    BY WhoActs DEF SerialInv, ChecksInv, At
  <2>4. \A a \in Alerts : /\ Wanted(a) => inc[a] # "NONE"
                          /\ inc[a] = "OPEN" => Wanted(a)
    BY <2>1, <2>3 DEF Knows
  <2>. QED BY <2>1, <2>2, <2>4 DEF QueueFresh, Wanted, Reportable
<1>. QED BY <1>1, Invariance, SerialInvariance, PTL DEF Spec, DeskSeesEscalations
=============================================================================
