------------------------- MODULE StrategicAlertsProofs -------------------------
(***************************************************************************)
(* The alert loop for any set of alerts and requests, any cooldowns and    *)
(* any number of reports, switches and crashes.                            *)
(***************************************************************************)
EXTENDS StrategicAlerts, TLAPS

States == {"absent", "ready", "cooldown", "acknowledged"}
Report == [id : Nat, state : [Alerts -> States]]
AlertRecord == [acked : BOOLEAN, emitted : Nat \cup {Never}, due : Nat \cup {Never}]
Jobs ==
    {Idle} \cup
    [kind : {"analyze"}, request : Requests, at : Nat, todo : SUBSET Alerts, report : Report]
    \cup [kind : {"record", "save"}, request : Requests, report : Report]
    \cup [kind : {"switch", "log"}, alert : Alerts, on : BOOLEAN]

Showing == [alert : Alerts, at : Nat, wait : Nat, by : {"analysis", "replay", "unack"}, id : Nat]

\* What analyses have shown as ready: the showings that the cooldown is about.
Emissions == {x \in shown : x.by = "analysis"}

TypeInv ==
    /\ now \in Nat /\ reports \in Nat /\ crashes \in Nat
    /\ record \in [Alerts -> AlertRecord]
    /\ latest \in Report
    /\ saved \in [Requests -> Report]
    /\ job \in Jobs
    /\ shown \subseteq Showing

\* An alert was last emitted in the past, not before it was last shown, and before the
\* analysis that is running began or by that analysis.
EmittedInv ==
    /\ \A a \in Alerts : record[a].emitted # Never => record[a].emitted <= now
    /\ job.kind = "analyze" =>
           /\ job.at <= now
           /\ \A a \in Alerts : record[a].emitted # Never => record[a].emitted <= job.at
    /\ \A x \in Emissions : record[x.alert].emitted # Never /\ x.at <= record[x.alert].emitted

\* An alert that the running analysis will show as ready was out of its cooldown when
\* the analysis began, and is marked emitted by it.
ReadyInv ==
    job.kind = "analyze" =>
        \A a \in Alerts : job.report.state[a] = "ready" =>
            /\ a \in job.todo => ~Cooling(a, job.request, job.at)
            /\ a \notin job.todo => record[a].emitted = job.at
            /\ \A x \in Emissions :
                   x.alert = a => job.at - x.at >= CooldownOf[job.request]

\* By the history S, an analysis has shown the ready alerts of the report.
Decided(report, S) ==
    \A a \in Alerts : report.state[a] = "ready" =>
        \E x \in S : x.by = "analysis" /\ x.alert = a /\ x.id = report.id

\* Reports are numbered in the order of their analyses; what was shown was shown in the
\* past; and a report is saved, or about to be, after it was shown.
ShownInv ==
    /\ \A x \in shown : x.at <= now
    /\ \A x \in Emissions : x.id <= reports
    /\ job.kind = "analyze" => job.report.id = reports /\ \A x \in Emissions : x.id < reports
    /\ job.kind \in {"record", "save"} => Decided(job.report, shown)
    /\ \A r \in Requests : Decided(saved[r], shown)

\* The handler of a switch has changed the record of a and not yet the view.
Switching(a) == job.kind = "switch" /\ job.alert = a

\* A switch has set the record it is about; the report of a running analysis agrees with
\* the records; and without a crash so does the view, but for the alert being switched.
ViewInv ==
    /\ job.kind = "switch" => record[job.alert].acked = job.on
    /\ job.kind = "analyze" => \A a \in Alerts :
           /\ record[a].acked => job.report.state[a] \in {"absent", "acknowledged"}
           /\ job.report.state[a] = "acknowledged" => record[a].acked
    /\ crashes = 0 => \A a \in Alerts : ~Switching(a) =>
           /\ record[a].acked => latest.state[a] \in {"absent", "acknowledged"}
           /\ latest.state[a] = "acknowledged" =>
                  record[a].acked \/ \E r \in Requests : /\ saved[r].id = latest.id
                                                       /\ saved[r].state[a] = "acknowledged"

\* A report is saved for a request that has none, and only after it is in the ledger.
SaveInv ==
    /\ job.kind \in {"analyze", "record", "save"} => saved[job.request] = Blank
    /\ job.kind = "save" => job.report.id \in journal
    /\ SavedIsJournalled

IInv ==
    /\ TypeInv /\ EmittedInv /\ ReadyInv /\ ViewInv /\ SaveInv /\ ShownInv
    /\ CooldownRespected
-----------------------------------------------------------------------------
(* The parts of a state.                                                   *)

\* What a handler holds, by its kind.
LEMMA JobFacts ==
    ASSUME job \in Jobs
    PROVE  /\ job.kind = "analyze" =>
                  /\ job.request \in Requests /\ job.at \in Nat /\ job.todo \subseteq Alerts
                  /\ job.report \in Report
                  /\ job = [kind |-> "analyze", request |-> job.request, at |-> job.at,
                            todo |-> job.todo, report |-> job.report]
           /\ job.kind \in {"record", "save"} => job.request \in Requests /\ job.report \in Report
           /\ job.kind \in {"switch", "log"} =>
                  /\ job.alert \in Alerts /\ job.on \in BOOLEAN
                  /\ job = [kind |-> job.kind, alert |-> job.alert, on |-> job.on]
           /\ ~Busy => job.kind = "idle"
<1>1. CASE job = Idle
  BY <1>1 DEF Idle
<1>2. CASE job \in [kind : {"analyze"}, request : Requests, at : Nat, todo : SUBSET Alerts,
                    report : Report]
  BY <1>2 DEF Idle, Busy
<1>3. CASE job \in [kind : {"record", "save"}, request : Requests, report : Report]
  BY <1>3 DEF Idle, Busy
<1>4. CASE job \in [kind : {"switch", "log"}, alert : Alerts, on : BOOLEAN]
  BY <1>4 DEF Idle, Busy
<1> QED
  BY <1>1, <1>2, <1>3, <1>4 DEF Jobs

\* The record of an alert.
LEMMA RecordFacts ==
    ASSUME TypeInv, NEW a \in Alerts
    PROVE  /\ record[a].acked \in BOOLEAN /\ record[a].emitted \in Nat \cup {Never}
           /\ record[a].due \in Nat \cup {Never}
           /\ record[a] = [acked |-> record[a].acked, emitted |-> record[a].emitted,
                           due |-> record[a].due]
<1>1. record[a] \in AlertRecord
  BY DEF TypeInv
<1> QED
  BY <1>1 DEF AlertRecord

\* The states of a report.
LEMMA ReportFacts ==
    ASSUME NEW r \in Report
    PROVE  /\ r.id \in Nat /\ r.state \in [Alerts -> States]
           /\ r = [id |-> r.id, state |-> r.state]
BY DEF Report

\* The empty report shows nothing.
LEMMA BlankFacts == Blank \in Report /\ Blank.id = 0 /\ \A a \in Alerts : Blank.state[a] = "absent"
BY DEF Blank, Report, States

\* An entry of the history of shown alerts.
LEMMA ShownFacts ==
    ASSUME TypeInv, NEW x \in shown
    PROVE  x.alert \in Alerts /\ x.at \in Nat /\ x.wait \in Nat /\ x.id \in Nat
BY DEF TypeInv, Showing

\* What was decided stays so as the history grows.
LEMMA DecidedKept ==
    ASSUME NEW report, NEW S, NEW T, S \subseteq T, Decided(report, S)
    PROVE  Decided(report, T)
BY DEF Decided

\* A step that adds no emission, while time does not go back and no report starts, keeps
\* the emissions and what was decided.
LEMMA ShownKept ==
    ASSUME IInv, shown \subseteq shown', reports' = reports,
           \A x \in shown' : x \in shown \/ (x.at <= now' /\ x.by # "analysis"),
           now \in Nat, now' \in Nat, now <= now'
    PROVE  /\ Emissions' = Emissions
           /\ \A x \in shown' : x.at <= now'
           /\ \A report : Decided(report, shown) => Decided(report, shown')
           /\ AnalysesSpaced'
<1>1. Emissions' = Emissions
  BY DEF Emissions
<1>2. \A x \in shown' : x.at <= now'
  BY ShownFacts DEF IInv, ShownInv
<1>3. AnalysesSpaced'
  BY DEF IInv, CooldownRespected, AnalysesSpaced
<1> QED
  BY <1>1, <1>2, <1>3, DecidedKept

\* Nothing is emitted, shown or saved at first.
LEMMA InitInv == Init => IInv
<1> SUFFICES ASSUME Init PROVE IInv
  OBVIOUS
<1>1. job = Idle /\ job.kind = "idle" /\ job \in Jobs
  BY DEF Init, Idle, Jobs
<1>2. TypeInv
  BY <1>1, BlankFacts DEF Init, TypeInv, AlertRecord
<1>3. \A a \in Alerts : record[a].emitted = Never /\ record[a].acked = FALSE
  BY DEF Init
<1>4. EmittedInv /\ ReadyInv
  BY <1>1, <1>3 DEF Init, EmittedInv, ReadyInv, Emissions
<1>5. ViewInv
  BY <1>1, <1>3, BlankFacts DEF Init, ViewInv
<1>6. SaveInv
  BY <1>1 DEF Init, SaveInv, SavedIsJournalled
<1>7. ShownInv
  BY <1>1, BlankFacts DEF Init, ShownInv, Emissions, Decided
<1>8. CooldownRespected
  BY BlankFacts DEF Init, CooldownRespected, AnalysesSpaced, OthersAccounted, ReadyIn
<1> QED
  BY <1>2, <1>4, <1>5, <1>6, <1>7, <1>8 DEF IInv

-----------------------------------------------------------------------------
(* One lemma for each step.                                                *)

\* Time passes.
LEMMA TickKeeps ==
    ASSUME IInv, Tick
    PROVE  IInv'
<1>1. /\ now' = now + 1 /\ now \in Nat /\ record' = record /\ latest' = latest
      /\ saved' = saved /\ journal' = journal /\ reports' = reports /\ job' = job
      /\ shown' = shown /\ crashes' = crashes
  BY DEF IInv, TypeInv, Tick
<1>2. TypeInv'
  BY <1>1 DEF IInv, TypeInv
<1>3. EmittedInv'
  <2>1. \A a \in Alerts : record[a].emitted # Never => record[a].emitted \in Nat
    BY RecordFacts DEF IInv
  <2>2. job.kind = "analyze" => job.at \in Nat
    BY JobFacts DEF IInv, TypeInv
  <2> QED
    BY <1>1, <2>1, <2>2 DEF IInv, EmittedInv, Emissions
<1>4. ReadyInv'
  BY <1>1 DEF IInv, ReadyInv, Cooling, Emissions
<1>5. ViewInv'
  BY <1>1 DEF IInv, ViewInv, Switching
<1>6. SaveInv'
  BY <1>1 DEF IInv, SaveInv, SavedIsJournalled
<1>7. ShownInv'
  BY <1>1, ShownKept DEF IInv, ShownInv
<1>8. CooldownRespected'
  BY <1>1 DEF IInv, CooldownRespected, AnalysesSpaced, OthersAccounted, ReadyIn
<1> QED
  BY <1>2, <1>3, <1>4, <1>5, <1>6, <1>7, <1>8 DEF IInv

\* The analysis decides what it will show from the records as they are.
LEMMA AnalyzeKeeps ==
    ASSUME IInv, NEW r \in Requests, NEW S \in SUBSET Alerts, Analyze(r, S)
    PROVE  IInv'
<1> DEFINE state == [a \in Alerts |-> IF a \in S THEN Delivery(a, r, now) ELSE "absent"]
           report == [id |-> reports + 1, state |-> state]
<1>1. /\ now' = now /\ record' = record /\ latest' = latest /\ saved' = saved
      /\ journal' = journal /\ reports' = reports + 1 /\ shown' = shown /\ crashes' = crashes
      /\ saved[r] = Blank /\ ~Busy
      /\ job' = [kind |-> "analyze", request |-> r, at |-> now, todo |-> S, report |-> report]
  BY DEF Analyze
<1>2. job.kind = "idle" /\ now \in Nat /\ reports \in Nat
  BY <1>1, JobFacts DEF IInv, TypeInv
<1>3. \A a \in Alerts : state[a] = IF a \in S THEN Delivery(a, r, now) ELSE "absent"
  OBVIOUS
<1>4. state \in [Alerts -> States]
  <2>1. \A a \in Alerts : Delivery(a, r, now) \in States
    BY DEF Delivery, States
  <2> QED
    BY <2>1 DEF States
<1> HIDE DEF state
<1>5. report \in Report /\ report.state = state
  BY <1>2, <1>4 DEF Report
<1> HIDE DEF report
<1>6. /\ job'.kind = "analyze" /\ job'.request = r /\ job'.at = now /\ job'.todo = S
      /\ job'.report = report
  BY <1>1
<1>7. TypeInv'
  <2>1. job' \in Jobs
    BY <1>1, <1>2, <1>5 DEF Jobs
  <2> QED
    BY <1>1, <1>2, <2>1 DEF IInv, TypeInv
<1>8. EmittedInv'
  BY <1>1, <1>2, <1>6 DEF IInv, EmittedInv, Emissions
<1>9. ReadyInv'
  <2> SUFFICES ASSUME NEW a \in Alerts, state[a] = "ready"
               PROVE  /\ a \in S => ~Cooling(a, r, now)'
                      /\ a \in S
                      /\ \A x \in Emissions : x.alert = a => now - x.at >= CooldownOf[r]
    BY <1>1, <1>5, <1>6 DEF ReadyInv, Emissions
  <2>1. a \in S /\ ~Cooling(a, r, now)
    BY <1>3 DEF Delivery
  <2>2. Cooling(a, r, now)' = Cooling(a, r, now)
    BY <1>1 DEF Cooling
  <2>3. ASSUME NEW x \in Emissions, x.alert = a
        PROVE  now - x.at >= CooldownOf[r]
    <3>1. record[a].emitted # Never /\ x.at <= record[a].emitted
      BY <2>3 DEF IInv, EmittedInv
    <3>2. record[a].emitted \in Nat /\ x.at \in Nat /\ CooldownOf[r] \in Nat
      BY <3>1, RecordFacts, ShownFacts, AlertAssumption DEF IInv, Emissions
    <3>3. ~(now - record[a].emitted < CooldownOf[r])
      BY <2>1, <3>1 DEF Cooling
    <3> QED
      BY <1>2, <3>1, <3>2, <3>3
  <2> QED
    BY <2>1, <2>2, <2>3
<1>10. ViewInv'
  <2>1. \A a \in Alerts : ~Switching(a)
    BY <1>2 DEF Switching
  <2>2. \A a \in Alerts : record[a].acked => state[a] \in {"absent", "acknowledged"}
    BY <1>3 DEF Delivery
  <2>3. \A a \in Alerts : state[a] = "acknowledged" => record[a].acked
    BY <1>3 DEF Delivery
  <2> QED
    BY <1>1, <1>5, <1>6, <2>1, <2>2, <2>3 DEF IInv, ViewInv
<1>11. SaveInv'
  BY <1>1, <1>6 DEF IInv, SaveInv, SavedIsJournalled
<1>12. ShownInv'
  <2>1. job'.report.id = reports + 1
    BY <1>6 DEF report
  <2>2. Emissions' = Emissions /\ \A x \in Emissions : x.id \in Nat /\ x.id <= reports
    BY <1>1, ShownFacts DEF IInv, ShownInv, Emissions
  <2>3. \A x \in Emissions : x.id < reports + 1
    BY <1>2, <2>2
  <2> QED
    BY <1>1, <1>6, <2>1, <2>2, <2>3 DEF IInv, ShownInv
<1>13. CooldownRespected'
  BY <1>1 DEF IInv, CooldownRespected, AnalysesSpaced, OthersAccounted, ReadyIn
<1> QED
  BY <1>7, <1>8, <1>9, <1>10, <1>11, <1>12, <1>13 DEF IInv

\* The record of one alert is written: emitted now if it is out of its cooldown.
LEMMA WriteAlertKeeps ==
    ASSUME IInv, NEW a \in Alerts, WriteAlert(a)
    PROVE  IInv'
<1> DEFINE emitted == IF Cooling(a, job.request, job.at) THEN record[a].emitted ELSE job.at
           due == IF record[a].due = Never THEN job.at + Grace ELSE record[a].due
<1>1. /\ now' = now /\ latest' = latest /\ saved' = saved /\ journal' = journal
      /\ reports' = reports /\ shown' = shown /\ crashes' = crashes
      /\ job.kind = "analyze" /\ a \in job.todo
      /\ job' = [job EXCEPT !.todo = @ \ {a}]
      /\ record' = [record EXCEPT ![a] = [acked |-> record[a].acked, emitted |-> emitted,
                                          due |-> due]]
  BY DEF WriteAlert
<1>2. /\ job.request \in Requests /\ job.at \in Nat /\ job.todo \subseteq Alerts
      /\ job.report \in Report
      /\ job = [kind |-> "analyze", request |-> job.request, at |-> job.at,
                todo |-> job.todo, report |-> job.report]
  BY <1>1, JobFacts DEF IInv, TypeInv
<1>3. /\ job' = [kind |-> "analyze", request |-> job.request, at |-> job.at,
                 todo |-> job.todo \ {a}, report |-> job.report]
  BY <1>1, <1>2
<1>4. /\ job'.kind = "analyze" /\ job'.request = job.request /\ job'.at = job.at
      /\ job'.todo = job.todo \ {a} /\ job'.report = job.report
  BY <1>3
<1>5. /\ record[a].acked \in BOOLEAN /\ record[a].emitted \in Nat \cup {Never}
      /\ record[a].due \in Nat \cup {Never}
  BY RecordFacts DEF IInv
<1>6. emitted \in Nat
  BY <1>2, <1>5 DEF Cooling
<1>7. due \in Nat
  BY <1>2, <1>5, AlertAssumption
<1>8. emitted = job.at \/ emitted = record[a].emitted
  OBVIOUS
<1>9. ~Cooling(a, job.request, job.at) => emitted = job.at
  OBVIOUS
<1>10. record[a].emitted # Never => record[a].emitted <= emitted /\ emitted <= job.at
  BY <1>1, <1>2, <1>5, <1>8 DEF IInv, EmittedInv
<1>11. emitted <= job.at
  BY <1>2, <1>6, <1>10 DEF Cooling
<1> HIDE DEF emitted, due
<1>12. /\ record \in [Alerts -> AlertRecord]
       /\ record'[a] = [acked |-> record[a].acked, emitted |-> emitted, due |-> due]
       /\ \A b \in Alerts : b # a => record'[b] = record[b]
  BY <1>1 DEF IInv, TypeInv
<1>13. /\ record'[a].acked = record[a].acked /\ record'[a].emitted = emitted
  BY <1>12
<1>14. TypeInv'
  <2>1. record' \in [Alerts -> AlertRecord]
    <3>1. [acked |-> record[a].acked, emitted |-> emitted, due |-> due] \in AlertRecord
      BY <1>5, <1>6, <1>7 DEF AlertRecord
    <3> QED
      BY <1>1, <1>12, <3>1
  <2>2. job' \in Jobs
    BY <1>2, <1>3 DEF Jobs
  <2> QED
    BY <1>1, <2>1, <2>2 DEF IInv, TypeInv
<1>15. EmittedInv'
  <2>1. job.at <= now /\ now \in Nat
    BY <1>1 DEF IInv, EmittedInv, TypeInv
  <2>2. ASSUME NEW b \in Alerts, record'[b].emitted # Never
        PROVE  record'[b].emitted <= now /\ record'[b].emitted <= job.at
    <3>1. CASE b = a
      BY <1>2, <1>6, <1>11, <1>13, <2>1, <3>1
    <3>2. CASE b # a
      BY <1>1, <1>12, <2>2, <3>2 DEF IInv, EmittedInv
    <3> QED
      BY <3>1, <3>2
  <2>3. ASSUME NEW x \in Emissions
        PROVE  record'[x.alert].emitted # Never /\ x.at <= record'[x.alert].emitted
    <3>1. /\ x.alert \in Alerts /\ x.at \in Nat
          /\ record[x.alert].emitted # Never /\ x.at <= record[x.alert].emitted
      BY ShownFacts DEF IInv, EmittedInv, Emissions
    <3>2. CASE x.alert = a
      BY <1>5, <1>6, <1>10, <1>13, <3>1, <3>2, AlertAssumption
    <3>3. CASE x.alert # a
      BY <1>12, <3>1, <3>3
    <3> QED
      BY <3>2, <3>3
  <2> QED
    BY <1>1, <1>4, <2>1, <2>2, <2>3 DEF EmittedInv, Emissions
<1>16. ReadyInv'
  <2> SUFFICES ASSUME NEW b \in Alerts, job.report.state[b] = "ready"
               PROVE  /\ b \in job.todo \ {a} => ~Cooling(b, job.request, job.at)'
                      /\ b \notin job.todo \ {a} => record'[b].emitted = job.at
                      /\ \A x \in Emissions :
                             x.alert = b => job.at - x.at >= CooldownOf[job.request]
    BY <1>1, <1>4 DEF ReadyInv, Emissions
  <2>1. /\ b \in job.todo => ~Cooling(b, job.request, job.at)
        /\ b \notin job.todo => record[b].emitted = job.at
        /\ \A x \in Emissions : x.alert = b => job.at - x.at >= CooldownOf[job.request]
    BY <1>1 DEF IInv, ReadyInv
  <2>2. CASE b = a
    BY <1>1, <1>9, <1>13, <2>1, <2>2
  <2>3. CASE b # a
    <3>1. Cooling(b, job.request, job.at)' = Cooling(b, job.request, job.at)
      BY <1>4, <1>12, <2>3 DEF Cooling
    <3> QED
      BY <1>12, <2>1, <2>3, <3>1
  <2> QED
    BY <2>2, <2>3
<1>17. ViewInv'
  <2>1. \A b \in Alerts : record'[b].acked = record[b].acked
    BY <1>12, <1>13
  <2>2. \A b \in Alerts : ~Switching(b) /\ ~Switching(b)'
    BY <1>1, <1>4 DEF Switching
  <2> QED
    BY <1>1, <1>4, <2>1, <2>2 DEF IInv, ViewInv
<1>18. SaveInv'
  BY <1>1, <1>4 DEF IInv, SaveInv, SavedIsJournalled
<1>19. ShownInv'
  BY <1>1, <1>4 DEF IInv, ShownInv, Emissions
<1>20. CooldownRespected'
  BY <1>1 DEF IInv, CooldownRespected, AnalysesSpaced, OthersAccounted, ReadyIn
<1> QED
  BY <1>14, <1>15, <1>16, <1>17, <1>18, <1>19, <1>20 DEF IInv

\* The finished report becomes the latest, and its ready alerts are shown.
LEMMA PublishKeeps ==
    ASSUME IInv, Publish
    PROVE  IInv'
<1> DEFINE ready == ReadyIn(job.report)
           cd == CooldownOf[job.request]
           new == Ready(ready, job.at, cd, "analysis", job.report.id)
<1>1. /\ now' = now /\ record' = record /\ latest' = job.report /\ saved' = saved
      /\ journal' = journal /\ reports' = reports /\ crashes' = crashes
      /\ job.kind = "analyze" /\ job.todo = {}
      /\ shown' = shown \cup new
      /\ job' = [kind |-> "record", request |-> job.request, report |-> job.report]
  BY DEF Publish
<1>2. job.request \in Requests /\ job.at \in Nat /\ job.report \in Report /\ reports \in Nat
  BY <1>1, JobFacts DEF IInv, TypeInv
<1>3. /\ job.report.id = reports /\ \A x \in Emissions : x.id \in Nat /\ x.id < reports
      /\ job.at <= now
  BY <1>1, ShownFacts DEF IInv, ShownInv, EmittedInv, Emissions
<1>4. job'.kind = "record" /\ job'.request = job.request /\ job'.report = job.report
  BY <1>1
<1>5. cd \in Nat /\ ready \in SUBSET Alerts
  BY <1>2, AlertAssumption DEF ReadyIn
<1>6. /\ new \subseteq Showing
      /\ \A x \in new : /\ x.alert \in ready /\ x.at = job.at /\ x.wait = cd
                         /\ x.by = "analysis" /\ x.id = reports
      /\ \A a \in ready : \E x \in new : x.alert = a /\ x.by = "analysis" /\ x.id = reports
  <2>1. job.at \in Nat /\ job.report.id \in Nat
    BY <1>2, <1>3
  <2> HIDE DEF ready, cd
  <2>2. /\ new \subseteq Showing
        /\ \A x \in new : /\ x.alert \in ready /\ x.at = job.at /\ x.wait = cd
                           /\ x.by = "analysis" /\ x.id = job.report.id
        /\ \A a \in ready : \E x \in new : /\ x.alert = a /\ x.at = job.at /\ x.wait = cd
                                           /\ x.by = "analysis" /\ x.id = job.report.id
    <3> DEFINE E(b) == [alert |-> b, at |-> job.at, wait |-> cd, by |-> "analysis", id |-> job.report.id]
    <3>1. new = {E(b) : b \in ready}
      BY DEF Ready
    <3>2. \A b \in ready : /\ E(b) \in Showing /\ E(b).alert = b /\ E(b).at = job.at /\ E(b).wait = cd
                      /\ E(b).by = "analysis" /\ E(b).id = job.report.id
      BY <1>5, <2>1 DEF Showing
    <3> HIDE DEF E
    <3> QED
      BY <3>1, <3>2
  <2> QED
    BY <1>3, <2>2
<1>7. ASSUME NEW a \in ready
      PROVE  /\ a \in Alerts /\ record[a].emitted = job.at
             /\ \A x \in Emissions : x.alert = a => job.at - x.at >= cd
  BY <1>1 DEF IInv, ReadyInv, ReadyIn
<1> HIDE DEF cd, new
<1>8. \A x \in Emissions' : x \in Emissions \/ x \in new
  BY <1>1 DEF Emissions
<1>9. TypeInv'
  <2>1. job' \in Jobs
    BY <1>1, <1>2 DEF Jobs
  <2> QED
    BY <1>1, <1>2, <1>6, <2>1 DEF IInv, TypeInv
<1>10. EmittedInv'
  <2>1. ASSUME NEW x \in Emissions'
        PROVE  record[x.alert].emitted # Never /\ x.at <= record[x.alert].emitted
    <3>1. CASE x \in Emissions
      BY <3>1 DEF IInv, EmittedInv
    <3>2. CASE x \in new
      <4>1. x.alert \in ready /\ x.at = job.at
        BY <1>6, <3>2
      <4> QED
        BY <1>2, <1>7, <4>1, AlertAssumption
    <3> QED
      BY <1>8, <3>1, <3>2
  <2> QED
    BY <1>1, <1>4, <2>1 DEF IInv, EmittedInv
<1>11. ReadyInv'
  BY <1>4 DEF ReadyInv
<1>12. ViewInv'
  BY <1>1, <1>4 DEF IInv, ViewInv
<1>13. SaveInv'
  BY <1>1, <1>4 DEF IInv, SaveInv, SavedIsJournalled
<1>14. Decided(job.report, shown')
  BY <1>1, <1>3, <1>6 DEF Decided, ReadyIn
<1>15. ShownInv'
  <2>1. \A x \in shown' : x.at <= now
    BY <1>1, <1>3, <1>6 DEF IInv, ShownInv
  <2>2. \A x \in Emissions' : x.id <= reports
    BY <1>2, <1>3, <1>6, <1>8
  <2>3. \A r \in Requests : Decided(saved[r], shown')
    BY <1>1, DecidedKept DEF IInv, ShownInv
  <2> QED
    BY <1>1, <1>4, <1>14, <2>1, <2>2, <2>3 DEF ShownInv
<1>16. AnalysesSpaced'
  <2> SUFFICES ASSUME NEW x \in Emissions', NEW y \in Emissions', x.alert = y.alert, x.id < y.id
               PROVE  y.at - x.at >= y.wait
    BY DEF AnalysesSpaced, Emissions
  <2>1. x \in Emissions
    BY <1>2, <1>3, <1>6, <1>8
  <2>2. CASE y \in Emissions
    BY <2>1, <2>2 DEF IInv, CooldownRespected, AnalysesSpaced, Emissions
  <2>3. CASE y \in new
    <3>1. y.alert \in ready /\ y.at = job.at /\ y.wait = cd
      BY <1>6, <2>3
    <3> QED
      BY <1>7, <2>1, <3>1
  <2> QED
    BY <1>8, <2>2, <2>3
<1>17. OthersAccounted'
  <2>1. ASSUME NEW y \in shown', y.by = "replay"
        PROVE  \E x \in shown' : /\ x.by = "analysis" /\ x.alert = y.alert /\ x.id = y.id
                                /\ x.at <= y.at
    <3>1. y \in shown
      BY <1>1, <1>6, <2>1
    <3> QED
      BY <1>1, <2>1, <3>1 DEF IInv, CooldownRespected, OthersAccounted
  <2>2. \A a \in ready : \E x \in shown' : x.alert = a /\ x.id = job.report.id
    BY <1>1, <1>3, <1>6
  <2> QED
    BY <1>1, <2>1, <2>2 DEF OthersAccounted, ReadyIn
<1> QED
  BY <1>9, <1>10, <1>11, <1>12, <1>13, <1>15, <1>16, <1>17 DEF IInv, CooldownRespected

\* A step that only writes the ledger, saves, answers or dies leaves the records, the
\* view and the shown alerts.
LEMMA QuietKeeps ==
    ASSUME IInv, now' = now, record' = record, latest' = latest, shown' = shown,
           job' \in Jobs, job'.kind \in {"idle", "record", "save", "log"},
           saved' \in [Requests -> Report], reports' = reports,
           crashes' \in Nat, crashes' = 0 => crashes = 0 /\ \A a \in Alerts : ~Switching(a),
           \A r \in Requests : saved[r] = Blank \/ saved'[r] = saved[r]
    PROVE  TypeInv' /\ EmittedInv' /\ ReadyInv' /\ ViewInv' /\ CooldownRespected'
<1>1. TypeInv'
  BY DEF IInv, TypeInv
<1>2. EmittedInv' /\ ReadyInv' /\ CooldownRespected'
  BY DEF IInv, EmittedInv, ReadyInv, Emissions, CooldownRespected, AnalysesSpaced,
         OthersAccounted, ReadyIn
<1>3. ViewInv'
  <2> SUFFICES ASSUME crashes' = 0, NEW a \in Alerts
               PROVE  /\ record[a].acked => latest.state[a] \in {"absent", "acknowledged"}
                      /\ latest.state[a] = "acknowledged" =>
                             \/ record[a].acked
                             \/ \E r \in Requests : /\ saved'[r].id = latest.id
                                                    /\ saved'[r].state[a] = "acknowledged"
    BY DEF ViewInv
  <2>1. /\ record[a].acked => latest.state[a] \in {"absent", "acknowledged"}
        /\ latest.state[a] = "acknowledged" =>
               \/ record[a].acked
               \/ \E r \in Requests : /\ saved[r].id = latest.id
                                      /\ saved[r].state[a] = "acknowledged"
    BY DEF IInv, ViewInv
  <2>2. ASSUME NEW r \in Requests, saved[r].id = latest.id, saved[r].state[a] = "acknowledged"
        PROVE  saved'[r].id = latest.id /\ saved'[r].state[a] = "acknowledged"
    <3>1. saved[r] # Blank
      BY <2>2, BlankFacts
    <3> QED
      BY <2>2, <3>1
  <2> QED
    BY <2>1, <2>2
<1> QED
  BY <1>1, <1>2, <1>3

\* The report is recorded in the ledger.
LEMMA RecordKeeps ==
    ASSUME IInv, Record
    PROVE  IInv'
<1>1. /\ now' = now /\ record' = record /\ latest' = latest /\ saved' = saved
      /\ journal' = journal \cup {job.report.id} /\ reports' = reports /\ shown' = shown
      /\ crashes' = crashes /\ job.kind = "record"
      /\ job' = [kind |-> "save", request |-> job.request, report |-> job.report]
  BY DEF Record
<1>2. job.request \in Requests /\ job.report \in Report
  BY <1>1, JobFacts DEF IInv, TypeInv
<1>3. job' \in Jobs /\ job'.kind = "save" /\ job'.request = job.request /\ job'.report = job.report
  BY <1>1, <1>2 DEF Jobs
<1>4. /\ saved' \in [Requests -> Report] /\ crashes' \in Nat
      /\ \A a \in Alerts : ~Switching(a)
  BY <1>1 DEF IInv, TypeInv, Switching
<1>5. TypeInv' /\ EmittedInv' /\ ReadyInv' /\ ViewInv' /\ CooldownRespected'
  BY <1>1, <1>3, <1>4, QuietKeeps
<1>6. SaveInv'
  BY <1>1, <1>3 DEF IInv, SaveInv, SavedIsJournalled
<1>7. ShownInv'
  BY <1>1, <1>3 DEF IInv, ShownInv, Emissions
<1> QED
  BY <1>5, <1>6, <1>7 DEF IInv

\* The report is saved under its key, if it has one, and answered.
LEMMA SaveKeeps ==
    ASSUME IInv, Save
    PROVE  IInv'
<1>1. /\ now' = now /\ record' = record /\ latest' = latest /\ journal' = journal
      /\ reports' = reports /\ shown' = shown /\ crashes' = crashes
      /\ job.kind = "save" /\ job' = Idle
      /\ saved' = saved \/ saved' = [saved EXCEPT ![job.request] = job.report]
  BY DEF Save
<1>2. job.request \in Requests /\ job.report \in Report
  BY <1>1, JobFacts DEF IInv, TypeInv
<1>3. job' \in Jobs /\ job'.kind = "idle"
  BY <1>1 DEF Jobs, Idle
<1>4. saved[job.request] = Blank /\ job.report.id \in journal
  BY <1>1 DEF IInv, SaveInv
<1>5. /\ saved' \in [Requests -> Report] /\ crashes' \in Nat
      /\ \A a \in Alerts : ~Switching(a)
      /\ \A r \in Requests : saved'[r] = saved[r] \/ (saved[r] = Blank /\ saved'[r] = job.report)
  BY <1>1, <1>2, <1>4 DEF IInv, TypeInv, Switching
<1>6. TypeInv' /\ EmittedInv' /\ ReadyInv' /\ ViewInv' /\ CooldownRespected'
  BY <1>1, <1>3, <1>5, QuietKeeps
<1>7. SaveInv'
  BY <1>1, <1>3, <1>4, <1>5 DEF IInv, SaveInv, SavedIsJournalled
<1>8. ShownInv'
  <2>1. \A r \in Requests : Decided(saved'[r], shown)
    BY <1>1, <1>5 DEF IInv, ShownInv
  <2> QED
    BY <1>1, <1>3, <2>1 DEF IInv, ShownInv, Emissions
<1> QED
  BY <1>6, <1>7, <1>8 DEF IInv

\* A retry publishes its saved report again, with the acknowledgements made since.
LEMMA ReplayKeeps ==
    ASSUME IInv, NEW r \in Requests, Replay(r)
    PROVE  IInv'
<1> DEFINE state == [a \in Alerts |-> IF saved[r].state[a] # "absent" /\ record[a].acked
                                      THEN "acknowledged" ELSE saved[r].state[a]]
<1>1. /\ now' = now /\ record' = record /\ saved' = saved /\ journal' = journal
      /\ reports' = reports /\ crashes' = crashes /\ job' = job
      /\ ~Busy /\ latest' = [saved[r] EXCEPT !.state = state]
      /\ shown' = shown \cup Ready(ReadyIn(latest'), now, CooldownOf[r], "replay", saved[r].id)
  BY DEF Replay, Cached
<1>2. /\ saved[r] \in Report /\ saved[r].state \in [Alerts -> States]
      /\ saved[r] = [id |-> saved[r].id, state |-> saved[r].state] /\ saved[r].id \in Nat
  BY ReportFacts DEF IInv, TypeInv
<1>3. \A a \in Alerts : state[a] = IF saved[r].state[a] # "absent" /\ record[a].acked
                                   THEN "acknowledged" ELSE saved[r].state[a]
  OBVIOUS
<1>4. state \in [Alerts -> States]
  BY <1>2 DEF States
<1> HIDE DEF state
<1>5. latest' = [id |-> saved[r].id, state |-> state]
  BY <1>1, <1>2
<1>6. latest' \in Report /\ latest'.id = saved[r].id /\ latest'.state = state
  BY <1>2, <1>4, <1>5 DEF Report
<1>7. job.kind = "idle"
  BY <1>1, JobFacts DEF IInv, TypeInv
<1> DEFINE ready == ReadyIn(latest')
           new == Ready(ready, now, CooldownOf[r], "replay", saved[r].id)
<1>12. /\ ready \in SUBSET Alerts /\ now \in Nat /\ CooldownOf[r] \in Nat
       /\ \A a \in ready : saved[r].state[a] = "ready"
  BY <1>3, <1>6, AlertAssumption DEF IInv, TypeInv, ReadyIn
<1>13. /\ new \subseteq Showing
       /\ \A x \in new : /\ x.alert \in ready /\ x.at = now /\ x.by = "replay"
                          /\ x.id = saved[r].id
       /\ \A a \in ready : \E x \in new : x.alert = a /\ x.id = saved[r].id
  <2> HIDE DEF ready
  <2> DEFINE E(b) == [alert |-> b, at |-> now, wait |-> CooldownOf[r], by |-> "replay", id |-> saved[r].id]
  <2>1. new = {E(b) : b \in ready}
    BY DEF Ready
  <2>2. \A b \in ready : /\ E(b) \in Showing /\ E(b).alert = b /\ E(b).at = now /\ E(b).wait = CooldownOf[r]
                    /\ E(b).by = "replay" /\ E(b).id = saved[r].id
    BY <1>2, <1>12 DEF Showing
  <2> HIDE DEF E
  <2> QED
    BY <2>1, <2>2
<1>14. shown' = shown \cup new
  BY <1>1
<1> HIDE DEF new
<1>15. /\ Emissions' = Emissions /\ AnalysesSpaced'
       /\ \A x \in shown' : x.at <= now'
       /\ \A report : Decided(report, shown) => Decided(report, shown')
  <2>1. \A x \in shown' : x \in shown \/ (x.at <= now' /\ x.by # "analysis")
    BY <1>1, <1>12, <1>13, <1>14
  <2>2. shown \subseteq shown' /\ reports' = reports /\ now' \in Nat /\ now <= now'
    BY <1>1, <1>12, <1>14
  <2> QED
    BY <1>12, <2>1, <2>2, ShownKept
<1>8. TypeInv'
  BY <1>1, <1>6, <1>13, <1>14 DEF IInv, TypeInv
<1>9. EmittedInv' /\ ReadyInv'
  BY <1>1, <1>7, <1>15 DEF IInv, EmittedInv, ReadyInv
<1>10. ViewInv'
  <2> SUFFICES ASSUME NEW a \in Alerts
               PROVE  /\ record[a].acked => state[a] \in {"absent", "acknowledged"}
                      /\ state[a] = "acknowledged" =>
                             record[a].acked \/ saved[r].state[a] = "acknowledged"
    BY <1>1, <1>6, <1>7 DEF ViewInv
  <2> QED
    BY <1>3
<1>11. SaveInv'
  BY <1>1 DEF IInv, SaveInv, SavedIsJournalled
<1>16. ShownInv'
  BY <1>1, <1>7, <1>15 DEF IInv, ShownInv
<1>17. OthersAccounted'
  <2>1. ASSUME NEW y \in shown', y.by = "replay"
        PROVE  \E x \in shown' : /\ x.by = "analysis" /\ x.alert = y.alert /\ x.id = y.id
                                /\ x.at <= y.at
    <3>1. CASE y \in shown
      BY <1>14, <2>1, <3>1 DEF IInv, CooldownRespected, OthersAccounted
    <3>2. CASE y \in new
      <4>1. y.alert \in ready /\ y.at = now /\ y.id = saved[r].id
        BY <1>13, <3>2
      <4>2. PICK x \in shown : x.by = "analysis" /\ x.alert = y.alert /\ x.id = saved[r].id
        BY <1>12, <4>1 DEF IInv, ShownInv, Decided
      <4>3. x.at <= now
        BY DEF IInv, ShownInv
      <4> QED
        BY <1>14, <4>1, <4>2, <4>3
    <3> QED
      BY <1>14, <3>1, <3>2
  <2>2. \A a \in ready : \E x \in shown' : x.alert = a /\ x.id = saved[r].id
    BY <1>13, <1>14
  <2> QED
    BY <1>6, <2>1, <2>2 DEF OthersAccounted, ReadyIn
<1> QED
  BY <1>8, <1>9, <1>10, <1>11, <1>15, <1>16, <1>17 DEF IInv, CooldownRespected

\* An acknowledgement, or its withdrawal, is written to the record of the alert.
LEMMA SwitchKeeps ==
    ASSUME IInv, NEW a \in Alerts, NEW on \in BOOLEAN, Switch(a, on)
    PROVE  IInv'
<1>1. /\ now' = now /\ latest' = latest /\ saved' = saved /\ journal' = journal
      /\ reports' = reports /\ shown' = shown /\ crashes' = crashes /\ ~Busy
      /\ record' = [record EXCEPT ![a].acked = on]
      /\ job' = [kind |-> "switch", alert |-> a, on |-> on]
  BY DEF Switch
<1>2. /\ record[a].emitted \in Nat \cup {Never} /\ record[a].due \in Nat \cup {Never}
      /\ record[a] = [acked |-> record[a].acked, emitted |-> record[a].emitted,
                      due |-> record[a].due]
      /\ record \in [Alerts -> AlertRecord]
  BY RecordFacts DEF IInv, TypeInv
<1>3. record'[a] = [acked |-> on, emitted |-> record[a].emitted, due |-> record[a].due]
  BY <1>1, <1>2
<1>4. /\ record'[a].emitted = record[a].emitted /\ record'[a].acked = on
      /\ \A b \in Alerts : b # a => record'[b] = record[b]
  BY <1>1, <1>2, <1>3
<1>5. \A b \in Alerts : record'[b].emitted = record[b].emitted
  BY <1>4
<1>6. /\ job'.kind = "switch" /\ job'.alert = a /\ job'.on = on /\ job' \in Jobs
      /\ job.kind = "idle"
  BY <1>1, JobFacts DEF IInv, TypeInv, Jobs
<1>7. TypeInv'
  <2>1. record'[a] \in AlertRecord
    BY <1>2, <1>3 DEF AlertRecord
  <2>2. record' \in [Alerts -> AlertRecord]
    BY <1>1, <1>2, <2>1
  <2> QED
    BY <1>1, <1>6, <2>2 DEF IInv, TypeInv
<1>8. EmittedInv'
  <2>1. \A x \in Emissions : x.alert \in Alerts
    BY ShownFacts DEF IInv, Emissions
  <2> QED
    BY <1>1, <1>5, <1>6, <2>1 DEF IInv, EmittedInv, Emissions
<1>9. ReadyInv'
  BY <1>6 DEF ReadyInv
<1>10. ViewInv'
  <2>1. \A b \in Alerts : ~Switching(b) /\ (~Switching(b)' => b # a)
    BY <1>6 DEF Switching
  <2> QED
    BY <1>1, <1>4, <1>6, <2>1 DEF IInv, ViewInv
<1>11. SaveInv' /\ ShownInv'
  BY <1>1, <1>6 DEF IInv, SaveInv, SavedIsJournalled, ShownInv, Emissions
<1>12. CooldownRespected'
  BY <1>1 DEF IInv, CooldownRespected, AnalysesSpaced, OthersAccounted, ReadyIn
<1> QED
  BY <1>7, <1>8, <1>9, <1>10, <1>11, <1>12 DEF IInv

\* The switched alert changes in the latest report as in its record.
LEMMA SwitchLatestKeeps ==
    ASSUME IInv, SwitchLatest
    PROVE  IInv'
<1> DEFINE a == job.alert
           new == IF latest.state[a] = "absent" THEN latest.state[a]
                  ELSE IF job.on THEN "acknowledged" ELSE "ready"
<1>1. /\ now' = now /\ record' = record /\ saved' = saved /\ journal' = journal
      /\ reports' = reports /\ crashes' = crashes /\ job.kind = "switch"
      /\ shown' = IF job.on \/ latest.state[a] = "absent" THEN shown
                  ELSE shown \cup Ready({a}, now, 0, "unack", latest.id)
      /\ job' = [job EXCEPT !.kind = "log"]
      /\ latest' = [latest EXCEPT !.state[a] = new]
  BY DEF SwitchLatest
<1>2. /\ a \in Alerts /\ job.on \in BOOLEAN
      /\ job = [kind |-> job.kind, alert |-> a, on |-> job.on]
  BY <1>1, JobFacts DEF IInv, TypeInv
<1>3. job' = [kind |-> "log", alert |-> a, on |-> job.on]
  BY <1>1, <1>2
<1>4. job'.kind = "log" /\ job' \in Jobs
  BY <1>2, <1>3 DEF Jobs
<1>5. /\ latest.id \in Nat /\ latest.state \in [Alerts -> States]
      /\ latest = [id |-> latest.id, state |-> latest.state]
  BY ReportFacts DEF IInv, TypeInv
<1>6. new \in States
  BY <1>2, <1>5 DEF States
<1>7. record[a].acked = job.on
  BY <1>1 DEF IInv, ViewInv
<1>8. /\ record[a].acked => new \in {"absent", "acknowledged"}
      /\ new = "acknowledged" => record[a].acked
  BY <1>7
<1>16. PICK E \in {{}, Ready({a}, now, 0, "unack", latest.id)} :
           /\ shown' = shown \cup E
           /\ new = "ready" => \E x \in E : x.alert = a /\ x.id = latest.id
           /\ E \subseteq Showing
           /\ \A x \in E : x.at = now /\ x.by = "unack"
  <2> DEFINE R == Ready({a}, now, 0, "unack", latest.id)
  <2>1. now \in Nat /\ {a} \in SUBSET Alerts /\ 0 \in Nat
    BY <1>2 DEF IInv, TypeInv
  <2>2. /\ R \subseteq Showing /\ \A x \in R : x.at = now /\ x.by = "unack"
        /\ \E x \in R : x.alert = a /\ x.id = latest.id
    <3> HIDE DEF a
    <3> DEFINE E(b) == [alert |-> b, at |-> now, wait |-> 0, by |-> "unack", id |-> latest.id]
    <3>1. R = {E(b) : b \in {a}}
      BY DEF Ready
    <3>2. \A b \in {a} : /\ E(b) \in Showing /\ E(b).alert = b /\ E(b).at = now /\ E(b).wait = 0
                      /\ E(b).by = "unack" /\ E(b).id = latest.id
      BY <1>5, <2>1 DEF Showing
    <3> HIDE DEF E
    <3> QED
      BY <3>1, <3>2
  <2> HIDE DEF R
  <2>3. CASE job.on \/ latest.state[a] = "absent"
    <3>1. new # "ready" /\ shown' = shown \cup {}
      BY <1>1, <2>3
    <3> QED
      BY <3>1
  <2>4. CASE ~(job.on \/ latest.state[a] = "absent")
    <3>1. shown' = shown \cup R
      BY <1>1, <2>4 DEF R
    <3> QED
      BY <2>2, <3>1 DEF R
  <2> QED
    BY <2>3, <2>4
<1> HIDE DEF new, a
<1>17. /\ Emissions' = Emissions /\ AnalysesSpaced'
       /\ \A x \in shown' : x.at <= now'
       /\ \A report : Decided(report, shown) => Decided(report, shown')
  <2>1. now \in Nat
    BY DEF IInv, TypeInv
  <2>2. \A x \in shown' : x \in shown \/ (x.at <= now' /\ x.by # "analysis")
    BY <1>1, <1>16, <2>1
  <2>3. shown \subseteq shown' /\ reports' = reports /\ now' \in Nat /\ now <= now'
    BY <1>1, <1>16, <2>1
  <2> QED
    BY <2>1, <2>2, <2>3, ShownKept
<1>9. latest' = [id |-> latest.id, state |-> [latest.state EXCEPT ![a] = new]]
  BY <1>1, <1>5
<1>10. /\ latest'.id = latest.id /\ latest'.state = [latest.state EXCEPT ![a] = new]
       /\ latest' \in Report
  BY <1>5, <1>6, <1>9 DEF Report
<1>11. latest'.state[a] = new /\ \A b \in Alerts : b # a => latest'.state[b] = latest.state[b]
  BY <1>2, <1>5, <1>10
<1>12. TypeInv'
  BY <1>1, <1>4, <1>10, <1>16 DEF IInv, TypeInv
<1>13. EmittedInv' /\ ReadyInv'
  BY <1>1, <1>4, <1>17 DEF IInv, EmittedInv, ReadyInv
<1>14. ViewInv'
  <2> SUFFICES ASSUME crashes = 0, NEW b \in Alerts
               PROVE  /\ record[b].acked => latest'.state[b] \in {"absent", "acknowledged"}
                      /\ latest'.state[b] = "acknowledged" =>
                             \/ record[b].acked
                             \/ \E r \in Requests : /\ saved[r].id = latest.id
                                                    /\ saved[r].state[b] = "acknowledged"
    BY <1>1, <1>4, <1>10 DEF ViewInv
  <2>1. CASE b = a
    BY <1>8, <1>11, <2>1
  <2>2. CASE b # a
    <3>1. ~Switching(b)
      BY <2>2 DEF Switching, a
    <3> QED
      BY <1>11, <2>2, <3>1 DEF IInv, ViewInv
  <2> QED
    BY <2>1, <2>2
<1>15. SaveInv'
  BY <1>1, <1>4 DEF IInv, SaveInv, SavedIsJournalled
<1>18. ShownInv'
  BY <1>1, <1>4, <1>17 DEF IInv, ShownInv
<1>19. OthersAccounted'
  <2>1. ASSUME NEW y \in shown', y.by = "replay"
        PROVE  \E x \in shown' : /\ x.by = "analysis" /\ x.alert = y.alert /\ x.id = y.id
                                /\ x.at <= y.at
    <3>1. y \in shown
      BY <1>16, <2>1
    <3> QED
      BY <1>16, <2>1, <3>1 DEF IInv, CooldownRespected, OthersAccounted
  <2>2. ASSUME NEW b \in Alerts, latest'.state[b] = "ready"
        PROVE  \E x \in shown' : x.alert = b /\ x.id = latest.id
    <3>1. CASE b = a
      BY <1>11, <1>16, <2>2, <3>1
    <3>2. CASE b # a
      BY <1>11, <1>16, <2>2, <3>2 DEF IInv, CooldownRespected, OthersAccounted, ReadyIn
    <3> QED
      BY <3>1, <3>2
  <2> QED
    BY <1>10, <2>1, <2>2 DEF OthersAccounted, ReadyIn
<1> QED
  BY <1>12, <1>13, <1>14, <1>15, <1>17, <1>18, <1>19 DEF IInv, CooldownRespected

\* The switch is recorded in the ledger and answered.
LEMMA SwitchLogKeeps ==
    ASSUME IInv, SwitchLog
    PROVE  IInv'
<1>1. /\ now' = now /\ record' = record /\ latest' = latest /\ saved' = saved
      /\ journal' = journal /\ reports' = reports /\ shown' = shown /\ crashes' = crashes
      /\ job.kind = "log" /\ job' = Idle
  BY DEF SwitchLog
<1>2. job' \in Jobs /\ job'.kind = "idle"
  BY <1>1 DEF Jobs, Idle
<1>3. /\ saved' \in [Requests -> Report] /\ crashes' \in Nat
      /\ \A a \in Alerts : ~Switching(a)
  BY <1>1 DEF IInv, TypeInv, Switching
<1>4. TypeInv' /\ EmittedInv' /\ ReadyInv' /\ ViewInv' /\ CooldownRespected'
  BY <1>1, <1>2, <1>3, QuietKeeps
<1>5. SaveInv'
  BY <1>1, <1>2 DEF IInv, SaveInv, SavedIsJournalled
<1>6. ShownInv'
  BY <1>1, <1>2 DEF IInv, ShownInv, Emissions
<1> QED
  BY <1>4, <1>5, <1>6 DEF IInv

\* The process dies, or a write raises, between two writes of a handler.
LEMMA CrashKeeps ==
    ASSUME IInv, Crash
    PROVE  IInv'
<1>1. /\ now' = now /\ record' = record /\ latest' = latest /\ saved' = saved
      /\ journal' = journal /\ reports' = reports /\ shown' = shown
      /\ crashes' = crashes + 1 /\ job' = Idle
  BY DEF Crash
<1>2. job' \in Jobs /\ job'.kind = "idle"
  BY <1>1 DEF Jobs, Idle
<1>3. saved' \in [Requests -> Report] /\ crashes' \in Nat /\ crashes' # 0
  BY <1>1 DEF IInv, TypeInv
<1>4. TypeInv' /\ EmittedInv' /\ ReadyInv' /\ ViewInv' /\ CooldownRespected'
  BY <1>1, <1>2, <1>3, QuietKeeps
<1>5. SaveInv'
  BY <1>1, <1>2 DEF IInv, SaveInv, SavedIsJournalled
<1>6. ShownInv'
  BY <1>1, <1>2 DEF IInv, ShownInv, Emissions
<1> QED
  BY <1>4, <1>5, <1>6 DEF IInv

\* Every step keeps the invariant.
LEMMA StepKeepsInv == IInv /\ [Next]_vars => IInv'
<1> SUFFICES ASSUME IInv, [Next]_vars PROVE IInv'
  OBVIOUS
<1>1. CASE Tick \/ Publish \/ Record \/ Save \/ SwitchLatest \/ SwitchLog \/ Crash
  BY <1>1, TickKeeps, PublishKeeps, RecordKeeps, SaveKeeps, SwitchLatestKeeps,
     SwitchLogKeeps, CrashKeeps
<1>2. ASSUME NEW r \in Requests, Replay(r)
      PROVE  IInv'
  BY <1>2, ReplayKeeps
<1>3. ASSUME NEW r \in Requests, NEW S \in SUBSET Alerts, Analyze(r, S)
      PROVE  IInv'
  BY <1>3, AnalyzeKeeps
<1>4. ASSUME NEW a \in Alerts, WriteAlert(a)
      PROVE  IInv'
  BY <1>4, WriteAlertKeeps
<1>5. ASSUME NEW a \in Alerts, Switch(a, TRUE) \/ Switch(a, FALSE)
      PROVE  IInv'
  BY <1>5, SwitchKeeps
<1>6. CASE UNCHANGED vars
  BY <1>6 DEF vars, IInv, TypeInv, EmittedInv, ReadyInv, Cooling, ViewInv, Switching, SaveInv,
              SavedIsJournalled, ShownInv, Emissions, CooldownRespected, AnalysesSpaced,
              OthersAccounted, ReadyIn
<1> QED
  BY <1>1, <1>2, <1>3, <1>4, <1>5, <1>6 DEF Next, Quiet

\* The invariant holds in every reachable state of the alert loop.
THEOREM AlertInvariant == Spec => []IInv
BY InitInv, StepKeepsInv, PTL DEF Spec

-----------------------------------------------------------------------------
(* What operators rely on.                                                 *)

\* Two analyses show an alert as ready only with the later request's cooldown between
\* them, whatever requests with other cooldowns, switches, replays and crashes come in
\* between; the latest report shows it as ready otherwise only by the replay of such an
\* analysis or by taking an acknowledgement back, which have no cooldown.
THEOREM CooldownAlwaysRespected == Spec => []CooldownRespected
<1>1. IInv => CooldownRespected
  BY DEF IInv
<1> QED
  BY <1>1, AlertInvariant, PTL

\* Without a crash the latest report shows an acknowledgement exactly while it is
\* recorded, or because a report saved then is replayed; and a report that a retry can
\* be answered with is in the ledger even after a crash.
THEOREM ViewAlwaysFaithful == Spec => []ViewFaithful
<1>1. IInv => ViewFaithful
  <2> SUFFICES ASSUME IInv PROVE ViewFaithful
    OBVIOUS
  <2>1. SavedIsJournalled
    BY DEF IInv, SaveInv
  <2>2. ASSUME ~Busy
        PROVE  \A a \in Alerts : ~Switching(a)
    BY <2>2, JobFacts DEF IInv, TypeInv, Switching
  <2>3. AckVisible
    BY <2>2 DEF IInv, ViewInv, AckVisible
  <2>4. UnackVisible
    BY <2>2 DEF IInv, ViewInv, UnackVisible
  <2> QED
    BY <2>1, <2>3, <2>4 DEF ViewFaithful
<1> QED
  BY <1>1, AlertInvariant, PTL

\* Once an alert has an escalation deadline, no step moves it.
THEOREM DeadlineNeverMoves == Spec => DeadlineKept
<1>1. IInv /\ [Next]_vars =>
          [\A a \in Alerts : record[a].due # Never => record'[a].due = record[a].due]_vars
  <2> SUFFICES ASSUME IInv, [Next]_vars, NEW a \in Alerts, record[a].due # Never
               PROVE  record'[a].due = record[a].due
    OBVIOUS
  <2>1. record \in [Alerts -> AlertRecord]
    BY DEF IInv, TypeInv
  <2>2. ASSUME NEW b \in Alerts, WriteAlert(b)
        PROVE  record'[a].due = record[a].due
    BY <2>1, <2>2 DEF WriteAlert
  <2>3. ASSUME NEW b \in Alerts, NEW on \in BOOLEAN, Switch(b, on)
        PROVE  record'[a].due = record[a].due
    <3>1. record[a] = [acked |-> record[a].acked, emitted |-> record[a].emitted,
                       due |-> record[a].due]
      BY RecordFacts DEF IInv
    <3> QED
      BY <2>1, <2>3, <3>1 DEF Switch
  <2>4. CASE record' = record
    BY <2>4
  <2>5. \/ record' = record
        \/ \E b \in Alerts : WriteAlert(b) \/ Switch(b, TRUE) \/ Switch(b, FALSE)
    BY DEF Next, vars, Tick, Publish, Record, Save, SwitchLatest, SwitchLog, Crash, Quiet,
           Replay, Analyze
  <2> QED
    BY <2>2, <2>3, <2>4, <2>5
<1> QED
  BY <1>1, AlertInvariant, PTL DEF Spec, DeadlineKept
=============================================================================
