---------------------------- MODULE StrategicAlerts ----------------------------
(***************************************************************************)
(* The strategic alert loop of src/continuityos/service.py                 *)
(* (strategic_analyze, acknowledge_strategic_alert,                        *)
(* unacknowledge_strategic_alert): durable alert records with              *)
(* acknowledgement, cooldown and escalation deadline, the latest report,   *)
(* the reports saved under idempotency keys, and the audit entries of the  *)
(* evidence ledger.                                                        *)
(*                                                                         *)
(* Handlers run one at a time on the event loop; `job' is the one running, *)
(* and the process may die between any two of its durable writes.          *)
(***************************************************************************)
EXTENDS Naturals, Sequences

CONSTANTS
    Alerts,      \* alert keys
    Requests,    \* analysis requests
    Keyless,     \* the requests sent without an Idempotency-Key
    CooldownOf,  \* [Requests -> Nat]: alert_cooldown_seconds of a request
    Grace,       \* seconds until the escalation is due
    Never,       \* no time recorded
    MaxTime, MaxReports, MaxSwitches, MaxCrashes   \* bounds

ASSUME AlertAssumption ==
    /\ Keyless \subseteq Requests
    /\ CooldownOf \in [Requests -> Nat] /\ Grace \in Nat
    /\ MaxTime \in Nat /\ MaxReports \in Nat /\ MaxSwitches \in Nat /\ MaxCrashes \in Nat
    /\ Never \notin Nat

VARIABLES
    now,
    record,     \* strategic_alerts: [acked, emitted, due] per alert
    latest,     \* strategic.latest: a report
    saved,      \* idempotency records: request |-> report
    audit,      \* ledger: the last acknowledgement entry of each alert
    journal,    \* ledger: the report ids recorded
    reports,    \* reports computed so far
    job,        \* the handler on the event loop
    shown,      \* history: every time the latest report was written with an alert "ready"
    switches, crashes

vars == <<now, record, latest, saved, audit, journal, reports, job, shown,
          switches, crashes>>

Idle == [kind |-> "idle"]
Blank == [id |-> 0, state |-> [a \in Alerts |-> "absent"]]
Busy == job # Idle

\* History: the alerts in S are shown ready, in the report id, by an analysis or a replay
\* of request r, or because an acknowledgement was taken back.
Ready(S, t, wait, by, id) ==
    {[alert |-> a, at |-> t, wait |-> wait, by |-> by, id |-> id] : a \in S}
ReadyIn(report) == {a \in Alerts : report.state[a] = "ready"}

-----------------------------------------------------------------------------

Init ==
    /\ now = 0
    /\ record = [a \in Alerts |-> [acked |-> FALSE, emitted |-> Never, due |-> Never]]
    /\ latest = Blank
    /\ saved = [r \in Requests |-> Blank]
    /\ audit = [a \in Alerts |-> "none"]
    /\ journal = {}
    /\ reports = 0
    /\ job = Idle
    /\ shown = {}
    /\ switches = 0
    /\ crashes = 0

Tick ==
    /\ now < MaxTime
    /\ now' = now + 1
    /\ UNCHANGED <<record, latest, saved, audit, journal, reports, job, shown,
                   switches, crashes>>

\* Fault: the boundary of the cooldown is taken one second early.
CoolingEarly(a, r, t) ==
    record[a].emitted # Never /\ t - record[a].emitted + 1 < CooldownOf[r]

\* elapsed < alert_cooldown_seconds
Cooling(a, r, t) == record[a].emitted # Never /\ t - record[a].emitted < CooldownOf[r]

Delivery(a, r, t) == IF record[a].acked THEN "acknowledged"
                     ELSE IF Cooling(a, r, t) THEN "cooldown" ELSE "ready"

\* strategic_analyze without a saved response: the report of the alerts in S.
Analyze(r, S) ==
    /\ ~Busy
    /\ saved[r] = Blank
    /\ reports < MaxReports
    /\ reports' = reports + 1
    /\ job' = [kind |-> "analyze", request |-> r, at |-> now, todo |-> S,
               report |-> [id |-> reports + 1,
                           state |-> [a \in Alerts |-> IF a \in S THEN Delivery(a, r, now)
                                                       ELSE "absent"]]]
    /\ UNCHANGED <<now, record, latest, saved, audit, journal, shown, switches, crashes>>

\* Fault: the escalation deadline is restarted by every analysis.
WriteAlertRestart(a) ==
    /\ job.kind = "analyze" /\ a \in job.todo
    /\ record' = [record EXCEPT
           ![a] = [acked |-> @.acked,
                   emitted |-> IF Cooling(a, job.request, job.at) THEN @.emitted ELSE job.at,
                   due |-> job.at + Grace]]
    /\ job' = [job EXCEPT !.todo = @ \ {a}]
    /\ UNCHANGED <<now, latest, saved, audit, journal, reports, shown, switches, crashes>>

\* set_value("strategic_alerts", alert_key, ...) for one alert of the report.
WriteAlert(a) ==
    /\ job.kind = "analyze" /\ a \in job.todo
    /\ record' = [record EXCEPT
           ![a] = [acked |-> @.acked,
                   emitted |-> IF Cooling(a, job.request, job.at) THEN @.emitted ELSE job.at,
                   due |-> IF @.due = Never THEN job.at + Grace ELSE @.due]]
    /\ job' = [job EXCEPT !.todo = @ \ {a}]
    /\ UNCHANGED <<now, latest, saved, audit, journal, reports, shown, switches, crashes>>

\* set_value("strategic", "latest", ...).
Publish ==
    /\ job.kind = "analyze" /\ job.todo = {}
    /\ latest' = job.report
    /\ shown' = shown \cup Ready(ReadyIn(job.report), job.at, CooldownOf[job.request],
                                "analysis", job.report.id)
    /\ job' = [kind |-> "record", request |-> job.request, report |-> job.report]
    /\ UNCHANGED <<now, record, saved, audit, journal, reports, switches, crashes>>

\* ledger.append("strategic_analysis", ...).
Record ==
    /\ job.kind = "record"
    /\ journal' = journal \cup {job.report.id}
    /\ job' = [kind |-> "save", request |-> job.request, report |-> job.report]
    /\ UNCHANGED <<now, record, latest, saved, audit, reports, shown, switches, crashes>>

\* save_idempotency (a no-op without a key) and the answer.
Save ==
    /\ job.kind = "save"
    /\ saved' = IF job.request \in Keyless THEN saved
                ELSE [saved EXCEPT ![job.request] = job.report]
    /\ job' = Idle
    /\ UNCHANGED <<now, record, latest, audit, journal, reports, shown, switches, crashes>>

\* Fault: the saved report is published without a look at the alert records.
CachedAsSaved(r) == saved[r]

\* The saved report with the alerts acknowledged since then marked so.
Cached(r) ==
    [saved[r] EXCEPT !.state =
        [a \in Alerts |-> IF saved[r].state[a] # "absent" /\ record[a].acked
                          THEN "acknowledged" ELSE saved[r].state[a]]]

\* strategic_analyze with a saved response: it becomes the latest report again.
Replay(r) ==
    /\ ~Busy
    /\ saved[r] # Blank
    /\ latest' = Cached(r)
    /\ shown' = shown \cup Ready(ReadyIn(Cached(r)), now, CooldownOf[r], "replay", saved[r].id)
    /\ UNCHANGED <<now, record, saved, audit, journal, reports, job, switches, crashes>>

\* acknowledge_strategic_alert (on) or unacknowledge_strategic_alert: the record.
Switch(a, on) ==
    /\ ~Busy
    /\ switches < MaxSwitches
    /\ switches' = switches + 1
    /\ record' = [record EXCEPT ![a].acked = on]
    /\ job' = [kind |-> "switch", alert |-> a, on |-> on]
    /\ UNCHANGED <<now, latest, saved, audit, journal, reports, shown, crashes>>

\* ... then the alert inside the latest report, if it is there: taking an
\* acknowledgement back makes it ready with no look at its cooldown.
SwitchLatest ==
    /\ job.kind = "switch"
    /\ latest' = [latest EXCEPT !.state[job.alert] =
                     IF @ = "absent" THEN @ ELSE IF job.on THEN "acknowledged" ELSE "ready"]
    /\ shown' = IF job.on \/ latest.state[job.alert] = "absent" THEN shown
                ELSE shown \cup Ready({job.alert}, now, 0, "unack", latest.id)
    /\ job' = [job EXCEPT !.kind = "log"]
    /\ UNCHANGED <<now, record, saved, audit, journal, reports, switches, crashes>>

\* ... then the ledger entry, and the answer.
SwitchLog ==
    /\ job.kind = "log"
    /\ audit' = [audit EXCEPT ![job.alert] = IF job.on THEN "ack" ELSE "unack"]
    /\ job' = Idle
    /\ UNCHANGED <<now, record, latest, saved, journal, reports, shown, switches, crashes>>

\* The process dies inside a handler, or one of its writes raises.
Crash ==
    /\ Busy
    /\ crashes < MaxCrashes
    /\ crashes' = crashes + 1
    /\ job' = Idle
    /\ UNCHANGED <<now, record, latest, saved, audit, journal, reports, shown, switches>>

\* Nothing left to explore within the bounds.
Quiet == now = MaxTime /\ ~Busy /\ UNCHANGED vars

Next ==
    \/ Tick \/ Publish \/ Record \/ Save \/ SwitchLatest \/ SwitchLog \/ Crash \/ Quiet
    \/ \E r \in Requests : Replay(r) \/ \E S \in SUBSET Alerts : Analyze(r, S)
    \/ \E a \in Alerts : WriteAlert(a) \/ Switch(a, TRUE) \/ Switch(a, FALSE)

Spec == Init /\ [][Next]_vars

-----------------------------------------------------------------------------

\* An analysis shows an alert as ready only when the cooldown of its request has passed
\* since the last analysis that did, whatever requests, switches, replays and crashes
\* come in between (the test of last_emitted_at in strategic_analyze).
AnalysesSpaced ==
    \A x, y \in shown :
        (x.by = "analysis" /\ y.by = "analysis" /\ x.alert = y.alert /\ x.id < y.id) =>
            y.at - x.at >= y.wait

\* What else shows an alert as ready has no cooldown: a replay repeats a report that an
\* analysis showed it ready in, and an acknowledgement that is taken back makes it ready
\* at once. There is no third way for the latest report to show it so.
OthersAccounted ==
    /\ \A y \in shown : y.by = "replay" =>
           \E x \in shown : /\ x.by = "analysis" /\ x.alert = y.alert /\ x.id = y.id
                           /\ x.at <= y.at
    /\ \A a \in ReadyIn(latest) : \E x \in shown : x.alert = a /\ x.id = latest.id

\* The cooldown of an alert holds between analyses, and between analyses only: the
\* latest report also shows an alert as ready by the replay of a report or by
\* unacknowledging it, inside the cooldown or not (strategic_analyze,
\* unacknowledge_strategic_alert).
CooldownRespected == AnalysesSpaced /\ OthersAccounted

\* Without a crash, an alert that is acknowledged is shown so in the latest
\* report, replayed reports included (strategic_analyze, acknowledge).
AckVisible ==
    (crashes = 0 /\ ~Busy) =>
        \A a \in Alerts : record[a].acked => latest.state[a] \in {"absent", "acknowledged"}

\* A report that a retry can be answered with is in the ledger, even when the
\* process died between the writes of strategic_analyze.
SavedIsJournalled == \A r \in Requests : saved[r] # Blank => saved[r].id \in journal

\* Once an alert has an escalation deadline no later analysis, acknowledgement
\* or crash moves it (escalation_due_at in strategic_analyze and the switches).
DeadlineKept ==
    [][\A a \in Alerts : record[a].due # Never => record'[a].due = record[a].due]_vars

\* Without a crash, the latest report shows an alert as acknowledged only while it
\* is, or because it is the replay of a report saved when it was: taking an
\* acknowledgement back is undone in the view by nothing but such a replay
\* (unacknowledge_strategic_alert, the replay in strategic_analyze).
UnackVisible ==
    (crashes = 0 /\ ~Busy) =>
        \A a \in Alerts : latest.state[a] = "acknowledged" =>
            record[a].acked \/ \E r \in Requests : /\ saved[r].id = latest.id
                                                 /\ saved[r].state[a] = "acknowledged"

\* The view, the records and the ledger agree about acknowledgements and reports,
\* whatever is replayed, switched or cut short (strategic_analyze and the two
\* acknowledgement endpoints).
ViewFaithful == AckVisible /\ UnackVisible /\ SavedIsJournalled
=============================================================================
