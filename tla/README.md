# TLA+ models of ContinuityOS

ContinuityOS is a decision-support service: a FastAPI process
(`src/src/continuityos/service.py`) that accepts signed telemetry and analysis
requests, computes assessments, plans and alerts, and keeps two durable files: an
evidence ledger (`evidence.py`) and a state file (`state.py`). The documented
deployment is one worker with one event loop (`Dockerfile`, `deploy/`), but the
command line, the scheduled scripts and the service may hold the same files at the
same time, synchronous dependencies run on pool threads, some handlers give the
event loop away while they wait for the network, and the process may die between
two durable writes. The first group of models is about what survives that. The second
is about the engines behind the answers: whether what they compute from one situation
is consistent from engine to engine and from one day to the next.

## Inventory

| Component | State | Operations | Interacts with | What is hard |
|---|---|---|---|---|
| Evidence ledger `evidence.py` | JSONL file, lock file, temporary file, signing key | `append`, `verify`, `records`, search | every service endpoint, CLI, scripts | overlapping whole-file rewrites, crash between staging and rename, key rotation, reading the tail |
| State store `state.py` | `state.json`: idempotency records, sequence counters, values | `get/save_idempotent`, `claim_sequence`, `get/set_value` | every idempotent endpoint, strategic alerts | read-modify-write of one file, crash after the rename and before the answer |
| Operator ingestion `service.py:851-944`, `telemetry.py` | counters and idempotency records (state file), ledger | `ingest_operator_observation`, `ingest_cloudevent` | state store, ledger | three durable writes per request, duplicated delivery |
| Idempotent endpoints `service.py:280-308, 454-717, 946-966` | idempotency records, ledger | assess, regression, graph, compile, cap, reserve proof, decision packet, public data | state store, ledger, engines, network | retries, key reuse, an await between lookup and save |
| Strategic alerts `service.py:719-849`, `strategic.py` | alert records, latest report, saved reports, ledger | analyze, ack, unack, stream | state store, ledger | replay of old reports, cooldown and deadline across crashes |
| Rate limiter `security.py` | admission times per client, access order | `check` | every endpoint, on pool threads | clock read before the lock, eviction |
| Event bus `streaming.py` | history, subscriber queues | publish, subscribe, unsubscribe, stream | hub endpoints | slow clients, cleanup |
| Snapshot cache and public data `sources/cache.py`, `public_data.py` | content-addressed files | store, latest, read, fetch with three attempts | network, edge gossip | crash between payload and metadata, unchanged content |
| Edge gossip `edge.py` | peers, cache | manifest, sync loop | other nodes | re-encoding, an exception that ends a round |
| Kubernetes operator `operator.py` | none | two watches, reconcile | API server | a blocking iterator on the event loop |
| DDIL cluster `cluster.py` | log of the leader and match indexes of the peers, in memory | append, register, count of a delta, root | hub endpoints, CLI | answers that are lost, a mark ahead of the peer, a restart that loses the log |
| Diode federation `federation.py` | none; a report travels | package, sign, ingest | enclave, headquarters | damage in transit, mixed reports |
| Tenant databases `database.py`, `enterprise_db.py` | evidence rows; enterprise records in SQLite or in memory with PostgreSQL | insert, page, store, list | paged query endpoint | paging while rows are inserted, two backends for one interface |
| Access control `rbac.py`, `sovereign.py` | none | evaluate, label, filter | rbac endpoint | three checks with defaults for what is missing |
| Posture engines `closure.py`, `readiness.py`, `reconcile.py`, `remediation.py`, `policy.py`, `assurance.py` | none: functions of the reported conditions and readings | closure analysis, C-rating, reconciliation, policy and assurance verdicts | each other's results, the readiness and composite endpoints, CLI | thresholds, the order in which conditions are tested, six engines judging one corridor |
| Disruption engines `inventory.py`, `recovery.py`, `substitution.py` | the stock of each day of a simulation | simulate a disruption, phase the recovery, weigh other routes | composed by `demo.py` and the CLI | first-day bookkeeping, late shipments, a reopened route that delivers nothing yet |
| Network engines `graph.py`, `independence.py`, `scenario.py`, `intelligence.py`, `connectors.py` | queue, impacts, colours of a search in progress | impact propagation, single points of failure, cycles, independence of providers, forecast, graph synthesis | endpoints, CLI, each other's graph | order of propagation, cycles, three loops for one question |
| Fusion and mitigation `fusion.py`, `compiler.py`, `sources/policy.py`, `sources/registry.py` | none: functions of a list of observations and the time | admit, score, classify, attribute, compile a plan | assess and decision endpoints, adapters | ageing readings, missing metrics, ties between plans |
| Trust, threat, supply and certification engines `trust.py`, `tactical.py`, `threat.py`, `counter_intel.py`, `environmental.py`, `supply_chain.py`, `wargame.py`, `insurance.py`, `rating.py`, `attestation.py`, `allied_defense.py` | none | score and rate a reading | endpoints, CLI | thresholds, means that dilute, several marks for one corridor |
| CLI, schemas, connectors, demos, console | none of their own | parsing, formatting | all | - |

What makes each stateful component correct: the ledger never loses or reorders an
acknowledged record and `verify` accepts it; the state file changes by whole operations; a
telemetry number is recorded at most once; one idempotency key stands for one request and
its answer is backed by evidence; analyses respect the cooldown of an alert, its
acknowledgement and its deadline; the limiter admits what it says and no more; a stream
sees no gap. The engines are correct when no engine calls good what another calls
impossible, when bad news never improves a verdict, and when the days a simulation reports
happen in the order and for the reason it gives; when a graph engine reports exactly the
nodes an outage reaches; and when every mark and grade follows from what it was derived
from. A cache is correct when what it lists can be read and what it answers was published;
a leader, when what it counts for a peer leads to the end of its log. `PROJECT.json` lists
every component, and under `hazards` the line where each of these could go wrong.

## Modules

| Module | Models | State and actions |
|---|---|---|
| `AppendOnlyLog` | abstract: what the ledger promises | `log`, `acknowledged`; Commit, Acknowledge |
| `EvidenceLedger` | `evidence.py` | `file` is the ledger, `temp` the `.ledger-*` file, `lock` the flock, `pc` the point inside `append`. Acquire, Seal, Stage, Replace, Release are `append` in order; Reject is the parse failure of an incomplete tail, Fail an OSError, Crash the death of the process, Rekey a restart with other keys. `Errors` is `verify` |
| `EvidenceLedgerProofs` | theorems about `EvidenceLedger` | |
| `AtomicState` | abstract: the state store as atomic steps | Claim, Save |
| `PersistentState` | `state.py` | `disk` is `state.json`, `draft` the temporary file. Enter, Refuse, Stage, Replace, Return, Abort |
| `OperatorIngest` | the two telemetry endpoints over `AtomicState` | `step` names the next durable write of the handler; Receive, Claim, RecordObservation, Finish and the refusals, WriteFails, Crash |
| `JournaledRequest` | the other idempotent POST endpoints over `AtomicState` | `pc` per request, `loop` the holder of the event loop; Lookup, Start, Suspend, Resume, Compute, Refuse, Record, Finish, WriteFails, Crash |
| `StrategicAlerts` | analyze, ack, unack | `record`, `latest`, `saved`, `audit`, `job`; one action per durable write |
| `RateLimiter` | `FixedWindowLimiter` | Arrive reads the clock, Admit and Refuse run under the lock |
| `EventBus` | `SovereignEventBus`, `sse_event_streamer` | Publish, Open, Send, Close, Heartbeat |
| `PostureVerdicts` | `closure.py`, `reconcile.py` and `remediation.py`, `policy.py`, `assurance.py`, `readiness.py`, a section each | operators: the status of a corridor from its factors (`AssessClosure`), its score and `to_composite_state`; verdict, gaps, rating and limiting factors |
| `ContinuityPosture` | the engines over one situation, as the readiness endpoint and the CLI call them | `cond` is what the closure engine is called with, `seen` the observed numbers; Change, Observe and Silence alter one of them, and every engine judges the state before and after |
| `InventoryDepletion` | `inventory.py` | one step is one day of `simulate`: consumption, arrivals, status, and the first-day fields of the result |
| `DisruptionTimeline` | `recovery.py`, `substitution.py` as operators (phases of a recovery, the options of a route and the chosen one), and `demo.py` `run_demo` | composes them with the stock, which runs day by day, for one disruption |
| `DependencyGraphs` | the graph models of `graph.py` | a graph as nodes and a sequence of edges |
| `ImpactPropagation` | the loops `analyze`, `_single_points_fast`, `analyze_without_spof` | `queue`, `probability`, `path`, and `todo`, the edges of the current node still to follow; Enqueue and Pop fill and empty the queue, Follow takes one edge, ReturnImpacts, ReturnCandidate and ReturnBlast end a call |
| `GraphScenarios` | `detect_cycles` (the colours and the call stack of the depth-first search), `independence.py`, `scenario.py`, the forecaster of `intelligence.py` and the graph synthesizer of `connectors.py`, a section each | operators over the same graph |
| `DependencyNetwork` | the graph engines asked about one graph | Simulate, Probe, Propagate, Search, ObserveNode |
| `ObservationSources` | `sources/policy.py`, `sources/registry.py`, the sensor adapters of `connectors.py` | operators: which observation is admitted, what a feed message becomes |
| `FusionDecision` | `fusion.py`, `compiler.py` | operators: the risk and state of a corridor, the chosen plan |
| `ThreatEngines` | `tactical.py`, `threat.py`, `counter_intel.py`, `environmental.py`, `trust.py`, a section each | operators: score and verdict of a reading |
| `SupplyCertification` | `supply_chain.py`, `wargame.py`; `insurance.py`, `rating.py`, `attestation.py`, `sovereign.py`, `allied_defense.py` | operators: risk, grade, certificate or mark |
| `ThreatPicture` | those engines, each asked about its own reading | `Scale` lists the values of every part of a reading from the mildest to the worst; a step (Sense) makes one part worse |
| `CorridorFusion` | the observations of a corridor over time | `feed`, `clock`, `plan`; Report, Relay, Bridge, Revise, Tick, BuildDecisionPacket |
| `SnapshotPlane` | `sources/cache.py`, the fetch of `public_data.py`, `ingest.py`, `edge.py`, and the parsers of `public_data.py` and `sources/adapters.py` | `payloads` and `metas` are the two files of every snapshot of a node, `request` the point a request has reached, `gossip` the round of a node; DieResponding, DieImporting and DieCopying are a death between the two files of an answer, an import and a copy |
| `ClusterLog`, `TenantRecords`, `DiodeReports`, `AccessControl` | `cluster.py`; `database.py` and `enterprise_db.py`; `federation.py`; `rbac.py` and `sovereign.py` | one action per operation, and what its surroundings may do: a lost answer, a restart, an insert between two pages, a damaged, missing or exchanged field, a privilege taken away |
| `PersistentStateProofs`, `JournaledRequestProofs`, `StrategicAlertsProofs`, `SnapshotPlaneProofs` | theorems about those modules | |
| `EngineProofs` | theorems about `ContinuityPosture`, `DependencyNetwork` (with `ImpactPropagation`) and `DisruptionTimeline` (with `InventoryDepletion`), which share no state | |
| `CorridorFusionProofs` | theorems about `CorridorFusion` and `ThreatPicture`, and about the operators of the engines they ask | |
| `ServiceHubProofs` | theorems about `EventBus`, `RateLimiter`, `ClusterLog`, `DiodeReports`, `AccessControl`, `TenantRecords` and `OperatorIngest`, which share no state | |
| `MC*` | instances for TLC; `MCServiceHub` puts the parts that share no state into one run, with `area` naming the one a behaviour follows | |

`EvidenceLedger` implements `AppendOnlyLog` (property `ImplementsLog`).
`PersistentState` changes its file by the steps of `AtomicState` only (property
`AtomicUpdates`), which is what lets `OperatorIngest` and `JournaledRequest` use
`AtomicState` in its place.

Operators whose comment begins with "Fault:" are mutated forms of the definition
that follows them. No specification uses them; `PROJECT.json` names the property
each of them breaks.

### Abstractions

* SHA-256 is a numbering of the contents hashed (no collisions); a signature is the
  key that made it; a uuid4 is a fresh number.
* A JSON line is a record; a payload is a model value, with two marked sets: the
  payloads whose text holds a Unicode line separator, and those whose line is longer
  than the 4096 bytes `_last_hash` reads.
* A tenant or asset name is the sequence of its colon-separated parts, because
  `claim_sequence` joins two names with a colon.
* The result of an engine is the request that computed it.
* Time is counted in whole seconds in the limiter and in abstract units in the
  alerts. The test `elapsed < cooldown` and the arithmetic of Retry-After are kept.
* `lock` is granted in any order; `flock` promises none.
* `flock` is released by the kernel when its holder dies; a renamed file stays
  renamed. A loss of power, which could undo a rename that no directory fsync
  followed, is not modelled.
* A score between 0 and 1 is counted in hundredths, a stock in hundredths of a unit of
  daily consumption; comparisons, products and clamps are those of the code. A metric
  nobody observed is absent from the function of readings, not a default value.
* An impact is counted in ten-thousandths and the code's growth threshold of 1e-9 is any
  growth; a forecast is in hundredths. Nodes are numbers, in the order of their ids.
* Fusion scores are scaled integers, rounded where the code's own rounding decides a
  comparison; supply scores are exact, every formula being scaled until its coefficients
  are integers.
* The files of a cache are kept in the order of their retrieval times; a payload is its
  shape and its rows, and text that was encoded as hexadecimal is of another shape.
* SQL tables are sequences of rows and a query is the sort and slice it asks for; where
  its ORDER BY leaves a tie, any order may come back.
* A digest or a signature over part of a report is that part.
* A decision packet is the assessment and the compiled plan. The graph assessment between
  them (`decision.py:65`) changes neither; that it may raise, and end the request without a
  packet, is left to `JournaledRequest`, where any engine may refuse.
* Of a scenario's result the capacity loss and the recovery flag, a quotient and a test on
  it, are left out; the concentration threshold of three providers is in the model
  (`PolicyViolations`) and is not reached by the graphs of
  the run.
* A list of reasons or limiting factors is the set of what it names; its wording is
  left out.
* The readiness engine takes an optional reconciliation. Its callers in the program
  (`service.py:1099-1115`, `cli.py:776-793`) pass none, so `Rating` is defined for both
  and the properties say which they are about.
* In `OperatorIngest` and `JournaledRequest` a handler runs without interleaving up
  to its `await`s on the network, because there is one event loop and the state and
  ledger calls are synchronous.

## Runs

Bounds are in the `.cfg` files and the `MC` modules. Every run ends within three minutes on
four cores; the largest (`hub`) has about a million distinct states.

| Run | Checks | Bounds |
|---|---|---|
| `ledger` | hash chain, `verify` accepts what `append` wrote, interior changes detected, refinement of the log, lock released | 2 processes, 4 payloads (plain, separator, oversize), 1 key, 3 records: two overlapping appends after one, of every kind |
| `state` | `AnswersHold` (grants increase, saves are kept, plain names do not share a counter), atomic updates | 2 processes, 4 operations, names with and without colon |
| `ingest` | recorded once in order; `AnswersTruthful` (accepted is recorded, refused as a replay means recorded when nothing failed) | 4 messages (two numbers of one asset, a reused event id, one without key, another tenant), 2 crashes or failed writes, each message delivered any number of times |
| `requests` | `RepliesFaithful` (answers recorded, one body per key, replies agree), work repeated only after a failure, every request served | 6 requests of every kind, 1 crash or failed write |
| `strategic` | `CooldownRespected` (analyses that show an alert ready are a cooldown apart; what else shows it so is a replay or an unacknowledgement), `ViewFaithful` (acknowledgements and their withdrawal show, what is saved is journalled), deadline kept | 1 alert, a keyed and a keyless request with different cooldowns, 3 reports, 2 switches, 3 time units, 1 crash |
| `posture` | a C-1 corridor is serviceable; `VerdictsAgree` (reconciliation, policy, assurance and the composite state agree, every downgrade names a reason); a worsening never improves a verdict | every factor has a level on each side of every threshold of every engine, reserves of 14 and 30 days declared; up to 3 factors impaired at once |
| `timeline` | alarms in order and on the first day of their status; `StockAsPromised` (replenishment on the assured day, restoration after a recorded shortage); `IncidentPlanSound` (a chosen route is in time, reopening is not recovery) | 12,288 pairs of a stock profile and a regime, two recoveries, six routes, 12 days: exhaustion, replenishment and restoration all fall inside |
| `network` | `SearchSound` (an impact has a path, no dependent is dropped) at every turn; `GraphAnswersExact` (extent of an outage, single points of failure and the violation a scenario reports for them, cycles and forecasts against reference definitions); valid redundancy survives; every assessment ends | 5 nodes, a pool of seven edges less any two of them, diamonds, cycles, a loop, substitutes, shared providers, a synthesized graph; one and several failed nodes; two degradations |
| `fusion` | live claims come from authenticated sources; the plan is feasible and no other beats it; `VerdictsJustified`; neither age nor a worse value helps (`FusionMonotone`); a worse reading never lowers a threat verdict | 10 reports, 4 adapter messages, 3 observations at once, 4 assessment times (expiry falls inside), up to 4 worsened parts of a reading, each by any amount; all twelve states of a corridor on the displays and in underwriting |
| `fusion_unknown` | violation: an unobserved corridor is not open | as `fusion` |
| `snapshots` | what is listed can be read; an answer was published under its address; every request and round ends | 2 nodes: one fetches and serves two requests at a time, the other is offline with imports and gossip; two clock values, a payload encoded at most twice; a process may die between the two files of a fetched answer, an import (a process of its own) or a copy from a peer |
| `hub` | no gap in a stream; `LimiterHonest` (eviction finds a key, admissions per window, Retry-After honoured); `CountsAddUp` (the count a peer is answered leads from its index to the end of the log); a walk over pages sees what was there; both database backends answer alike for every limit; the summaries of an accepted report are what was sealed; taking a privilege away opens nothing | bus: 2 streams, queue 2, history 3, 5 events (the queue overflows, the history wraps). Limiter: 3 clients over a table of 2, 2 threads, limit and window 2, 6 calls. Cluster: 2 peers, one registered, 3 entries, one restart. Records: 3 rows, pages of 1 and 2; 3 stores, two plain record ids and one with a colon, limits 1 and 2 (a query has up to three rows), 2 times in 2 zones, kinds of records up to symmetry. Diode: 2 sites, 2 reports, a damaged value for every field, text that does not parse. Access: three clearance levels |

The alerts do not affect each other, so one is enough for `strategic`; two
processes are enough for the lock, since a third could only wait with the second.
Three impairments are enough for `posture`, because a verdict of these engines rests on
the worst factor or on a pair of them; the third shows that one more never masks a pair.
Five nodes hold a cycle behind a diamond, the smallest graph in which an impact grows,
is combined again and still has a dependent that must hear of it.
Deadlock is not checked in `timeline` (the simulation ends on its last day), `network`
(an assessment that was asked ends), and `fusion`, `snapshots` and `hub`, whose behaviours
end at the named bounds and where no actor waits for another; what must not get stuck
there is stated as `AssessmentEnds` and `RequestsEnd`.

### What the runs found

* `fusion_unknown`: `ROADMAP-100.md:33` asks that missing state degrade to unknown or
  unhealthy. `_classify` (`fusion.py:316`) judges by the readings that are there: one good
  port reading and eight missing required metrics make an open corridor.

Three disagreements with what the repository says of itself are visible in the models,
and the passing properties except them:

* after a record line longer than the 4096-byte tail block every later `append` raises,
  because the tail loop takes the first block with any content for a complete line
  (`evidence.py:273`, comment at `:269`);
* `verify` breaks lines at Unicode separators that `append` writes raw inside a line
  (`evidence.py:111`; `tests/test_evidence.py:16` expects an untouched ledger to verify);
* the idempotency slot of a CloudEvent holds no tenant (`service.py:935`;
  `docs/INTEROPERABILITY_PROFILE_2026.md:59` asks for tenant scope).

Passing properties also mark the edge of what the code promises. `WindowLimit` needs one
admission of slack for each further thread, because the clock is read before the lock.
`ReplayMeansRecorded` holds only while nothing failed: a crash or a failed append after
`claim_sequence` loses the observation, and the retry is answered "telemetry replay
rejected". `UnackVisible` has to except replays: a saved report replayed after an unack
shows the alert as acknowledged again. `RepliesAgree` excludes fetches: two overlapping
fetches of one request get different results. `VerifyAccepts` asks for the key that made
the signatures: after the rotation of `docs/KEY_ROTATION.md` the old records fail.
`TenantIsolated` is about names without a colon only. `CountsAddUp` is about the time
before a restart of the leader: its log is in memory, and a peer with a larger index is
counted nothing until the log has grown past it. `CooldownRespected` is about analyses:
unacknowledging an alert shows it ready in the latest report with no cooldown test
(`service.py:819`), and so does the replay of a saved report (`service.py:735`); neither
counts as an emission. `PagesComplete` excepts rows with equal sequence numbers, which
have no order (`database.py:151`). `BackendsAgree` excepts names with a colon, which the
key "tenant:record" confuses (`enterprise_db.py:147`), times of different zones, which are
compared as text (`enterprise_db.py:120`), and equal times, whose order is open.
`SealKept` is about the summaries: the site of a report is not covered by its digest.
(`WindowLimit`, `RetryHonoured` and `TrackedOrdered` are the parts of `LimiterHonest`; the
other names are parts of the conjunctions in the table.)

Other differences were read off the code while modelling. The model does what the code
does; no run is spent on them:

* an invalid reserve proof is saved, then refused with 400, and its replay is answered
  200 (`service.py:657-674`; `ROADMAP-50.md:56` promises the original answer);
* the limiter's access order holds one entry per admission, so evicting by a stale
  entry frees nothing and the table outgrows `max_keys` (`security.py:39`, docstring at
  `:22`);
* the readiness endpoint fills missing telemetry with defaults that rate C-1
  (`service.py:1104-1106`; `tests/test_v1_core_invariants.py:70-73` asks for the
  opposite of the engines). A corridor state that is not given counts as open, and a text
  that names no state is read as unknown (`domain.py:241-251`), which scores like open; the
  command line defaults alike (`cli.py:776-793`). The model starts behind these
  conversions: the state it rates is one of the twelve;
* an assurance score is rounded to four decimals (`assurance.py:358`), so that 29.99 of 30
  days is reported as 1.0 with a failed dimension. No verdict reads the score and the model
  leaves it out; `VerdictsAgree` compares the verdicts and the failed dimensions;
* `readiness.py:9` and `README.md:190` put C-4 below 10 days of supply, the code below 7;
  a low continuity score lowers the rating and names no limiting factor, which is why
  `DowngradesExplained` excepts it;
* the closure statuses unknown, service dependent and recovery backlogged score 1.0;
  `to_composite_state` reports navigation that is both unavailable and untrusted as
  degraded;
* `reconcile.py` never reads `minimum_trust_score`; `policy.py` never reads
  `maximum_single_dependency_concentration`, passes the reserve rule while one of
  several resources is unobserved, and holds every resource to one threshold, so that a
  reconciliation without deficit can violate it (`policy.py:139-149`; `EnginesAgree`
  excepts that case); `assurance.py` never reads `observation_source_loss`
  or `minimum_independent_navigation_sources`;
* `recovery.py` never reads `communications_restoration_days`;
* `assured_replenishment_days` may name a day on which nothing arrives: the route's
  capacity factor is 0, or only an alternate supplier exists and nothing is disrupted;
* graph engines: around a cycle impacts saturate at 1; a child's impact may exceed that of
  its only parent; failing more nodes can lower a number; independence does not see a
  provider upstream of another; `recovery_required` is a loss of more than a tenth of the
  nodes or a violation (`scenario.py:142`), so an outage in a large graph may set neither;
  a forecast for an unknown target reports the first node;
  chains of more than three edges listed backwards do not settle in the three sweeps;
  `remaining_viable_paths` counts nodes;
* fusion: the source ids of the adapters and of the sensor bridge are not in the registry,
  so one such observation makes `assess` refuse all of them; an ice percentage of at most 1
  is read as a ratio; when a stale bad reading expires the corridor looks better; the top
  driver of the attribution ignores the weights;
* threat engines: the risk of a drone is a mean; a bad attitude overrides the
  return-to-base advice; a Starlink channel is "OPTIMAL" at an availability of 0.25; a
  jammed receiver may be rated LOW; a control network rated HIGH with a score of
  0.40-0.44 leaves the scan NOMINAL, and unauthorized function codes count nothing; the
  fallbacks of the vision and language models report no threat
  (`intelligence.py:395-492`);
* supply and certification: a corridor that is open but uninsurable and has an alternate
  is graded PREFERRED_RISK (`insurance.py:116`); underwriting knows no functional closure
  and prices it like an open corridor (`insurance.py:65-71`); a rating of
  0.7999999999999999 is graded A and printed 0.8 (`rating.py:105`); a bill of materials
  averages its risks; rerouting breaks a tie of under 5 km towards the sea although time
  is critical (`supply_chain.py:292`); Cursor on Target shows a corridor without carriers
  or communications, or one that is unknown or backlogged, as friendly although the
  readiness engine rates the first two below a degraded one, which it shows as unknown
  (`allied_defense.py:148`; `readiness.py:83-102`), and where Link 16 says suspect; the
  TPM control always passes;
* snapshots: unchanged content cannot be refreshed (`sources/cache.py:62`, answered 422);
  the same content under two addresses collides; the check before a write is not atomic
  with it across processes; an invalid payload is stored before it is parsed, and a body
  that is no workbook or JSON that is no object raises an exception nobody catches
  (`public_data.py:676`, `sources/adapters.py:152`; the outcome "invalid" of the model
  stands for that and for 422); gossip stores a hexadecimal text under another digest
  (`edge.py:137`), so its id stays missing and the next round ends with a ValueError;
  `float(retry-after)` raises on an HTTP date (`public_data.py:562`);
* hub: the root of the cluster covers neither command type nor index; a synchronization
  answers a count, the root and a constant status, the entries never leave the leader, and
  nothing in the service appends a command (`cluster.py:120-143`, `service.py:1799-1814`;
  an index that is not given counts as 0); the enterprise backends differ for a negative
  limit (`enterprise_db.py:121, 166`), which nothing in the repository passes; the rbac
  endpoint takes a request without a known role for OPERATOR_ANALYST and an unknown
  clearance for SECRET (`service.py:1829-1838`), and of the caveats only
  CANADIAN_EYES_ONLY is enforced (`rbac.py:189`); `total_count` ignores the corridor
  filter (`service.py:1891`); headquarters accepts an unsigned report even when it holds a
  key, the digest covers the summaries only (so the site of another report, or a damaged
  one, is accepted), and a missing state becomes HEALTHY (`federation.py:61, 108`); the
  cross-domain filter strips top-level keys only (`sovereign.py:148`).

### Fairness

`EvidenceLedger`: weak fairness of the steps of `append` once the lock is held; the
operating system keeps running a thread that is not blocked, and `flock` blocks
nowhere else. `JournaledRequest`: weak fairness of each handler; the event loop runs
every ready task and a fetch ends by its timeout. `DependencyNetwork`: weak fairness
of the loops, which run in one thread without waiting. `SnapshotPlane`: weak fairness of
each request and of each gossip round, for the same reason as the handlers: the HTTP
client has a timeout, after which a silent server is an error. No other
specification states fairness, and no acquisition of a lock is assumed fair.

## Proofs

`EvidenceLedgerProofs` proves, for all processes, payloads, keys and bounds that
satisfy `LedgerAssumption`:

* `TypeCorrect`, `ChainAlwaysIntact`, `AckedAlwaysKept`: the invariants of the run;
* `LedgerAppendOnly`: the action property;
* `VerifyAcceptsLedger`: `verify` reports nothing on what `append` wrote;
* `ChangesAlwaysDetected`: in a ledger of any length `verify` reports the removal, the
  alteration and the rehashing of every record but the last;
* `Refinement`: `EvidenceLedger!Spec` implements `AppendOnlyLog!Spec`.

The chain alone is not inductive: a step that renames `temp[p]` over `file` keeps it
only if `temp[p]` is still the current file plus one record, which rests on the lock.
`IInv` therefore adds `LockInv` (a process is inside `append` exactly when it holds
the lock), `SealInv` (what a process has sealed names the current last hash and the
newest number), `StageInv` (a staged file is the current file and that record),
`ReplaceInv` (after the rename the file ends with it) and `BoundInv`. Each action
preserves `IInv`; a step by one process leaves the others outside, since they do not
hold the lock. Changes are detected because the hashes of a chain increase: the record
after a removed or rehashed one names a hash that its new predecessor does not have.

`EngineProofs` proves, for every nominal corridor, level, reading and requirement of
`ContinuityPosture` that satisfies `PostureAssumption`:

* `TypeCorrect`;
* `TopRatingSound`: a C-1 corridor is usable, insured, served and trusted, and with a
  reconciliation no reading is below half of its requirement;
* `WorseningSound`: no single worsening improves rating, policy or assurance;
* `VerdictsAlwaysAgree`: reconciliation, remediation, the verdicts of policy and assurance
  and the composite state agree, and every downgrade names a reason.

These follow from the type invariant and from lemmas about the operators. The score of a
corridor is a cascade of tests, the first of which to succeed decides; the lemmas
characterise its results by two conditions on the factors, closed and halved, that can
only become true when a factor worsens, which turns the cascade into a monotone function.
The agreement also needs a sum: the total improvement is zero exactly when all its terms
are. That is a fact about every finite set of terms (hence the
assumption that finitely many requirements are declared), proved by its smallest
counterexample. The attempt showed that an earlier statement of `EnginesAgree` was true
only on an instance with equal reserve requirements; see the differences above.

About the stock `EngineProofs` proves, for every profile, regime and horizon that
satisfies `InventoryAssumption`, `StockTypeCorrect`, `AlarmsSound`, `ReplenishmentSound`,
`RestoreSound` and their conjunction `StockSound`. Two of them need a strengthening: that
the first replenishment comes on the assured day rests on nothing having arrived before it
(`NoneArrived`), and that a restoration follows a shortage rests on the recorded shortage
having left its mark in the daily log and in the lowest stock (`ShortageSeen`).
`IncidentPlanAlwaysSound` is about `DisruptionTimeline`, for every recovery and list of
routes of `RecoveryAssumption` and `CandidateAssumption`: its steps on the stock are steps
of the simulation, the exhaustion day comes from `AlarmsSound`, and the phases of a
recovery from its milestones being ordered.

`EngineProofs` also proves `SearchIsSound` about `ImpactPropagation`: for every set of
graphs and every set of failed nodes (`GraphAssumption` asks that edges name nodes), at
every turn of the three loops an affected node has a path of carrying edges from a failed
node, and a dependent of an affected node that is not affected itself
is still to be visited, unless the impact on it rounds to nothing or the fast loop has its
answer. The graph may have cycles; termination is not
needed. The statement is not inductive alone: an edge that is followed uses the
probability read when its node was taken from the queue, and a cycle may have raised it
since. `SearchInv` adds `HeldIsCurrent`: that probability is still the current one, or the
node waits to be taken again; and nothing is followed once the fast loop has its answer.
Lemmas about the arithmetic of impacts (bounds, and that the combination of a positive
impact with a carrying edge is positive) and about the paths complete it. The steps of
`DependencyNetwork` on these variables are steps of `PropagationNext`, so the run checks
the property that is proved.

Two more theorems of `EngineProofs` are about `NetworkSpec`, for every set of graphs.

* `RedundancyAlwaysSurvives`: providers that `independence.py` called redundant are not all
  affected by the failure of one other node. The report of an assessment is traced back to
  paths from its failed node (`Traced`, an invariant of the loops), a path puts that node
  among the upstream nodes of every provider (`WayIsUpstream`: the upstream nodes are a
  fixpoint, proved by the least number of rounds after which nothing is added), and
  providers with a common upstream node end in one set of the union (`SharedByAllUnites`),
  for which the engine denies redundancy.
* `CyclesAlwaysReported`, the part of `GraphAnswersExact` about `detect_cycles`: what is
  reported is a cycle, and a search that has ended reports one exactly if the graph has
  one. `CycleInv` describes the depth-first search between two turns: the stack is a way
  of different gray nodes, each the parent of the next (`StackInv`); the parent links end
  (`ParentInv`, by a rank), so that the cycle that is read off them is the top of the stack
  (`ChainIsStack`); and until a cycle is found the neighbours of a finished node are
  finished and it is on no cycle (`FinishedInv`).

`PersistentStateProofs` proves, for all processes, operations and names
(`StateAssumption`; `NameAssumption`: a name has at least one colon-separated part):

* `AnswersAlwaysHold`: granted numbers increase, a save that returned stays in the file,
  and plain names share no counter;
* `UpdatesAreAtomic`: the file changes only by whole claims, saves and sets that its
  contents allow, the steps of `AtomicState`.

The answers say nothing of the draft an operation is writing, so they are not inductive.
`IInv` adds `LockInv` (a process past the entry holds the lock), `StagedInv` (a draft is
the current file with one operation applied), `ReplacedInv` (after the rename the file
holds the operation's effect), `DiskInv` (a counter belongs to a pair that claimed it)
and `GrantedInv` (it is at least every number granted). `TenantIsolated` rests on a fact
about sequences: two plain names joined by a colon can only be split one way.

About `OperatorIngest` `ServiceHubProofs` proves, for all messages and any number of
deliveries and failures, `RecordsOnceInOrder` and `AnswersAlwaysTruthful`. Its `IInv` adds
`CoveredInv` (a counter is at least every number recorded under it), `ClaimedInv` (the
number of a handler that has claimed is still above everything recorded), `SavedInv` (a
saved answer names a record of the message it is saved for) and `CompleteInv` (until
something fails, a counter is at a recorded number, or its handler is about to record it).
The first two carry the order of the ledger across a crash between the three durable
writes.

`JournaledRequestProofs` proves, for all requests, keys, bodies, crashes and failed writes,
`RepliesAlwaysFaithful` and `WorkRarelyRepeated`. `IInv` adds `LoopInv` (a handler at work
holds the event loop), `RecordInv` (how far a handler is tells how many records it has
written), `SavedInv` (a saved response is under the key and body of a complete attempt),
`ReplyInv` (a result answered under a key has the body saved there), `ExclusiveInv`
(nothing is saved under the key of a handler that keeps the loop while it works, which is
what fails for overlapping fetches) and `CutInv`: attempts that ended with records and
without a saved response are no more than the failures, since a crash finds at most one
handler on the loop.

`StrategicAlertsProofs` proves, for all alerts, requests, cooldowns and crashes,
`CooldownAlwaysRespected`, `ViewAlwaysFaithful` and the action property
`DeadlineNeverMoves`. `IInv` adds `EmittedInv` (the record of an alert is at least as late
as every analysis that showed it ready, and no later than the clock), `ReadyInv` (what an
analysis is about to show as ready has cooled down since every earlier one that did), the
account of every ready alert of the latest and of the saved reports, `ViewInv` (the report
of a job and, until a crash, the latest one agree with the records, but for the switch in
progress and for replays) and `SaveInv` (a report is journalled before it is saved).

`ServiceHubProofs` proves seven more properties, each from the invariant of its component:

* `BusHasNoGap` (`BusAssumption`): `BusInv` numbers what a stream was sent and what
  waits for it on from its subscription, and an open stream is behind by exactly its
  queue.
* `LimiterAlwaysHonest` (`LimiterAssumption`: finitely many threads, at least one). A
  count of admissions is not inductive: a thread that read an old clock may come after
  one with a newer clock has dropped the old times from the queue. `WindowInv` says of
  each window that either the queue still covers the admissions in it, or the clock has
  passed it and the admissions with the threads that can still add one are at most
  `Limit + |Threads| - 1`. That is where the slack of the property comes from.
* `CountsAlwaysAddUp` (`ClusterAssumption`): `ClusterInv` says that entry i of the
  log has number i, and that until the leader restarts a peer has counted no further than
  the leader has recorded, and the leader no further than its log. That
  the entries after a number are then a suffix of the log (`EntriesAfterIsSuffix`) is a
  fact about a recursive function for every log; it is proved by its least
  counterexample (`LeastNumber`), which needs no induction rule.
* `SealAlwaysKept` (`DiodeAssumption`): `DiodeInv` traces every field that arrives to
  one report that was made, or to a damaged value, which no digest is equal to.
* `AccessNeverGrows` (`RanksAssumption`): the losses are a preorder on identities
  (`Weaker`), and the three checks are monotone in it.
* `WalkAlwaysComplete` (`RecordsAssumption`): `WalkInv` says that a row with fewer rows
  ahead of it than the client has asked for was seen. An insertion only adds rows ahead,
  and in an order by different numbers the row at place p has p - 1 ahead of it
  (`PlaceCounts`).
* `BackendsAlwaysAgree` (`RecordsAssumption`, and `PartsAssumption` as for the state
  store). The exception is about what is stored now, so the invariant covers the records
  it excludes too: `SameInv` compares the backends under plain names whatever else was
  stored, and `HeldInv` finds the key of every row of the table in the dictionary. By
  `OneOrder`, from `PlaceCounts`, different times have one order.

`SnapshotPlaneProofs` proves, for all nodes, requests, sources, payloads and plans that
satisfy `RegistryAssumption` and `PlanAssumption` (a source offers something; a tabular
source is read as a table), `ListedAlwaysReadable` and `AnswersAlwaysAsPublished`. That
what is listed can be read holds through a death between the two files because the payload
is written first; but gossip copies what a peer lists, so `PlaneInv` adds `MissingInv`
(what a round still fetches is listed by its peer). An answer is right because of
`EverInv` (a listed body was published or imported under its address), `OrderInv` (the
files stand in the order of their times, so that the last of an address is its newest, and
none is from the future) and `RequestInv` (a request follows its plan, and every answer it
has gathered is already faithful). A text that gossip encoded again has another shape, and
the lemmas about the parsers show that it is answered as a table without rows or not at
all.

`CorridorFusionProofs` proves, for all reports, feed messages, times, revisions,
objectives and actions (`ReportAssumption`, `WorseAssumption`, `PlanningAssumption`):

* `LiveClaimsAlwaysAuthenticated`: from the registry and the policy alone; no state is
  needed, since `assess` validates every observation it is given;
* `PlanAlwaysSound`: `FeedInv` (finitely many observations, each as the constructor made
  it) types the assessment. `Better`, the order of the search, is shown to be total and
  transitive on the feasible sets, so one of the finitely many sets is beaten by none, and
  its fields give the promises. Ids of actions are not assumed to be unique;
* `RevisionNeverHelps`, one half of `FusionMonotone`: replacing one reading by a worse one
  keeps every weight, so each factor's weighted mean and the mean of the factors grow, and
  the tests of `_classify` can only be met earlier. It rests on lemmas about sums over a
  finite set in which one term changes;
* `VerdictsAlwaysJustified` and `WorseningAlwaysRaisesThreat`, about the engines of
  `ThreatPicture`. `PictureInv` says that a severity stays on its scale. The second theorem
  has a lemma for each of the 24 engines (`ChannelFollows`, `ScanFollows`, ...), stating
  that threat and verdict follow a reading that is no better in any part; sums over lists
  of detections, components and histories and rounded quotients are the work in them.
  `ScaleAssumption` and `GradeAssumption` say what a scale is: it goes from mild to bad in
  the order `NoBetter` of its part, amounts are not negative, a health is positive, a route
  is at least 5 km long (below that the rounded times tie, and the code breaks the tie
  towards the sea), an anomaly is above the mean of its history. States of a
  corridor are ordered by the score the readiness engine gives them, the order of the
  program itself; between states of one score nothing is said (`NoWorse`). Three exceptions
  are the code's: the mean risk of a drone may fall with its battery or with a stall
  (`Averaged`), the premium falls when a corridor becomes functionally closed (`Unpriced`,
  `insurance.py:65-71`), and the Cursor on Target event turns friendly when it loses its
  carriers or communications (`Unmarked`, `allied_defense.py:148`). Everything else about
  these states, the Link 16 identity and the grade of underwriting among it, is claimed.

The proofs of this module also corrected the model: several engines test thresholds one
after the other, and a CASE whose guards overlap allows any of the branches that apply,
although TLC takes the first. These are IF chains now, as in the code.

Only model-checked:

* liveness (the prover has no ENABLED): `LockReleased`, `EventuallyServed`,
  `AssessmentEnds`, `RequestsEnd`;
* the other parts of `GraphAnswersExact`. `ImpactExact` holds only while no impact rounds
  to nothing, which depends on the weights of the graph (`SearchIsSound` proves the part
  that does not), and compares with an enumeration of paths and with the fast search;
  `SinglePointsExact` compares two orders of visiting the edges, and `ForecastSettles`
  takes a recursion over the depth of a graph;
* `AgeingNeverHelps`, the other half of `FusionMonotone`. The model reads the exponential
  from a table, at quarters of a half-life; between readings whose ages fall into different
  quarters the weights shift at different times, so the statement is about ages that
  differ by whole quarters, as in the run;
* the violation of `fusion_unknown`.

`AckedKept`, `AppendOnly` and the type invariants of the modules with proofs are proved
for every instance and need no run.

## Plan

1. The Kubernetes operator's two watches on one event loop; exchange packages; loss of
   power in the ledger; the watchdog script's inbox-then-state order.
2. The scoring of strategic reports; kinematic anomalies of `telemetry.py`.
3. Proofs: `SinglePointsExact`, from an invariant that relates the fast loop to a whole
   assessment; `AgeingNeverHelps` with the exponential as a decreasing function of the age.

A new component joins the run of the component it interacts with where that is
possible, and replaces the weakest property there rather than adding one.

## Not modelled

Floating-point rounding, report and export formatting, HTTP routing and
authentication headers, the web console, SDKs, Terraform and Helm files: none of
them keeps state that the properties above depend on. The Kubernetes operator rests on a
client library that is not in the repository. The command line parses arguments and
prints what the modelled engines return; demonstrations and sample data call them with
fixed inputs; the regression of `analysis.py` is a floating-point fit. The language and
vision models behind `intelligence.py` are remote. Cryptographic primitives and
databases are library code.
