-------------------------- MODULE DisruptionTimeline --------------------------
(***************************************************************************)
(* One disruption, day by day: the stock runs down (InventoryDepletion),   *)
(* the resource recovers phase by phase, and substitute routes are         *)
(* compiled against the day the stock runs out, as run_demo in             *)
(* src/continuityos/demo.py does.                                          *)
(***************************************************************************)
EXTENDS InventoryDepletion, FiniteSetsExt

-----------------------------------------------------------------------------
(***************************************************************************)
(* The recovery timeline, src/continuityos/recovery.py.  After an incident *)
(* the phases T1 to T5 are reached on fixed days; phase 0 is T0.           *)
(***************************************************************************)

\* The durations of a RecoveryProfile that a phase waits for.  The profile's
\* communications_restoration_days is reported and never waited for.
CommercialFactors == {"insurance_normalization", "carrier_return"}
LogisticsFactors == {"vessel_repositioning", "port_backlog", "crew_availability",
                     "equipment_availability"}
ReserveFactors == {"inventory_replenishment", "warehouse_recovery", "supplier_restart",
                   "production_restart"}
RecoveryFactors == {"physical_reopening", "communications_restoration"}
                   \cup CommercialFactors \cup LogisticsFactors \cup ReserveFactors

Longest(durations, factors) == Max({durations[f] : f \in factors})

\* model_recovery: the day on which each phase T1 .. T5 is reached.  T5 is seven days
\* of verification after T4.
MilestoneDays(durations) ==
    LET t1 == durations["physical_reopening"]
        t2 == t1 + Longest(durations, CommercialFactors)
        t3 == t2 + Longest(durations, LogisticsFactors)
        t4 == t3 + Longest(durations, ReserveFactors)
    IN <<t1, t2, t3, t4, t4 + 7>>

\* current_phase: the last milestone whose day has come.
CurrentPhase(durations, now) ==
    Max({0} \cup {k \in 1..5 : now >= MilestoneDays(durations)[k]})

\* is_healthy and reopened_but_not_healthy.
Healthy(durations, now) ==
    CurrentPhase(durations, now) = 5 \/ now >= MilestoneDays(durations)[5]
ReopenedOnly(durations, now) ==
    now >= MilestoneDays(durations)[1] /\ ~Healthy(durations, now)

\* recovery_progress in hundredths; the total is never below seven days.
Progress(durations, now) ==
    LET total == MilestoneDays(durations)[5]
    IN IF now >= total THEN 100 ELSE (now * 100) \div total

-----------------------------------------------------------------------------
(***************************************************************************)
(* The route substitution compiler, src/continuityos/substitution.py.  A   *)
(* candidate route passes, passes degraded, or fails.  Capacity ratios are *)
(* in hundredths; the deadline is the day the inventory runs out.          *)
(***************************************************************************)

\* The checks that are PASS or FAIL, and FAIL blocks the route.
Blockers(c) ==
    {b \in {"ice", "carrier", "insurance", "port", "rail", "fuel", "supplier"} :
        CASE b = "ice"       -> c.route_requires_ice_class /\ ~c.vessel_ice_class
          [] b = "carrier"   -> ~c.carrier_available
          [] b = "insurance" -> ~c.insurance_available
          [] b = "port"      -> c.port_handling_capacity = 0
          [] b = "rail"      -> c.inland_rail_capacity_ratio <= 20
          [] b = "fuel"      -> ~c.fuel_bunkering_available
          [] b = "supplier"  -> ~c.supplier_available}

\* The checks that are DEGRADED: they cost the route its PASS and do not block it.
Degradations(c) ==
    {d \in {"port", "rail", "communications", "navigation", "storage"} :
        CASE d = "port"           -> /\ c.port_handling_capacity > 0
                                     /\ c.port_handling_capacity * 5 < c.quantity
          [] d = "rail"           -> c.inland_rail_capacity_ratio \in 21..69
          [] d = "communications" -> ~c.communications_healthy
          [] d = "navigation"     -> ~c.navigation_healthy
          [] d = "storage"        -> ~c.storage_capacity_available}

TransitDays(c) == c.alternative_transit_days + c.inland_rail_days

\* Fault: the days on rail are left out of the lead time.
ArrivesInTimeAtPort(c, deadline) == c.alternative_transit_days <= deadline

ArrivesInTime(c, deadline) == TransitDays(c) <= deadline

\* compile_route_substitution
Substitution(c, deadline) ==
    IF Blockers(c) # {} \/ ~ArrivesInTime(c, deadline) THEN "FAIL"
    ELSE IF Degradations(c) # {} THEN "DEGRADED"
    ELSE "PASS"

-----------------------------------------------------------------------------
(* The incident.                                                           *)

CONSTANTS
    Recoveries,   \* the RecoveryProfiles of the incident
    Candidates    \* the routes that might stand in

ASSUME RecoveryAssumption == Recoveries \subseteq [RecoveryFactors -> Nat]

ASSUME CandidateAssumption ==
    \A c \in Candidates : c.alternative_transit_days \in Nat /\ c.inland_rail_days \in Nat

VARIABLE recovery

timelineVars == <<stockVars, recovery>>

TimelineInit == StockInit /\ recovery \in Recoveries

\* A day of the incident is a day of the simulation.
TimelineNext == SimulateDay /\ UNCHANGED recovery

TimelineSpec == TimelineInit /\ [][TimelineNext]_timelineVars

-----------------------------------------------------------------------------

\* A route that is accepted against the exhaustion deadline delivers before the stock
\* has been at zero for a day (compile_route_substitution on the days_to_exhaustion
\* of simulate_inventory).
SubstitutionInTime ==
    \A c \in Candidates :
        (exhaustionDay # Unset /\ Substitution(c, exhaustionDay) # "FAIL") =>
            \A d \in 0..(TransitDays(c) - 1) : d < day => log[d + 1] > 0

\* Reopening is not recovery: the phases are never passed backwards, a reopened
\* resource is unhealthy for at least the days of verification, and it is healthy
\* only in the last phase, when the whole time has passed (model_recovery).
ReopeningIsNotRecovery ==
    LET reopened == MilestoneDays(recovery)[1] IN
    /\ CurrentPhase(recovery, day) <= CurrentPhase(recovery, day + 1)
    /\ day \in reopened..(reopened + 6) => ReopenedOnly(recovery, day)
    /\ Healthy(recovery, day) <=> Progress(recovery, day) = 100
    /\ Healthy(recovery, day) <=> CurrentPhase(recovery, day) = 5

\* A plan drawn up during the incident holds: an accepted route arrives while there is
\* stock, and nobody relies on a resource that has only reopened.
IncidentPlanSound == SubstitutionInTime /\ ReopeningIsNotRecovery
=============================================================================
