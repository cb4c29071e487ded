-------------------------- MODULE InventoryDepletion ---------------------------
(***************************************************************************)
(* The inventory simulation, src/continuityos/inventory.py: one step per   *)
(* simulated day.  Profile quantities are in whole units; the stock is     *)
(* kept in hundredths of a unit, so that the factors (in hundredths) that  *)
(* scale a day's consumption and replenishment multiply exactly.           *)
(***************************************************************************)
EXTENDS Integers, Sequences

CONSTANTS
    Profiles,        \* the InventoryProfiles simulated
    SimulationDays,  \* simulation_days
    Unset            \* a day or a limit that is not set

\* An InventoryProfile; a rate or a limit that is optional may be Unset.
Profile == [
    starting_quantity : Nat \ {0},
    normal_consumption : Nat \ {0},  degraded_consumption : Nat \cup {Unset},
    emergency_consumption : Nat \cup {Unset},
    replenishment : Nat,             replenishment_delay : Nat,
    shipment_delay : Nat,            route_capacity_factor : 0..100,
    substitution_factor : 0..100,
    minimum_reserve : Nat,           critical_threshold : Nat,
    warning_threshold : Nat \cup {Unset},
    storage_limit : Nat \cup {Unset},
    alternate_rate : Nat,            alternate_delay : Nat]

ASSUME InventoryAssumption ==
    /\ Profiles \subseteq Profile
    /\ SimulationDays \in Nat
    /\ Unset \notin Nat

VARIABLES
    profile,
    regime,       \* degraded, emergency, disrupted_replenishment
    day,          \* days simulated so far
    quantity,
    warningDay, criticalDay, exhaustionDay, replenishmentDay, restoredDay,
    lowest,       \* min_inventory
    dropped,      \* dropped_below_reserve
    log           \* daily_log: the stock at the end of each day

dates == <<warningDay, criticalDay, exhaustionDay, replenishmentDay, restoredDay, lowest,
           dropped>>
stockVars == <<profile, regime, day, quantity, dates, log>>

-----------------------------------------------------------------------------

Hundredths(units) == units * 100

\* consumption_rate: the emergency rate goes before the degraded one.
ConsumptionRate ==
    IF regime.emergency /\ profile.emergency_consumption # Unset
    THEN profile.emergency_consumption
    ELSE IF regime.degraded /\ profile.degraded_consumption # Unset
    THEN profile.degraded_consumption
    ELSE profile.normal_consumption

Consumption == ConsumptionRate * (100 - profile.substitution_factor)

\* By default one and a half times the minimum reserve.
WarningLevel ==
    IF profile.warning_threshold # Unset THEN Hundredths(profile.warning_threshold)
    ELSE profile.minimum_reserve * 150

PrimaryStart == profile.replenishment_delay + profile.shipment_delay

\* assured_replenishment_days
AssuredReplenishment ==
    IF ~regime.disrupted /\ profile.replenishment > 0 THEN PrimaryStart
    ELSE IF profile.alternate_rate > 0 THEN profile.alternate_delay
    ELSE SimulationDays

\* Fault: a shipment arrives on the day it is sent.
ArrivingUnshipped(d) ==
    IF regime.disrupted
    THEN IF d >= profile.alternate_delay THEN Hundredths(profile.alternate_rate) ELSE 0
    ELSE IF d >= profile.replenishment_delay
         THEN profile.replenishment * profile.route_capacity_factor ELSE 0

\* What arrives on day d: from the primary route, or when it is disrupted from the
\* alternate supplier.
Arriving(d) ==
    IF regime.disrupted
    THEN IF d >= profile.alternate_delay THEN Hundredths(profile.alternate_rate) ELSE 0
    ELSE IF d >= PrimaryStart THEN profile.replenishment * profile.route_capacity_factor ELSE 0

\* The stock after a day, within the storage limit and never negative.
StockAfter(q, d) ==
    LET balance == q - Consumption + Arriving(d)
        stored == IF profile.storage_limit # Unset /\ balance > Hundredths(profile.storage_limit)
                  THEN Hundredths(profile.storage_limit) ELSE balance
    IN IF stored > 0 THEN stored ELSE 0

\* Fault: a crossing is entered again on every later day.
LastDay(recorded, crossed) == IF crossed THEN day ELSE recorded

\* The first day on which something happened.
FirstDay(recorded, crossed) == IF recorded = Unset /\ crossed THEN day ELSE recorded

StockInit ==
    /\ profile \in Profiles
    /\ regime \in [degraded : BOOLEAN, emergency : BOOLEAN, disrupted : BOOLEAN]
    /\ day = 0
    /\ quantity = Hundredths(profile.starting_quantity)
    /\ warningDay = Unset /\ criticalDay = Unset /\ exhaustionDay = Unset
    /\ replenishmentDay = Unset /\ restoredDay = Unset
    /\ lowest = quantity
    /\ dropped = (quantity < Hundredths(profile.minimum_reserve))
    /\ log = <<>>

\* The reserve is back after it had been short.
ReserveBack(short) == dropped /\ ~short

\* The body of the loop over the simulated days.
SimulateDay ==
    LET q == StockAfter(quantity, day)
        short == q < Hundredths(profile.minimum_reserve)
    IN /\ day < SimulationDays
       /\ day' = day + 1
       /\ quantity' = q
       /\ replenishmentDay' = FirstDay(replenishmentDay, Arriving(day) > 0)
       /\ lowest' = IF q < lowest THEN q ELSE lowest
       /\ dropped' = (dropped \/ short)
       /\ restoredDay' = FirstDay(restoredDay, ReserveBack(short))
       /\ warningDay' = FirstDay(warningDay, q <= WarningLevel)
       /\ criticalDay' = FirstDay(criticalDay, q <= Hundredths(profile.critical_threshold))
       /\ exhaustionDay' = FirstDay(exhaustionDay, q <= 0)
       /\ log' = Append(log, q)
       /\ UNCHANGED <<profile, regime>>

StockNext == SimulateDay

StockSpec == StockInit /\ [][StockNext]_stockVars

-----------------------------------------------------------------------------

\* The status of a day in the log.
StatusOf(q) ==
    IF q <= 0 THEN "exhausted"
    ELSE IF q <= Hundredths(profile.critical_threshold) THEN "critical"
    ELSE IF q <= WarningLevel THEN "warning"
    ELSE "normal"

Day == 0..SimulationDays

\* Every variable keeps its type; the stock is never negative and the log has one
\* entry for each simulated day.
StockTypeOK ==
    /\ profile \in Profiles
    /\ regime \in [degraded : BOOLEAN, emergency : BOOLEAN, disrupted : BOOLEAN]
    /\ day \in Day
    /\ quantity \in Nat /\ lowest \in Nat
    /\ dropped \in BOOLEAN
    /\ log \in Seq(Nat) /\ Len(log) = day
    /\ \A d \in {warningDay, criticalDay, exhaustionDay, replenishmentDay, restoredDay} :
           d = Unset \/ (d \in Day /\ d < day)

\* No later than.
Before(d, e) == e # Unset => d # Unset /\ d <= e

\* The alarms come in order, the warning no later than the critical alarm when its
\* level is the higher one, and that no later than the exhaustion of the stock; and
\* each is the first day of the log with such a status or a worse one
\* (days_to_warning, days_to_critical, days_to_exhaustion, daily_log).
AlarmsOrdered ==
    /\ Hundredths(profile.critical_threshold) <= WarningLevel => Before(warningDay, criticalDay)
    /\ Before(criticalDay, exhaustionDay)
    /\ criticalDay # Unset => StatusOf(log[criticalDay + 1]) \in {"critical", "exhausted"}
    /\ exhaustionDay # Unset => StatusOf(log[exhaustionDay + 1]) = "exhausted"
    /\ \A d \in 1..Len(log) :
           /\ StatusOf(log[d]) # "normal" =>
                  Before(warningDay, d - 1) \/ Before(criticalDay, d - 1)
           /\ StatusOf(log[d]) \in {"critical", "exhausted"} => Before(criticalDay, d - 1)
           /\ StatusOf(log[d]) = "exhausted" => Before(exhaustionDay, d - 1)

\* time_to_restore_reserve is a day on which the reserve is back and before which it
\* was short, and the lowest stock of the event shows that shortage.
RestoreFollowsShortage ==
    restoredDay # Unset =>
        /\ log[restoredDay + 1] >= Hundredths(profile.minimum_reserve)
        /\ \/ profile.starting_quantity < profile.minimum_reserve
           \/ \E d \in 1..restoredDay : log[d] < Hundredths(profile.minimum_reserve)
        /\ lowest < Hundredths(profile.minimum_reserve)

\* The first replenishment arrives on the day that was assured, neither earlier nor
\* later, whichever supplier it comes from (assured_replenishment_days,
\* days_to_replenishment).
ReplenishmentAsAssured == replenishmentDay # Unset => replenishmentDay = AssuredReplenishment

\* What the report says of the way back is what happened: the first delivery on the
\* assured day, and a restored reserve only after a shortage (simulate_inventory).
StockAsPromised == ReplenishmentAsAssured /\ RestoreFollowsShortage
=============================================================================
