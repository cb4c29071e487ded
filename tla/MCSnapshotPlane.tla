---------------------------- MODULE MCSnapshotPlane ----------------------------
(***************************************************************************)
(* Two nodes: one serves two requests at a time and fetches, the other has *)
(* no network and lives on imports and gossip.                             *)
(***************************************************************************)
EXTENDS SnapshotPlane

MCNode == {"online", "offline"}
MCSlot == 1..3
MCHomeOf == [s \in MCSlot |-> IF s = 3 THEN "offline" ELSE "online"]

Level(dated, qc, reviewed) == [object |-> TRUE, dated |-> dated, number |-> TRUE,
                               qc |-> qc, reviewed |-> reviewed]
WaterLevels == [shape |-> "list", rows |-> <<Level(TRUE, 2, FALSE), Level(FALSE, 1, TRUE)>>]
Stations == [shape |-> "list", rows |-> <<[operating |-> FALSE, wlo |-> TRUE],
                                          [operating |-> TRUE, wlo |-> TRUE]>>]
EmptyList == [shape |-> "list", rows |-> << >>]

Feature(expired) == [properties |-> TRUE, expired |-> expired, confident |-> ~expired,
                     located |-> TRUE]
OneAlert == [shape |-> "collection", rows |-> <<Feature(FALSE)>>]
TwoAlerts == [shape |-> "collection", rows |-> <<Feature(TRUE), Feature(FALSE)>>]
ErrorPage == [shape |-> "object", rows |-> << >>]

Workbook == [shape |-> "workbook", rows |-> <<[dated |-> TRUE, id |-> TRUE, numbers |-> 2]>>]
Undated == [shape |-> "workbook", rows |-> <<[dated |-> FALSE, id |-> TRUE, numbers |-> 0]>>]

Extent(baseline, day, extent) == [baseline |-> baseline, day |-> day, extent |-> extent]
Ice == [shape |-> "table", rows |-> <<Extent(TRUE, 1, 12), Extent(TRUE, 1, 14),
                                      Extent(FALSE, 1, 9), Extent(FALSE, 2, 9)>>]
Orbits == [shape |-> "list", rows |-> <<[id |-> TRUE, epoch |-> TRUE], [id |-> TRUE, epoch |-> FALSE]>>]
Scenes == [shape |-> "collection", rows |-> <<[at |-> 3]>>]
Fires == [shape |-> "table", rows |-> <<[at |-> 1]>>]

MCContents ==
    [c \in {"WaterLevels", "Stations", "EmptyList", "OneAlert", "TwoAlerts", "ErrorPage",
            "Workbook", "Undated", "Ice", "Orbits", "Scenes", "Fires"} |->
        CASE c = "WaterLevels" -> WaterLevels
          [] c = "Stations" -> Stations
          [] c = "EmptyList" -> EmptyList
          [] c = "OneAlert" -> OneAlert
          [] c = "TwoAlerts" -> TwoAlerts
          [] c = "ErrorPage" -> ErrorPage
          [] c = "Workbook" -> Workbook
          [] c = "Undated" -> Undated
          [] c = "Ice" -> Ice
          [] c = "Orbits" -> Orbits
          [] c = "Scenes" -> Scenes
          [] c = "Fires" -> Fires]

MCSourceOf ==
    [u \in {"stations", "levels", "alerts", "cdd", "ice", "orbits", "stac", "fires"} |->
        CASE u \in {"stations", "levels"} -> "dfo-iwls"
          [] u = "alerts" -> "eccc-geomet-alerts"
          [] u = "cdd" -> "canadian-disaster-database"
          [] u = "ice" -> "nsidc-sea-ice-index"
          [] u = "orbits" -> "celestrak-gp"
          [] u = "stac" -> "copernicus-cdse-stac"
          [] u = "fires" -> "nasa-firms"]

Source(parser, freshness, keyed) == [parser |-> parser, freshness |-> freshness, keyed |-> keyed]

MCSpecs ==
    [x \in {"dfo-iwls", "eccc-geomet-alerts", "canadian-disaster-database", "nsidc-sea-ice-index",
            "celestrak-gp", "copernicus-cdse-stac", "nasa-firms"} |->
        CASE x = "dfo-iwls" -> Source("json", 0, FALSE)
          [] x = "eccc-geomet-alerts" -> Source("geojson", 0, FALSE)
          [] x = "canadian-disaster-database" -> Source("xlsx", 0, FALSE)
          [] x = "nasa-firms" -> Source("csv", 0, TRUE)
          [] OTHER -> Source("json", 0, FALSE)]

MCOffers ==
    [u \in DOMAIN MCSourceOf |->
        CASE u = "stations" -> {"Stations"}
          [] u = "levels" -> {"WaterLevels", "EmptyList"}
          [] u = "alerts" -> {"OneAlert", "TwoAlerts", "ErrorPage"}
          [] u = "cdd" -> {"Workbook", "Undated"}
          [] u = "ice" -> {"Ice"}
          [] u = "orbits" -> {"Orbits", "EmptyList"}
          [] u = "stac" -> {"Scenes"}
          [] u = "fires" -> {"Fires"}]

One(client, u, adapter) == [client |-> client, steps |-> <<[url |-> u, adapter |-> adapter]>>]

MCPlans ==
    [p \in {"water", "levels", "alerts", "alerts snapshot", "events", "extent", "geometry",
            "coverage", "fires"} |->
        CASE p = "water" -> [client |-> "plane",
                             steps |-> <<[url |-> "stations", adapter |-> "stations"],
                                         [url |-> "levels", adapter |-> "levels"]>>]
          [] p = "levels" -> One("plane", "levels", "none")
          [] p = "alerts" -> One("plane", "alerts", "alerts")
          [] p = "alerts snapshot" -> One("plane", "alerts", "none")
          [] p = "events" -> One("plane", "cdd", "events")
          [] p = "extent" -> One("ingestor", "ice", "extent")
          [] p = "geometry" -> One("ingestor", "orbits", "geometry")
          [] p = "coverage" -> One("ingestor", "stac", "coverage")
          [] p = "fires" -> One("plane", "fires", "none")]

MCImporters == {"offline"}

\* The source with the most contents is exercised longer.
MCMaxMoves == [x \in DOMAIN MCSpecs |-> IF x = "eccc-geomet-alerts" THEN 3 ELSE 2]

MCOversize == {"TwoAlerts"}
=============================================================================
