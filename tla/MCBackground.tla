---------------------------- MODULE MCBackground ----------------------------
(* What runs in the background: the metering import, the gateway of the    *)
(* practice villages, the notices derived from telemetry, the advisories   *)
(* about devices, and the cache of the weather forecast; and the portal    *)
(* that is open beside it.  They share no state; part says which one a     *)
(* behaviour is about.                                                     *)
(*                                                                         *)
(* One source with a destination, or a village and its replacement, fill   *)
(* the two places there are; the third id is for what comes after them.    *)
EXTENDS MCMeteringImport, Villages, TelemetryNotices, SolarForecast,
        DeviceAdvisories, UtilityPortal

CONSTANTS c1, c2, maker, inverter, u1

VARIABLE part

BackgroundSymmetry == Permutations(Workers) \cup Permutations(Visitors)

PostalRow(point, end, watt) == [kind |-> 2, point |-> point, end |-> end, watt |-> watt]

\* A release, its successor with a row of another kind, and a correction of the
\* successor that contradicts itself.
MCReleasedAt == [r \in Releases |-> IF r = "night" THEN 0 ELSE 1]

MCRows == [r \in Releases |->
    CASE r = "night" -> {PostalRow(1, 1, 5), PostalRow(1, 2, 5), PostalRow(2, 2, 5)}
      [] r = "morning" -> {PostalRow(1, 2, 6), PostalRow(2, 2, 6), PostalRow(2, 3, 6),
                           [kind |-> 1, point |-> 2, end |-> 2, watt |-> 9]}
      [] r = "contradiction" -> {PostalRow(2, 3, 7), PostalRow(2, 3, 8)}]

PostalPlace(point, far) == [kind |-> 2, point |-> point, far |-> far]

MCPoints == [f \in PlacesFiles |->
    IF f = "two" THEN {PostalPlace(1, 1), PostalPlace(2, 1)}
    ELSE {PostalPlace(2, 0), [kind |-> 1, point |-> 1, far |-> 0]}]

\* What the source offers, one step after the other.
Offer == <<<<{"night"}, "two">>, <<{"night", "morning"}, "two">>,
           <<{"night", "morning"}, "one">>, <<{"night", "contradiction"}, "one">>>>

\* The second refresh begins an hour late, once the first has its metadata, none in the last hour; two at work
\* both come to their end, with nobody on the page.  A refresh that noted its time an hour
\* before its lease begins alone, when the second release has just come and a page can be served.
ForecastScope ==
    /\ \/ UNCHANGED <<offered, places>>
       \/ \E k \in 2 .. Len(Offer) :
              <<offered, places>> = Offer[k - 1] /\ <<offered', places'>> = Offer[k]
    /\ refresher[c2] = RefreshDone /\ refresher'[c2] # RefreshDone =>
           refresher[c1].at \notin {"rest", "metadata"} /\ hour = 1
    /\ \A w \in Refreshers : hour = MaxHour /\ refresher[w] = RefreshDone => refresher'[w] = RefreshDone
    /\ \A w \in Refreshers :
           refresher[w] = RefreshDone /\ refresher'[w].at = "metadata" /\ refresher'[w].now < hour =>
               /\ w = c1 /\ refresher[c2] = RefreshDone /\ hour = 1
               /\ <<offered, places>> = Offer[2] /\ published # Missing
               /\ \A x \in Viewers : viewer[x] = Away
    /\ (\A w \in Refreshers : refresher[w] # RefreshDone) =>
           /\ \A x \in Viewers : viewer'[x] = Away
           /\ \A w \in Refreshers : refresher'[w] = RefreshDone =>
                  refresher[w].at = "writing" /\ refresher[w].left = {}

\* An advisory about firmware 2.0 to 2.4 of the inverter; withdrawn; of a source
\* no policy names.
V(n) == [scheme |-> "dotted-numeric", parts |-> <<2, n>>]
MCEntry(status, source) ==
    [status |-> status, source |-> source, vendors |-> {maker},
     models |-> {[names |-> {inverter}, firmware |-> [scheme |-> "dotted-numeric", lower |-> V(0), upper |-> V(4)]]}]
MCContents == {MCEntry("active", u1), MCEntry("withdrawn", u1)}
MCContexts == {[vendor |-> maker, model |-> inverter, firmware |-> V(3)],
               [vendor |-> maker, model |-> Unknown, firmware |-> Unknown]}
MCPolicies == {[enabled |-> TRUE, cadence |-> 1, urls |-> {u1}], [enabled |-> FALSE, cadence |-> 1, urls |-> {u1}]}

\* Either the advisory is revised, or the policy and its reviews change.
AdvisoryScope == (Len(policies) > 1 \/ Len(reviews) > 1) => \A a \in Advisories : Len(revisions[a]) <= 1

MCInit ==
    /\ part \in {"imports", "villages", "notices", "forecast", "advisories", "portal"}
    /\ Init /\ VillageInit /\ NoticeInit /\ ForecastInit /\ AdvisoryInit /\ UtilityInit
    /\ offered = {"night"} /\ places = "two"

\* Two of the three actors of a part are at work at the same time.
InPairs ==
    /\ Cardinality({p \in Processes : proc[p] # Idle}) <= 2
    /\ Cardinality({t \in Threads : ~AtRest(t)}) <= 2

allElse == <<villageVars, noticeVars, forecastVars, advisoryVars, utilityVars>>

\* Imports must go on; what nobody uses may come to rest.
MCNext ==
    \/ /\ part = "imports" /\ Next
       /\ UNCHANGED <<villageVars, noticeVars, forecastVars, advisoryVars, utilityVars, part>> /\ InPairs'
    \/ /\ part = "villages" /\ VillageNext
       /\ UNCHANGED <<vars, noticeVars, forecastVars, advisoryVars, utilityVars, part>> /\ InPairs'
    \/ /\ part = "notices" /\ NoticeNext
       /\ UNCHANGED <<vars, villageVars, forecastVars, advisoryVars, utilityVars, part>>
    \/ /\ part = "forecast" /\ ForecastNext /\ ForecastScope
       /\ UNCHANGED <<vars, villageVars, noticeVars, advisoryVars, utilityVars, part>>
    \/ /\ part = "advisories" /\ AdvisoryNext /\ AdvisoryScope'
       /\ UNCHANGED <<vars, villageVars, noticeVars, forecastVars, utilityVars, part>>
    \/ /\ part = "portal" /\ UtilityNext
       /\ UNCHANGED <<vars, villageVars, noticeVars, forecastVars, advisoryVars, part>>
    \/ part # "imports" /\ UNCHANGED <<vars, allElse, part>>

MCSpec == MCInit /\ [][MCNext]_<<vars, allElse, part>>

\* Every part has behaviours of its own.
TypesOK ==
    /\ part = "imports" => TypeOK
    /\ part = "villages" => VillageTypeOK
    /\ part = "notices" => NoticeTypeOK
    /\ part = "forecast" => ForecastTypeOK
    /\ part = "advisories" => AdvisoryTypeOK
    /\ part = "portal" => UtilityTypeOK

\* The records keep their types; what was packed away is settled, an address
\* leads to a village that is still there (sdat_archive.py, sandbox_runtime.py),
\* what a household did is about a notice that stands (store/advisories.py), and
\* a link opens one session (store/utility.py).
RecordsOK == TypesOK /\ PackedIsSettled /\ TargetsHaveTheirSource /\ ActionsStood /\ PortalHolds
=============================================================================
