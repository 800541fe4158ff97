---------------------------- MODULE SolarForecast ----------------------------
(***************************************************************************)
(* The public weather cache (solar_forecast.py, solar_forecast_cache.py):  *)
(* a scheduled refresh copies the newest official release into Redis,      *)
(* point by point, and its header last; the pages of the members read the  *)
(* header and then the point nearest to the home.                          *)
(*                                                                         *)
(* The source may replace what it offers between any two downloads.  The   *)
(* lease of a refresh may run out while it works, and a refresh may die.   *)
(* Time is counted in hours: a lease and a cooldown end within one.        *)
(***************************************************************************)
EXTENDS Naturals, FiniteSets

CONSTANTS
    Releases, ReleasedAt, Rows,     \* rows are [kind, point, end, watt]
    PlacesFiles, Points,            \* files of points [kind, point, far]
    Refreshers, Viewers,
    MaxFar,         \* a point farther from the home is of no use
    MaxAge,         \* hours a release stays current
    CacheHours,     \* hours a key lives
    Horizon,        \* hours of a release that are kept
    Ahead,          \* hours shown
    MaxHour,        \* bound on time
    Missing

ASSUME ForecastAssumption ==
    /\ MaxAge \in Nat /\ CacheHours \in Nat /\ MaxHour \in Nat
    /\ MaxAge < CacheHours /\ Missing \notin Refreshers
    /\ ReleasedAt \in [Releases -> 0 .. MaxHour]

VARIABLES
    hour,
    offered, places,    \* the releases and the points the source offers
    lease, cooled,      \* who holds the lease, and who began the last attempt
    published,          \* the header
    cell,               \* the keys of the points
    refresher, viewer

forecastVars == <<hour, offered, places, lease, cooled, published, cell, refresher, viewer>>

Postal(f) == {p \in Points[f] : p.kind = 2}

\* The name of a release's file holds its hour: one file an hour.
Offers == {S \in SUBSET Releases : \A r, s \in S : ReleasedAt[r] = ReleasedAt[s] => r = s}

Version == [release : Releases, places : PlacesFiles]
Header == [version : Version, left : 1 .. CacheHours]

ASSUME MissingAssumption == Missing \notin Header

RefreshDone == [at |-> "rest", now |-> 0, version |-> Missing, left |-> {}]
Away == [at |-> "away", version |-> Missing, now |-> 0, seen |-> {}]

ForecastTypeOK ==
    /\ offered \in Offers /\ places \in PlacesFiles
    /\ lease \in Refreshers \cup {Missing} /\ cooled \in Refreshers \cup {Missing}
    /\ published \in Header \cup {Missing}
    /\ \A c \in cell : c.version \in Version /\ c.left \in 1 .. CacheHours
    /\ \A w \in Refreshers : refresher[w].version \in Version \cup {Missing}

ForecastInit ==
    /\ hour = 0
    /\ offered \in {S \in Offers : \A r \in S : ReleasedAt[r] = 0} /\ places \in PlacesFiles
    /\ lease = Missing /\ cooled = Missing
    /\ published = Missing /\ cell = {}
    /\ refresher = [w \in Refreshers |-> RefreshDone]
    /\ viewer = [x \in Viewers |-> Away]

-----------------------------------------------------------------------------
(* What the source says.                                                   *)

release_state(at, now) ==
    IF at > now THEN "unavailable" ELSE IF now - at <= MaxAge THEN "current" ELSE "stale"

\* The newest release that is not in the future.
select_release(now) == LET past == {r \in offered : ReleasedAt[r] <= now} IN
    IF past = {} THEN Missing ELSE CHOOSE r \in past : \A x \in past : ReleasedAt[x] <= ReleasedAt[r]

Conflicting(rows) == \E a, b \in rows :
    a.point = b.point /\ a.end = b.end /\ a.watt # b.watt

\* The postal rows of the hours after the release.
parse_radiation(r) == 
    {row \in Rows[r] : row.kind = 2 /\ row.end > ReleasedAt[r] /\ row.end <= ReleasedAt[r] + Horizon}

ReadingsOf(version, point) ==
    {row \in parse_radiation(version.release) : row.point = point}

\* The postal point nearest to the home, the smaller number of two.
nearest_point(f) ==
    LET near == {p \in Postal(f) : p.far <= MaxFar} IN
    IF near = {} THEN Missing
    ELSE (CHOOSE p \in near : \A q \in near :
              p.far < q.far \/ (p.far = q.far /\ p.point <= q.point)).point

-----------------------------------------------------------------------------
(* The refresh.                                                            *)

\* A version whose keys do not tell the releases apart.
point_key_shared(version, point) == <<point>>

point_key(version, point) == <<version, point>>

AtStep(w, at) == refresher[w].at = at
Steps(w, at) == refresher' = [refresher EXCEPT ![w].at = at]

\* The refresh has noted the time, which may be the hour before; then SET NX of
\* the lease and of the attempt: at most one in the cooldown.
TakeLease(w, called) ==
    /\ AtStep(w, "rest") /\ lease = Missing /\ cooled = Missing
    /\ lease' = w /\ cooled' = w
    /\ refresher' = [refresher EXCEPT ![w].at = "metadata", ![w].now = called]
    /\ UNCHANGED <<hour, offered, places, published, cell, viewer>>

\* A refresh ends with the release of its lease; that of somebody else stays.
RELEASE(w) ==
    /\ refresher' = [refresher EXCEPT ![w] = RefreshDone]
    /\ lease' = IF lease = w THEN Missing ELSE lease
    /\ UNCHANGED <<hour, offered, places, cooled>>

Present(version) ==
    \A p \in Postal(version.places) :
        \E c \in cell : c.key = point_key(version, p.point)

\* The newest release, unless it is stale or already there with all its points.
ReadMetadata(w) ==
    /\ AtStep(w, "metadata")
    /\ LET now == refresher[w].now
           r == select_release(now)
           version == [release |-> r, places |-> places]
       IN  IF \/ r = Missing \/ release_state(ReleasedAt[r], now) # "current"
              \/ published # Missing /\ published.version = version /\ Present(version)
           THEN RELEASE(w)
           ELSE /\ refresher' = [refresher EXCEPT ![w] =
                       [at |-> "points", now |-> 0, version |-> version, left |-> {}]]
                /\ UNCHANGED <<hour, offered, places, lease, cooled>>
    /\ UNCHANGED <<published, cell, viewer>>

\* A file that is not the one announced ends the refresh.
DownloadPoints(w) ==
    /\ AtStep(w, "points")
    /\ IF refresher[w].version.places = places
       THEN Steps(w, "radiation") /\ UNCHANGED <<hour, offered, places, lease, cooled>>
       ELSE RELEASE(w)
    /\ UNCHANGED <<published, cell, viewer>>

\* And so does one whose rows that count contradict each other.
DownloadRadiation(w) == LET v == refresher[w].version IN
    /\ AtStep(w, "radiation")
    /\ IF v.release \in offered /\ ~Conflicting(parse_radiation(v.release))
       THEN /\ refresher' = [refresher EXCEPT ![w] =
                   [at |-> "writing", now |-> 0, version |-> v, left |-> {p.point : p \in Postal(v.places)}]]
            /\ UNCHANGED <<hour, offered, places, lease, cooled>>
       ELSE RELEASE(w)
    /\ UNCHANGED <<published, cell, viewer>>

WritePoint(w, p) ==
    /\ AtStep(w, "writing") /\ p \in refresher[w].left /\ \A q \in refresher[w].left : p <= q
    /\ LET v == refresher[w].version
           key == point_key(v, p)
       IN  cell' = {c \in cell : c.key # key} \cup
               {[key |-> key, version |-> v, point |-> p, left |-> CacheHours]}
    /\ refresher' = [refresher EXCEPT ![w].left = @ \ {p}]
    /\ UNCHANGED <<hour, offered, places, lease, cooled, published, viewer>>

\* The header replaces no later one, and only for the holder of the lease.
Publishes(w) ==
    /\ lease = w
    /\ published # Missing => ReleasedAt[published.version.release] <= ReleasedAt[refresher[w].version.release]

PUBLISH(w) ==
    /\ AtStep(w, "writing") /\ refresher[w].left = {}
    /\ published' = IF Publishes(w) THEN [version |-> refresher[w].version, left |-> CacheHours]
                    ELSE published
    /\ RELEASE(w)
    /\ UNCHANGED <<cell, viewer>>

\* A call that fails anywhere, and the end of the process, which keeps the lease.
Fails(w) == ~AtStep(w, "rest") /\ RELEASE(w) /\ UNCHANGED <<published, cell, viewer>>

RefresherDies(w) == ~AtStep(w, "rest")
    /\ refresher' = [refresher EXCEPT ![w] = RefreshDone]
    /\ UNCHANGED <<hour, offered, places, lease, cooled, published, cell, viewer>>

-----------------------------------------------------------------------------
(* The page of a member.                                                   *)

view(x) ==
    /\ viewer[x] = Away /\ published # Missing
    /\ release_state(ReleasedAt[published.version.release], hour) = "current"
    /\ nearest_point(published.version.places) # Missing
    /\ viewer' = [viewer EXCEPT ![x] =
           [at |-> "located", version |-> published.version, now |-> hour, seen |-> {}]]
    /\ UNCHANGED <<hour, offered, places, lease, cooled, published, cell, refresher>>

Shown(now) == (now + 1) .. (now + Ahead)

\* Without the point, or without one hour to show, the page says unavailable.
ReadPoint(x) == LET at == viewer[x] IN
    /\ at.at = "located"
    /\ LET key == point_key(at.version, nearest_point(at.version.places))
           rows == UNION {ReadingsOf(c.version, c.point) : c \in {d \in cell : d.key = key}}
           seen == {row \in rows : row.end \in Shown(at.now)}
       IN  viewer' = [viewer EXCEPT ![x] =
               IF seen = {} THEN Away
               ELSE [at |-> "shown", version |-> at.version, now |-> at.now, seen |-> seen]]
    /\ UNCHANGED <<hour, offered, places, lease, cooled, published, cell, refresher>>

LeavePage(x) ==
    /\ viewer[x].at = "shown" /\ viewer' = [viewer EXCEPT ![x] = Away]
    /\ UNCHANGED <<hour, offered, places, lease, cooled, published, cell, refresher>>

-----------------------------------------------------------------------------
(* The source, and time.                                                   *)

SourceChanges ==
    /\ \/ offered' \in {S \in Offers : \A r \in S : ReleasedAt[r] <= hour} \ {offered} /\ UNCHANGED places
       \/ places' \in PlacesFiles \ {places} /\ UNCHANGED offered
    /\ UNCHANGED <<hour, lease, cooled, published, cell, refresher, viewer>>

LeaseEnds ==
    /\ lease # Missing /\ lease' = Missing
    /\ UNCHANGED <<hour, offered, places, cooled, published, cell, refresher, viewer>>

\* The cooldown outlives the lease of the attempt that began it.
CooldownEnds ==
    /\ cooled # Missing /\ lease # cooled /\ cooled' = Missing
    /\ UNCHANGED <<hour, offered, places, lease, published, cell, refresher, viewer>>

HourPasses ==
    /\ hour < MaxHour /\ hour' = hour + 1
    /\ lease' = Missing /\ cooled' = Missing
    /\ cell' = {[c EXCEPT !.left = @ - 1] : c \in {d \in cell : d.left > 1}}
    /\ published' = IF published = Missing \/ published.left = 1 THEN Missing
                    ELSE [published EXCEPT !.left = @ - 1]
    /\ UNCHANGED <<offered, places, refresher, viewer>>

ForecastNext ==
    \/ \E w \in Refreshers :
          \/ \E called \in {hour, hour - 1} \cap Nat : TakeLease(w, called)
          \/ ReadMetadata(w)
          \/ DownloadPoints(w) \/ DownloadRadiation(w)
          \/ \E p \in refresher[w].left : WritePoint(w, p)
          \/ PUBLISH(w) \/ Fails(w) \/ RefresherDies(w)
    \/ \E x \in Viewers : view(x) \/ ReadPoint(x) \/ LeavePage(x)
    \/ SourceChanges \/ LeaseEnds \/ CooldownEnds \/ HourPasses

ForecastSpec == ForecastInit /\ [][ForecastNext]_forecastVars

-----------------------------------------------------------------------------

\* What a page shows for an hour is what one official release, current when the
\* page was asked for, says of the point nearest to the home: every hour it says
\* something of, whatever was published while the page was put together.
ShownIsOfficial ==
    \A x \in Viewers : viewer[x].at = "shown" =>
        LET v == viewer[x].version IN
        /\ release_state(ReleasedAt[v.release], viewer[x].now) = "current"
        /\ viewer[x].seen = {row \in ReadingsOf(v, nearest_point(v.places)) :
               row.end \in Shown(viewer[x].now)}

\* The forecast as the pages use it (solar_forecast_cache.py refresh and view):
\* what they show is official, the header of a current release has all its
\* points, and no page shows a later release than the header that replaced its
\* own, however long a refresh hangs.
ForecastStands ==
    /\ ShownIsOfficial
    /\ published # Missing =>
          /\ release_state(ReleasedAt[published.version.release], hour) = "current"
                => Present(published.version)
          /\ \A x \in Viewers : viewer[x] # Away =>
                ReleasedAt[viewer[x].version.release] <= ReleasedAt[published.version.release]
=============================================================================
