--------------------------- MODULE BackgroundProofs ---------------------------
(***************************************************************************)
(* What runs in the background, for every number of workers, deliveries,   *)
(* releases, viewers and entries: the cache of the weather forecast        *)
(* (SolarForecast), the metering import (MeteringImport) and the mails and *)
(* links of the register of LEGs (LegRegistry).                            *)
(*                                                                         *)
(* And what the gateway of the practice villages promises for any number   *)
(* of visitors, villages, cleanups and kills (Villages).  Its two          *)
(* properties are not inductive.  They rest on what every call of every    *)
(* thread can count on: what it holds depends on the call and its village  *)
(* alone; on one stack the villages grow towards the innermost call, so    *)
(* that none is locked twice; and a destroy that answered that a village   *)
(* is gone has said the truth.                                             *)
(***************************************************************************)
EXTENDS MeteringImport, Villages, SolarForecast, LegRegistry,
        FiniteSetTheorems, SequenceTheorems, WellFoundedInduction, TLAPS

\* Every set of natural numbers that is not empty has a least element.
LEMMA LeastNatural ==
    ASSUME NEW T, T \subseteq Nat, T # {}
    PROVE  \E x \in T : \A y \in T : x <= y
<1>1. PICK x \in T : \A y \in T : ~(<<y, x>> \in OpToRel(<, Nat))
  BY NatLessThanWellFounded, WFMin, Zenon
<1>2. \A y \in T : ~(y < x)
  BY <1>1 DEF OpToRel
<1> QED
  BY <1>2

-----------------------------------------------------------------------------
(* The forecast.  A refresh publishes only while it holds its lease, which  *)
(* ends with the hour: the points it wrote are as young as its header, and  *)
(* its release is younger than any header that can have run out before.     *)

\* A cell is found under the version and the point it is about.
ForecastTypes ==
    /\ hour \in Nat /\ offered \subseteq Releases /\ places \in PlacesFiles
    /\ lease \in Refreshers \cup {Missing}
    /\ published \in Header \cup {Missing}
    /\ \A c \in cell :
           /\ c = [key |-> <<c.version, c.point>>, version |-> c.version, point |-> c.point, left |-> c.left]
           /\ c.left \in 1 .. CacheHours
    /\ DOMAIN refresher = Refreshers /\ DOMAIN viewer = Viewers
    /\ \A w \in Refreshers :
           refresher[w] = [at |-> refresher[w].at, now |-> refresher[w].now,
                           version |-> refresher[w].version, left |-> refresher[w].left]

\* The release of a version is current at an hour.
CurrentAt(v, now) == ReleasedAt[v.release] <= now /\ now <= ReleasedAt[v.release] + MaxAge

\* Or was in the hour before.
JustCurrentAt(v, now) == ReleasedAt[v.release] <= now /\ now <= ReleasedAt[v.release] + MaxAge + 1

\* The cells a header announces stay at least as long as it does.
HeaderIsWhole ==
    published # Missing =>
        /\ \A p \in Postal(published.version.places) :
               \E c \in cell : c.key = <<published.version, p.point>> /\ published.left <= c.left
        /\ ReleasedAt[published.version.release] + CacheHours <= hour + published.left

\* Between taking the lease and writing the pages.
Busy(w) == refresher[w].at \in {"points", "radiation", "writing"}

\* What the holder of the lease works on is of this hour or the one before.
WorkOf(w) ==
    /\ Busy(w) => refresher[w].version \in Version
    /\ lease = w /\ AtStep(w, "metadata") => refresher[w].now \in {hour, hour - 1} \cap Nat
    /\ lease = w /\ Busy(w) => JustCurrentAt(refresher[w].version, hour)
    /\ lease = w /\ refresher[w].at = "writing" =>
           \A p \in Postal(refresher[w].version.places) :
               \/ p.point \in refresher[w].left
               \/ \E c \in cell : c.key = <<refresher[w].version, p.point>> /\ c.left = CacheHours

\* What a worker holds is of the header it took the lease under.
WorkIsCurrent == \A w \in Refreshers : WorkOf(w)

\* A page is about a release that was current, and no later than the header, or
\* older than a header can be.
PagesAreOfHeaders ==
    \A x \in Viewers : viewer[x] # Away =>
        /\ viewer[x].version \in Version
        /\ viewer[x].now \in Nat /\ CurrentAt(viewer[x].version, viewer[x].now)
        /\ published # Missing =>
               ReleasedAt[viewer[x].version.release] <= ReleasedAt[published.version.release]
        /\ published = Missing => ReleasedAt[viewer[x].version.release] + CacheHours <= hour

\* The inductive invariant behind ForecastStands.
ForecastInv ==
    ForecastTypes /\ HeaderIsWhole /\ WorkIsCurrent /\ PagesAreOfHeaders /\ ShownIsOfficial

\* The release of a version is a number of hours.
LEMMA ReleaseHour ==
    ASSUME NEW v \in Version
    PROVE  ReleasedAt[v.release] \in Nat /\ v.release \in Releases
BY ForecastAssumption DEF Version

\* The release a refresh chooses is one that is offered, and no future one.
LEMMA SelectedRelease ==
    ASSUME ForecastTypes, NEW now, NEW r, r = select_release(now), r # Missing
    PROVE  r \in Releases /\ ReleasedAt[r] <= now
<1>1. PICK past : past = {q \in offered : ReleasedAt[q] <= now}
  OBVIOUS
<1>2. past # {} /\ r = CHOOSE q \in past : \A y \in past : ReleasedAt[y] <= ReleasedAt[q]
  BY <1>1 DEF select_release
<1>3. \A q \in past : q \in Releases /\ ReleasedAt[q] \in Nat /\ ReleasedAt[q] <= MaxHour
  BY <1>1, ForecastAssumption DEF ForecastTypes
<1>4. PICK T : T = {MaxHour - ReleasedAt[q] : q \in past}
  OBVIOUS
<1>5. T \subseteq Nat /\ T # {}
  BY <1>2, <1>3, <1>4, ForecastAssumption
<1>6. PICK t \in T : \A y \in T : t <= y
  BY <1>5, LeastNatural
<1>7. PICK q \in past : t = MaxHour - ReleasedAt[q]
  BY <1>4, <1>6
<1>8. \A y \in past : ReleasedAt[y] <= ReleasedAt[q]
  BY <1>3, <1>4, <1>6, <1>7, ForecastAssumption
<1>9. r \in past
  BY <1>2, <1>7, <1>8
<1> QED
  BY <1>1, <1>3, <1>9

\* Nothing is cached before the first refresh.
LEMMA ForecastInvInit == ForecastInit => ForecastInv
<1>1. SUFFICES ASSUME ForecastInit PROVE ForecastInv
  OBVIOUS
<1>2. ForecastTypes
  BY <1>1 DEF ForecastInit, ForecastTypes, Offers, RefreshDone
<1>3. HeaderIsWhole /\ WorkIsCurrent
  BY <1>1 DEF ForecastInit, HeaderIsWhole, WorkIsCurrent, WorkOf, Busy, AtStep, RefreshDone
<1>4. PagesAreOfHeaders /\ ShownIsOfficial
  BY <1>1 DEF ForecastInit, PagesAreOfHeaders, ShownIsOfficial, Away
<1> QED
  BY <1>2, <1>3, <1>4 DEF ForecastInv

\* A step that leaves the header, the cells, the hour and the pages alone keeps
\* the invariant when it keeps what is known of the refreshes.
LEMMA CacheKept ==
    ASSUME ForecastInv, UNCHANGED <<hour, published, cell, viewer>>,
           ForecastTypes', WorkIsCurrent'
    PROVE  ForecastInv'
<1>1. HeaderIsWhole' /\ PagesAreOfHeaders'
  BY DEF ForecastInv, HeaderIsWhole, PagesAreOfHeaders
<1>2. ShownIsOfficial'
  BY DEF ForecastInv, ShownIsOfficial
<1> QED
  BY <1>1, <1>2 DEF ForecastInv

\* The work of the others is not disturbed by what one refresh does.
LEMMA OthersKept ==
    ASSUME ForecastInv, NEW w \in Refreshers, UNCHANGED <<hour, offered, places>>,
           \A u \in Refreshers : u # w => refresher'[u] = refresher[u] /\ (lease' = u => lease = u),
           \A c \in cell : c.left = CacheHours =>
               \E d \in cell' : d.key = c.key /\ d.left = CacheHours,
           WorkOf(w)'
    PROVE  WorkIsCurrent'
<1>1. SUFFICES ASSUME NEW u \in Refreshers, u # w
               PROVE  WorkOf(u)'
  BY DEF WorkIsCurrent
<1>2. WorkOf(u) /\ refresher'[u] = refresher[u] /\ (lease' = u => lease = u) /\ hour' = hour
  BY <1>1 DEF ForecastInv, WorkIsCurrent
<1>3. /\ Busy(u)' => refresher'[u].version \in Version
      /\ lease' = u /\ refresher'[u].at = "metadata" => refresher'[u].now \in {hour', hour' - 1} \cap Nat
      /\ lease' = u /\ Busy(u)' => JustCurrentAt(refresher'[u].version, hour')
  BY <1>2 DEF WorkOf, Busy, AtStep
<1>4. ASSUME lease' = u, refresher'[u].at = "writing", NEW p \in Postal(refresher'[u].version.places),
             p.point \notin refresher'[u].left
      PROVE  \E c \in cell' : c.key = <<refresher'[u].version, p.point>> /\ c.left = CacheHours
  BY <1>2, <1>4 DEF WorkOf
<1> QED
  BY <1>3, <1>4 DEF WorkOf, JustCurrentAt, AtStep

\* A refresh that is at rest keeps no work: what is known of the others stays.
LEMMA ReleaseStep ==
    ASSUME ForecastInv, NEW w \in Refreshers, RELEASE(w), UNCHANGED <<published, cell, viewer>>
    PROVE  ForecastInv'
<1>1. /\ refresher' = [refresher EXCEPT ![w] = RefreshDone]
      /\ lease' = lease \/ lease' = Missing
      /\ UNCHANGED <<hour, offered, places>>
  BY DEF RELEASE
<1>2. ForecastTypes'
  BY <1>1 DEF ForecastInv, ForecastTypes, RefreshDone
<1>3. WorkOf(w)'
  <2>1. refresher'[w].at = "rest"
    BY <1>1 DEF RefreshDone, ForecastInv, ForecastTypes
  <2> QED
    BY <2>1 DEF WorkOf, Busy, AtStep
<1>4. \A u \in Refreshers : u # w => refresher'[u] = refresher[u] /\ (lease' = u => lease = u)
  BY <1>1, ForecastAssumption DEF ForecastInv, ForecastTypes
<1>5. WorkIsCurrent'
  BY <1>1, <1>3, <1>4, OthersKept
<1> QED
  BY <1>1, <1>2, <1>5, CacheKept

\* The lease is taken, or the end of a process leaves it behind.
LEMMA LeaseStep ==
    ASSUME ForecastInv, NEW w \in Refreshers, NEW called \in {hour, hour - 1} \cap Nat,
           TakeLease(w, called) \/ RefresherDies(w)
    PROVE  ForecastInv'
<1>1. /\ UNCHANGED <<hour, offered, places, published, cell, viewer>>
      /\ lease' \in Refreshers \cup {Missing} /\ (lease' = lease \/ lease' = w)
  BY DEF TakeLease, RefresherDies, ForecastInv, ForecastTypes
<1>2. /\ refresher'[w].at \in {"metadata", "rest"}
      /\ refresher'[w].at = "metadata" => refresher'[w].now = called
      /\ refresher'[w] = [at |-> refresher'[w].at, now |-> refresher'[w].now,
                          version |-> refresher'[w].version, left |-> refresher'[w].left]
      /\ \A u \in Refreshers : u # w => refresher'[u] = refresher[u]
      /\ DOMAIN refresher' = Refreshers
  BY DEF TakeLease, RefresherDies, RefreshDone, ForecastInv, ForecastTypes
<1>3. ForecastTypes'
  BY <1>1, <1>2 DEF ForecastInv, ForecastTypes
<1>4. WorkOf(w)'
  BY <1>1, <1>2 DEF WorkOf, Busy, AtStep
<1>5. WorkIsCurrent'
  BY <1>1, <1>2, <1>4, OthersKept
<1> QED
  BY <1>1, <1>3, <1>5, CacheKept

\* The refresh chooses a current release; the file of the points does not change it.
LEMMA ReadMetadataStep ==
    ASSUME ForecastInv, NEW w \in Refreshers, ReadMetadata(w)
    PROVE  ForecastInv'
<1>1. CASE RELEASE(w) /\ UNCHANGED <<published, cell, viewer>>
  BY <1>1, ReleaseStep
<1>2. CASE ~(RELEASE(w) /\ UNCHANGED <<published, cell, viewer>>)
  <2>1. PICK now, r, v : /\ now = refresher[w].now /\ r = select_release(now)
                         /\ v = [release |-> r, places |-> places]
    OBVIOUS
  <2>2. /\ r # Missing /\ release_state(ReleasedAt[r], now) = "current"
        /\ refresher' = [refresher EXCEPT ![w] = [at |-> "points", now |-> 0, version |-> v, left |-> {}]]
        /\ UNCHANGED <<hour, offered, places, lease, published, cell, viewer>>
    BY <1>2, <2>1 DEF ReadMetadata
  <2>3. r \in Releases /\ ReleasedAt[r] <= now
    BY <2>1, <2>2, SelectedRelease DEF ForecastInv
  <2>4. hour \in Nat /\ ReleasedAt[r] \in Nat /\ MaxAge \in Nat
    BY <2>3, ForecastAssumption DEF ForecastInv, ForecastTypes
  <2>5. lease = w => JustCurrentAt(v, hour)
    <3>1. SUFFICES ASSUME lease = w PROVE JustCurrentAt(v, hour)
      OBVIOUS
    <3>2. now \in {hour, hour - 1} \cap Nat
      BY <2>1, <3>1 DEF ForecastInv, WorkIsCurrent, WorkOf, ReadMetadata
    <3>3. now <= ReleasedAt[r] + MaxAge
      BY <2>2, <2>3, <2>4, <3>2 DEF release_state
    <3>4. v.release = r
      BY <2>1
    <3> QED
      BY <2>3, <2>4, <3>2, <3>3, <3>4 DEF JustCurrentAt
  <2>6. v \in Version /\ v.release = r
    BY <2>1, <2>3 DEF Version, ForecastInv, ForecastTypes
  <2>7. refresher'[w] = [at |-> "points", now |-> 0, version |-> v, left |-> {}] /\ DOMAIN refresher' = Refreshers
    BY <2>2 DEF ForecastInv, ForecastTypes
  <2>8. \A u \in Refreshers : u # w => refresher'[u] = refresher[u]
    BY <2>2 DEF ForecastInv, ForecastTypes
  <2>9. ForecastTypes'
    BY <2>2, <2>7, <2>8 DEF ForecastInv, ForecastTypes
  <2>10. WorkOf(w)'
    BY <2>2, <2>5, <2>6, <2>7 DEF WorkOf, Busy, AtStep, JustCurrentAt
  <2>11. WorkIsCurrent'
    BY <2>2, <2>8, <2>10, OthersKept
  <2> QED
    BY <2>2, <2>9, <2>11, CacheKept
<1> QED
  BY <1>1, <1>2

\* Downloads change neither the version nor who holds the lease.
LEMMA DownloadStep ==
    ASSUME ForecastInv, NEW w \in Refreshers, DownloadPoints(w) \/ DownloadRadiation(w)
    PROVE  ForecastInv'
<1>1. CASE RELEASE(w) /\ UNCHANGED <<published, cell, viewer>>
  BY <1>1, ReleaseStep
<1>2. CASE ~(RELEASE(w) /\ UNCHANGED <<published, cell, viewer>>)
  <2>1. /\ UNCHANGED <<hour, offered, places, lease, published, cell, viewer>>
        /\ Busy(w)
    BY <1>2 DEF DownloadPoints, DownloadRadiation, AtStep, Busy
  <2>2. PICK v : v = refresher[w].version
    OBVIOUS
  <2>3. /\ DOMAIN refresher' = Refreshers /\ \A u \in Refreshers : u # w => refresher'[u] = refresher[u]
        /\ refresher'[w] = [at |-> refresher'[w].at, now |-> refresher'[w].now, version |-> v, left |-> refresher'[w].left]
        /\ refresher'[w].at \in {"radiation", "writing"}
        /\ refresher'[w].at = "writing" => refresher'[w].left = {p.point : p \in Postal(v.places)}
    <3>1. CASE DownloadPoints(w)
      <4>1. refresher' = [refresher EXCEPT ![w].at = "radiation"]
        BY <1>2, <3>1 DEF DownloadPoints, Steps
      <4> QED
        BY <2>2, <4>1 DEF ForecastInv, ForecastTypes
    <3>2. CASE DownloadRadiation(w)
      <4>1. refresher' = [refresher EXCEPT ![w] =
                 [at |-> "writing", now |-> 0, version |-> v, left |-> {p.point : p \in Postal(v.places)}]]
        BY <1>2, <2>2, <3>2 DEF DownloadRadiation
      <4> QED
        BY <4>1 DEF ForecastInv, ForecastTypes
    <3> QED
      BY <3>1, <3>2
  <2>4. ForecastTypes'
    BY <2>1, <2>3 DEF ForecastInv, ForecastTypes
  <2>5. refresher'[w].version = v
    BY <2>3
  <2>6. v \in Version /\ (lease = w => JustCurrentAt(v, hour))
    BY <2>1, <2>2 DEF ForecastInv, WorkIsCurrent, WorkOf
  <2>7. refresher'[w].at = "writing" => \A p \in Postal(v.places) : p.point \in refresher'[w].left
    BY <2>3
  <2>8. WorkOf(w)'
    BY <2>1, <2>3, <2>5, <2>6, <2>7 DEF WorkOf, Busy, AtStep, JustCurrentAt
  <2>9. WorkIsCurrent'
    BY <2>1, <2>3, <2>8, OthersKept
  <2> QED
    BY <2>1, <2>4, <2>9, CacheKept
<1> QED
  BY <1>1, <1>2

\* A point is written under the key of its version; it is as young as can be.
LEMMA WritePointStep ==
    ASSUME ForecastInv, NEW w \in Refreshers, NEW p \in refresher[w].left, WritePoint(w, p)
    PROVE  ForecastInv'
<1>1. PICK v, key, new : /\ v = refresher[w].version /\ key = <<v, p>>
                         /\ new = [key |-> key, version |-> v, point |-> p, left |-> CacheHours]
  OBVIOUS
<1>2. /\ UNCHANGED <<hour, offered, places, lease, published, viewer>>
      /\ cell' = {c \in cell : c.key # key} \cup {new}
      /\ refresher[w].at = "writing"
      /\ refresher' = [refresher EXCEPT ![w].left = @ \ {p}]
  BY <1>1 DEF WritePoint, AtStep, point_key
<1>3. /\ DOMAIN refresher' = Refreshers /\ \A u \in Refreshers : u # w => refresher'[u] = refresher[u]
      /\ refresher'[w] = [at |-> "writing", now |-> refresher[w].now, version |-> v, left |-> refresher[w].left \ {p}]
  <2>1. /\ DOMAIN refresher = Refreshers
        /\ refresher[w] = [at |-> "writing", now |-> refresher[w].now, version |-> v, left |-> refresher[w].left]
    BY <1>1, <1>2 DEF ForecastInv, ForecastTypes
  <2>2. refresher'[w] = [refresher[w] EXCEPT !.left = refresher[w].left \ {p}]
    BY <1>2, <2>1
  <2>3. refresher'[w] = [at |-> "writing", now |-> refresher[w].now, version |-> v, left |-> refresher[w].left \ {p}]
    <3>1. PICK old, rest : old = refresher[w] /\ rest = refresher[w].left \ {p}
      OBVIOUS
    <3>2. /\ refresher'[w] = [old EXCEPT !.left = rest]
          /\ old = [at |-> "writing", now |-> old.now, version |-> v, left |-> old.left]
      BY <2>1, <2>2, <3>1
    <3> QED
      BY <3>1, <3>2
  <2>4. DOMAIN refresher' = Refreshers /\ \A u \in Refreshers : u # w => refresher'[u] = refresher[u]
    BY <1>2, <2>1
  <2> QED
    BY <2>3, <2>4
<1>4. CacheHours \in Nat /\ CacheHours \in 1 .. CacheHours
  BY ForecastAssumption
<1>5. new.key = key /\ new.left = CacheHours /\ new.version = v /\ new.point = p /\ new \in cell'
  BY <1>1, <1>2
<1>6. \A c \in cell : c.left \in 1 .. CacheHours
  BY DEF ForecastInv, ForecastTypes
<1>7. \A c \in cell : \E d \in cell' : d.key = c.key /\ c.left <= d.left /\ (c.left = CacheHours => d.left = CacheHours)
  BY <1>2, <1>4, <1>5, <1>6
<1>8. ForecastTypes'
  <2>1. \A c \in cell' :
            /\ c = [key |-> <<c.version, c.point>>, version |-> c.version, point |-> c.point, left |-> c.left]
            /\ c.left \in 1 .. CacheHours
    BY <1>1, <1>2, <1>4 DEF ForecastInv, ForecastTypes
  <2>2. \A u \in Refreshers :
            refresher'[u] = [at |-> refresher'[u].at, now |-> refresher'[u].now, version |-> refresher'[u].version, left |-> refresher'[u].left]
    BY <1>3 DEF ForecastInv, ForecastTypes
  <2> QED
    BY <1>2, <1>3, <2>1, <2>2 DEF ForecastInv, ForecastTypes
<1>9. HeaderIsWhole'
  <2>1. SUFFICES ASSUME published # Missing, NEW q \in Postal(published.version.places)
                 PROVE  \E c \in cell' : c.key = <<published.version, q.point>> /\ published.left <= c.left
    BY <1>2 DEF ForecastInv, HeaderIsWhole
  <2>2. PICK c \in cell : c.key = <<published.version, q.point>> /\ published.left <= c.left
    BY <2>1 DEF ForecastInv, HeaderIsWhole
  <2>3. PICK d \in cell' : d.key = c.key /\ c.left <= d.left
    BY <1>7
  <2>4. published.left \in Nat
    BY <1>4, <2>1 DEF ForecastInv, ForecastTypes, Header
  <2>5. c.left \in Nat /\ d.left \in Nat
    BY <1>4, <1>8 DEF ForecastInv, ForecastTypes
  <2> QED
    BY <2>2, <2>3, <2>4, <2>5
<1>10. WorkOf(w)'
  <2>1. WorkOf(w)
    BY DEF ForecastInv, WorkIsCurrent
  <2>2. refresher'[w].version = v /\ refresher'[w].at = "writing" /\ refresher'[w].left = refresher[w].left \ {p}
    BY <1>3
  <2>3. Busy(w) /\ Busy(w)'
    BY <1>2, <2>2 DEF Busy
  <2>4. ASSUME lease = w, NEW q \in Postal(v.places), q.point \notin refresher'[w].left
        PROVE  \E c \in cell' : c.key = <<v, q.point>> /\ c.left = CacheHours
    <3>1. CASE q.point = p
      BY <1>1, <1>5, <3>1
    <3>2. CASE q.point # p
      <4>1. PICK c \in cell : c.key = <<v, q.point>> /\ c.left = CacheHours
        BY <1>1, <1>2, <2>1, <2>2, <2>4, <3>2 DEF WorkOf
      <4> QED
        BY <1>7, <4>1
    <3> QED
      BY <3>1, <3>2
  <2> QED
    <3>1. v \in Version /\ (lease = w => JustCurrentAt(v, hour)) /\ hour' = hour /\ lease' = lease
      BY <1>1, <1>2, <2>1, <2>3 DEF WorkOf
    <3>2. lease = w => JustCurrentAt(v, hour')
      BY <3>1
    <3> QED
      BY <2>2, <2>4, <3>1, <3>2 DEF WorkOf, JustCurrentAt, AtStep
<1>11. WorkIsCurrent'
  BY <1>2, <1>3, <1>7, <1>10, OthersKept
<1>12. PagesAreOfHeaders' /\ ShownIsOfficial'
  BY <1>2 DEF ForecastInv, PagesAreOfHeaders, ShownIsOfficial
<1> QED
  BY <1>8, <1>9, <1>11, <1>12 DEF ForecastInv

\* The header: what it announces was written in this hour, and is later than any
\* release a page still is about.
LEMMA PublishStep ==
    ASSUME ForecastInv, NEW w \in Refreshers, PUBLISH(w)
    PROVE  ForecastInv'
<1>1. RELEASE(w) /\ UNCHANGED <<hour, offered, places, cell, viewer>> /\ refresher[w].at = "writing"
      /\ refresher[w].left = {}
  BY DEF PUBLISH, RELEASE, AtStep
<1>2. CASE ~Publishes(w)
  <2>1. published' = published
    BY <1>2 DEF PUBLISH
  <2> QED
    BY <1>1, <2>1, ReleaseStep
<1>3. CASE Publishes(w)
  <2>1. PICK v : v = refresher[w].version
    OBVIOUS
  <2>2. published' = [version |-> v, left |-> CacheHours]
    BY <1>3, <2>1 DEF PUBLISH
  <2>3. /\ lease = w /\ v \in Version /\ JustCurrentAt(v, hour)
        /\ \A p \in Postal(v.places) : \E c \in cell : c.key = <<v, p.point>> /\ c.left = CacheHours
    BY <1>1, <1>3, <2>1 DEF ForecastInv, WorkIsCurrent, WorkOf, Busy, Publishes
  <2>4. published' \in Header /\ published' # Missing
    BY <2>2, <2>3, ForecastAssumption, MissingAssumption DEF Header
  <2>5. published'.version = v /\ published'.left = CacheHours
    BY <2>2
  <2>6. /\ hour \in Nat /\ ReleasedAt[v.release] \in Nat /\ CacheHours \in Nat /\ MaxAge \in Nat
        /\ ReleasedAt[v.release] <= hour /\ hour <= ReleasedAt[v.release] + MaxAge + 1 /\ MaxAge < CacheHours
    BY <2>3, ReleaseHour, ForecastAssumption DEF ForecastInv, ForecastTypes, JustCurrentAt
  <2>7. HeaderIsWhole'
    <3>1. \A p \in Postal(v.places) : \E c \in cell' : c.key = <<v, p.point>> /\ CacheHours <= c.left
      <4>1. SUFFICES ASSUME NEW p \in Postal(v.places)
                     PROVE  \E c \in cell : c.key = <<v, p.point>> /\ CacheHours <= c.left
        BY <1>1
      <4>2. PICK c \in cell : c.key = <<v, p.point>> /\ c.left = CacheHours
        BY <2>3
      <4>3. CacheHours <= CacheHours
        BY <2>6
      <4> QED
        BY <4>2, <4>3
    <3>2. ReleasedAt[v.release] + CacheHours <= hour' + CacheHours
      BY <1>1, <2>6
    <3> QED
      BY <2>5, <3>1, <3>2 DEF HeaderIsWhole
  <2>8. /\ refresher' = [refresher EXCEPT ![w] = RefreshDone]
        /\ lease' = lease \/ lease' = Missing
    BY <1>1 DEF RELEASE
  <2>9. ForecastTypes'
    BY <1>1, <2>4, <2>8 DEF ForecastInv, ForecastTypes, RefreshDone
  <2>10. WorkIsCurrent'
    <3>1. \A u \in Refreshers : u # w => refresher'[u] = refresher[u] /\ (lease' = u => lease = u)
      BY <2>8, ForecastAssumption DEF ForecastInv, ForecastTypes
    <3>2. refresher'[w].at = "rest"
      BY <2>8 DEF RefreshDone, ForecastInv, ForecastTypes
    <3>3. WorkOf(w)'
      BY <3>2 DEF WorkOf, Busy, AtStep
    <3> QED
      BY <1>1, <3>1, <3>3, OthersKept
  <2>11. PagesAreOfHeaders'
    <3>1. SUFFICES ASSUME NEW x \in Viewers, viewer[x] # Away
                   PROVE  ReleasedAt[viewer[x].version.release] <= ReleasedAt[v.release]
      BY <1>1, <2>4, <2>5 DEF ForecastInv, PagesAreOfHeaders
    <3>2. viewer[x].version \in Version
      BY <3>1 DEF ForecastInv, PagesAreOfHeaders
    <3>3. ReleasedAt[viewer[x].version.release] \in Nat
      BY <3>2, ReleaseHour
    <3>4. CASE published = Missing
      <4>1. ReleasedAt[viewer[x].version.release] + CacheHours <= hour
        BY <3>1, <3>4 DEF ForecastInv, PagesAreOfHeaders
      <4> QED
        BY <2>6, <3>3, <4>1
    <3>5. CASE published # Missing
      <4>1. ReleasedAt[viewer[x].version.release] <= ReleasedAt[published.version.release]
        BY <3>1, <3>5 DEF ForecastInv, PagesAreOfHeaders
      <4>2. ReleasedAt[published.version.release] <= ReleasedAt[v.release]
        BY <1>3, <2>1, <3>5 DEF Publishes
      <4>3. published.version \in Version
        BY <3>5 DEF ForecastInv, ForecastTypes, Header
      <4>4. ReleasedAt[published.version.release] \in Nat
        BY <4>3, ReleaseHour
      <4> QED
        BY <2>6, <3>3, <4>1, <4>2, <4>4
    <3> QED
      BY <3>4, <3>5
  <2>12. ShownIsOfficial'
    BY <1>1 DEF ForecastInv, ShownIsOfficial
  <2> QED
    BY <2>7, <2>9, <2>10, <2>11, <2>12 DEF ForecastInv
<1> QED
  BY <1>2, <1>3

\* A member asks for the page of a current release, reads its point and leaves.
LEMMA PageStep ==
    ASSUME ForecastInv, NEW x \in Viewers, view(x) \/ ReadPoint(x) \/ LeavePage(x)
    PROVE  ForecastInv'
<1>1. /\ UNCHANGED <<hour, offered, places, lease, cooled, published, cell, refresher>>
      /\ DOMAIN viewer = Viewers
  BY DEF view, ReadPoint, LeavePage, ForecastInv, ForecastTypes
<1>2. DOMAIN viewer' = Viewers /\ \A y \in Viewers : y # x => viewer'[y] = viewer[y]
  BY <1>1 DEF view, ReadPoint, LeavePage
<1>3. ForecastTypes' /\ HeaderIsWhole' /\ WorkIsCurrent'
  <2>1. ForecastTypes' /\ HeaderIsWhole'
    BY <1>1, <1>2 DEF ForecastInv, ForecastTypes, HeaderIsWhole
  <2>2. WorkIsCurrent'
    BY <1>1 DEF ForecastInv, WorkIsCurrent, WorkOf, Busy, AtStep, JustCurrentAt
  <2> QED
    BY <2>1, <2>2
<1>4. CASE viewer'[x] = Away
  BY <1>1, <1>2, <1>3, <1>4 DEF ForecastInv, PagesAreOfHeaders, ShownIsOfficial, Away
<1>5. CASE view(x)
  <2>1. /\ viewer'[x] = [at |-> "located", version |-> published.version, now |-> hour, seen |-> {}]
        /\ published # Missing /\ release_state(ReleasedAt[published.version.release], hour) = "current"
    BY <1>1, <1>5 DEF view
  <2>2. published.version \in Version
    BY <2>1 DEF ForecastInv, ForecastTypes, Header
  <2>3. ReleasedAt[published.version.release] \in Nat /\ hour \in Nat /\ MaxAge \in Nat
    BY <2>2, ReleaseHour, ForecastAssumption DEF ForecastInv, ForecastTypes
  <2>4. CurrentAt(published.version, hour)
    BY <2>1, <2>3 DEF release_state, CurrentAt
  <2>5. viewer'[x].version = published.version /\ viewer'[x].now = hour /\ viewer'[x].at = "located"
    BY <2>1
  <2>6. PagesAreOfHeaders'
    BY <1>1, <1>2, <2>1, <2>2, <2>3, <2>4, <2>5 DEF ForecastInv, PagesAreOfHeaders, CurrentAt
  <2>7. ShownIsOfficial'
    BY <1>1, <1>2, <2>5 DEF ForecastInv, ShownIsOfficial
  <2> QED
    BY <1>3, <2>6, <2>7 DEF ForecastInv
<1>6. CASE ReadPoint(x) /\ viewer'[x] # Away
  <2>1. PICK v, now, point, rows : /\ v = viewer[x].version /\ now = viewer[x].now
                                   /\ point = nearest_point(v.places)
                                   /\ rows = UNION {ReadingsOf(c.version, c.point) : c \in {d \in cell : d.key = <<v, point>>}}
    OBVIOUS
  <2>2. PICK seen : seen = {row \in rows : row.end \in Shown(now)}
    OBVIOUS
  <2>3. /\ viewer[x].at = "located" /\ seen # {}
        /\ viewer'[x] = [at |-> "shown", version |-> v, now |-> now, seen |-> seen]
    BY <1>1, <1>6, <2>1, <2>2 DEF ReadPoint, point_key
  <2>4. viewer[x] # Away
    BY <2>3 DEF Away
  <2>5. viewer'[x].version = v /\ viewer'[x].now = now /\ viewer'[x].at = "shown" /\ viewer'[x].seen = seen
    BY <2>3
  <2>6. \A c \in cell : c.key = <<v, point>> => c.version = v /\ c.point = point
    BY DEF ForecastInv, ForecastTypes
  <2>7. \A c \in {d \in cell : d.key = <<v, point>>} : ReadingsOf(c.version, c.point) = ReadingsOf(v, point)
    BY <2>6
  <2>8. PICK row \in rows : TRUE
    BY <2>2, <2>3
  <2>9. rows = ReadingsOf(v, point)
    BY <2>1, <2>7, <2>8
  <2>10. v \in Version /\ now \in Nat /\ CurrentAt(v, now)
    BY <2>1, <2>4 DEF ForecastInv, PagesAreOfHeaders
  <2>11. ReleasedAt[v.release] \in Nat /\ MaxAge \in Nat
    BY <2>10, ReleaseHour, ForecastAssumption
  <2>12. release_state(ReleasedAt[v.release], now) = "current"
    BY <2>10, <2>11 DEF CurrentAt, release_state
  <2>13. PagesAreOfHeaders'
    BY <1>1, <1>2, <2>1, <2>4, <2>5 DEF ForecastInv, PagesAreOfHeaders, CurrentAt
  <2>14. ShownIsOfficial'
    BY <1>2, <2>1, <2>2, <2>5, <2>9, <2>12 DEF ForecastInv, ShownIsOfficial
  <2> QED
    BY <1>3, <2>13, <2>14 DEF ForecastInv
<1> QED
  BY <1>1, <1>4, <1>5, <1>6 DEF LeavePage

\* The source changes, or a lease or a cooldown ends.
LEMMA OutsideStep ==
    ASSUME ForecastInv, SourceChanges \/ LeaseEnds \/ CooldownEnds
    PROVE  ForecastInv'
<1>1. UNCHANGED <<hour, published, cell, refresher, viewer>> /\ (lease' = lease \/ lease' = Missing)
  BY DEF SourceChanges, LeaseEnds, CooldownEnds
<1>2. offered' \subseteq Releases /\ places' \in PlacesFiles
  BY DEF SourceChanges, LeaseEnds, CooldownEnds, Offers, ForecastInv, ForecastTypes
<1>3. ForecastTypes'
  BY <1>1, <1>2 DEF ForecastInv, ForecastTypes
<1>4. WorkIsCurrent'
  BY <1>1, ForecastAssumption DEF ForecastInv, WorkIsCurrent, WorkOf, Busy, AtStep, JustCurrentAt
<1> QED
  BY <1>1, <1>3, <1>4, CacheKept

\* An hour passes: every lease of it is over, and the header goes before its cells.
LEMMA HourStep ==
    ASSUME ForecastInv, HourPasses
    PROVE  ForecastInv'
<1>1. /\ hour' = hour + 1 /\ hour \in Nat /\ lease' = Missing
      /\ cell' = {[c EXCEPT !.left = @ - 1] : c \in {d \in cell : d.left > 1}}
      /\ published' = IF published = Missing \/ published.left = 1 THEN Missing
                      ELSE [published EXCEPT !.left = @ - 1]
      /\ UNCHANGED <<offered, places, refresher, viewer>> /\ CacheHours \in Nat
  BY ForecastAssumption DEF HourPasses, ForecastInv, ForecastTypes
<1>2. ASSUME NEW c \in cell, c.left > 1
      PROVE  \E d \in cell' : d.key = c.key /\ d.left = c.left - 1
  <2>1. PICK d : d = [c EXCEPT !.left = @ - 1]
    OBVIOUS
  <2>2. d \in cell'
    BY <1>1, <1>2, <2>1
  <2>3. c = [key |-> <<c.version, c.point>>, version |-> c.version, point |-> c.point, left |-> c.left]
    BY DEF ForecastInv, ForecastTypes
  <2>4. d.key = c.key /\ d.left = c.left - 1
    BY <2>1, <2>3
  <2> QED
    BY <2>2, <2>4
<1>3. ASSUME NEW d \in cell'
      PROVE  /\ d = [key |-> <<d.version, d.point>>, version |-> d.version, point |-> d.point, left |-> d.left]
             /\ d.left \in 1 .. CacheHours
  <2>1. PICK c \in cell : c.left > 1 /\ d = [c EXCEPT !.left = @ - 1]
    BY <1>1
  <2>2. /\ c = [key |-> <<c.version, c.point>>, version |-> c.version, point |-> c.point, left |-> c.left]
        /\ c.left \in 1 .. CacheHours
    BY DEF ForecastInv, ForecastTypes
  <2>3. d = [key |-> <<c.version, c.point>>, version |-> c.version, point |-> c.point, left |-> c.left - 1]
    BY <2>1, <2>2
  <2> QED
    BY <1>1, <2>1, <2>2, <2>3
<1>4. published' # Missing =>
          /\ published # Missing /\ published \in Header /\ published.left > 1 /\ published.left \in 1 .. CacheHours
          /\ published' = [version |-> published.version, left |-> published.left - 1]
  BY <1>1 DEF ForecastInv, ForecastTypes, Header
<1>5. published' \in Header \cup {Missing}
  BY <1>1, <1>4 DEF Header
<1>6. ForecastTypes'
  BY <1>1, <1>3, <1>5 DEF ForecastInv, ForecastTypes
<1>7. WorkIsCurrent'
  BY <1>1, ForecastAssumption DEF ForecastInv, WorkIsCurrent, WorkOf, Busy, AtStep
<1>8. HeaderIsWhole'
  <2>1. SUFFICES ASSUME published' # Missing
                 PROVE  /\ \A p \in Postal(published'.version.places) :
                               \E c \in cell' : c.key = <<published'.version, p.point>> /\ published'.left <= c.left
                        /\ ReleasedAt[published'.version.release] + CacheHours <= hour' + published'.left
    BY DEF HeaderIsWhole
  <2>2. /\ published # Missing /\ published.left > 1 /\ published.left \in Nat
        /\ published'.version = published.version /\ published'.left = published.left - 1
        /\ published.version \in Version
    BY <1>1, <1>4, <2>1 DEF Header
  <2>3. ReleasedAt[published.version.release] \in Nat
    BY <2>2, ReleaseHour
  <2>4. ReleasedAt[published.version.release] + CacheHours <= hour + published.left
    BY <2>2 DEF ForecastInv, HeaderIsWhole
  <2>5. ASSUME NEW p \in Postal(published.version.places)
        PROVE  \E c \in cell' : c.key = <<published.version, p.point>> /\ published.left - 1 <= c.left
    <3>1. PICK c \in cell : c.key = <<published.version, p.point>> /\ published.left <= c.left
      BY <2>2, <2>5 DEF ForecastInv, HeaderIsWhole
    <3>2. c.left \in Nat /\ c.left > 1
      BY <1>1, <2>2, <3>1 DEF ForecastInv, ForecastTypes
    <3>3. PICK d \in cell' : d.key = c.key /\ d.left = c.left - 1
      BY <1>2, <3>2
    <3> QED
      BY <2>2, <3>1, <3>2, <3>3
  <2>6. ReleasedAt[published.version.release] + CacheHours <= (hour + 1) + (published.left - 1)
    BY <1>1, <2>2, <2>3, <2>4
  <2> QED
    BY <1>1, <2>2, <2>5, <2>6
<1>9. PagesAreOfHeaders'
  <2>1. SUFFICES ASSUME NEW x \in Viewers, viewer[x] # Away
                 PROVE  /\ viewer[x].version \in Version
                        /\ viewer[x].now \in Nat /\ CurrentAt(viewer[x].version, viewer[x].now)
                        /\ published' # Missing =>
                               ReleasedAt[viewer[x].version.release] <= ReleasedAt[published'.version.release]
                        /\ published' = Missing =>
                               ReleasedAt[viewer[x].version.release] + CacheHours <= hour'
    BY <1>1 DEF PagesAreOfHeaders, CurrentAt
  <2>2. /\ viewer[x].version \in Version
        /\ viewer[x].now \in Nat /\ CurrentAt(viewer[x].version, viewer[x].now)
        /\ published # Missing =>
               ReleasedAt[viewer[x].version.release] <= ReleasedAt[published.version.release]
        /\ published = Missing => ReleasedAt[viewer[x].version.release] + CacheHours <= hour
    BY <2>1 DEF ForecastInv, PagesAreOfHeaders
  <2>3. ReleasedAt[viewer[x].version.release] \in Nat
    BY <2>2, ReleaseHour
  <2>4. published' # Missing => published'.version = published.version /\ published # Missing
    BY <1>4
  <2>5. ASSUME published' = Missing, published # Missing
        PROVE  ReleasedAt[viewer[x].version.release] + CacheHours <= hour'
    <3>1. published.version \in Version /\ published.left = 1
      <4>1. CASE published.left = 1
        BY <2>5, <4>1 DEF ForecastInv, ForecastTypes, Header
      <4>2. CASE published.left # 1
        <5>1. published \in Header
          BY <2>5 DEF ForecastInv, ForecastTypes
        <5>2. published' = [version |-> published.version, left |-> published.left - 1]
          BY <1>1, <2>5, <4>2, <5>1 DEF Header
        <5>3. published' \in Header
          BY <1>1, <4>2, <5>1, <5>2 DEF Header
        <5> QED
          BY <2>5, <5>3, MissingAssumption
      <4> QED
        BY <4>1, <4>2
    <3>2. ReleasedAt[published.version.release] + CacheHours <= hour + 1
      BY <2>5, <3>1 DEF ForecastInv, HeaderIsWhole
    <3>3. ReleasedAt[published.version.release] \in Nat
      BY <3>1, ReleaseHour
    <3> QED
      BY <1>1, <2>2, <2>3, <2>5, <3>2, <3>3
  <2> QED
    BY <1>1, <2>2, <2>3, <2>4, <2>5
<1>10. ShownIsOfficial'
  BY <1>1 DEF ForecastInv, ShownIsOfficial
<1> QED
  BY <1>6, <1>7, <1>8, <1>9, <1>10 DEF ForecastInv

\* Every step of the refreshes, of the pages and of time keeps the invariant.
LEMMA ForecastInvStep == ForecastInv /\ [ForecastNext]_forecastVars => ForecastInv'
<1>1. SUFFICES ASSUME ForecastInv, [ForecastNext]_forecastVars
               PROVE  ForecastInv'
  OBVIOUS
<1>2. ASSUME NEW w \in Refreshers, Fails(w)
      PROVE  ForecastInv'
  BY <1>1, <1>2, ReleaseStep DEF Fails
<1>3. CASE UNCHANGED forecastVars
  <2>1. UNCHANGED <<hour, offered, places, lease, published, cell, refresher, viewer>>
    BY <1>3 DEF forecastVars
  <2>2. ForecastTypes' /\ WorkIsCurrent'
    BY <1>1, <2>1 DEF ForecastInv, ForecastTypes, WorkIsCurrent, WorkOf, Busy, AtStep, JustCurrentAt, CurrentAt
  <2> QED
    BY <1>1, <2>1, <2>2, CacheKept
<1>4. ASSUME NEW w \in Refreshers, RefresherDies(w)
      PROVE  ForecastInv'
  <2>1. hour \in {hour, hour - 1} \cap Nat
    BY <1>1 DEF ForecastInv, ForecastTypes
  <2> QED
    BY <1>1, <1>4, <2>1, LeaseStep
<1>5. ASSUME NEW w \in Refreshers, NEW called \in {hour, hour - 1} \cap Nat, TakeLease(w, called)
      PROVE  ForecastInv'
  BY <1>1, <1>5, LeaseStep
<1> QED
  BY <1>1, <1>2, <1>3, <1>4, <1>5, ReadMetadataStep, DownloadStep, WritePointStep, PublishStep,
     PageStep, OutsideStep, HourStep
     DEF ForecastNext

\* What a page shows is what one official release, current when the page was
\* asked for, says of the nearest point; the header has all its points; and no
\* page is about a later release than the header that replaced its own.
THEOREM ForecastStandsHolds == ForecastSpec => []ForecastStands
<1>1. ForecastInv => ForecastStands
  <2>1. SUFFICES ASSUME ForecastInv PROVE ForecastStands
    OBVIOUS
  <2>2. published # Missing => Present(published.version)
    BY <2>1 DEF ForecastInv, HeaderIsWhole, Present, point_key
  <2> QED
    BY <2>1, <2>2 DEF ForecastInv, PagesAreOfHeaders, ForecastStands
<1> QED
  BY <1>1, ForecastInvInit, ForecastInvStep, PTL DEF ForecastSpec

-----------------------------------------------------------------------------
(* The import of meter data.  Whoever works for the application holds the   *)
(* lock, and what it believes imported is in the ledger.                    *)

\* What a run believes imported is imported, and what it stored is there when it
\* comes to be recorded.
WorkIsKnown ==
    \A p \in Processes :
        /\ proc[p].index \subseteq ledger
        /\ At(p, "record") =>
               /\ proc[p].todo # {}
               /\ \A s \in Covers[NextEntry(p)[1]] : reading[s] # 0

\* The inductive invariant behind ImportsAreWhole, PackedIsSettled and AnswerIsDurable.
ImportInv == TypeOK /\ OneRunAtATime /\ LedgeredIsStored /\ PackedIsSettled /\ WorkIsKnown

\* The entry that is next is the earliest one of the list.
LEMMA NextIsEarliest ==
    ASSUME TypeOK, NEW p \in Processes, proc[p].todo # {}
    PROVE  /\ NextEntry(p) \in proc[p].todo
           /\ \A d \in proc[p].todo \ {NextEntry(p)} : Earlier(NextEntry(p), d)
<1>1. PICK todo : todo = proc[p].todo
  OBVIOUS
<1>2. todo \subseteq (1 .. NumFiles) \X BOOLEAN /\ NumFiles \in Nat
  BY <1>1, ImportAssumption DEF TypeOK, Entries, Files
<1>3. \A e \in todo : e = <<e[1], e[2]>> /\ e[1] \in Nat /\ e[2] \in BOOLEAN
  BY <1>2
<1>4. PICK T : T = {2 * e[1] + (IF e[2] THEN 1 ELSE 0) : e \in todo}
  OBVIOUS
<1>5. \A e \in todo : 2 * e[1] + (IF e[2] THEN 1 ELSE 0) \in Nat
  BY <1>3
<1>6. T \subseteq Nat /\ T # {}
  BY <1>1, <1>4, <1>5
<1>7. PICK t \in T : \A y \in T : t <= y
  BY <1>6, LeastNatural
<1>8. PICK e \in todo : t = 2 * e[1] + (IF e[2] THEN 1 ELSE 0)
  BY <1>4, <1>7
<1>9. ASSUME NEW d \in todo \ {e}
      PROVE  Earlier(e, d)
  <2>1. 2 * e[1] + (IF e[2] THEN 1 ELSE 0) <= 2 * d[1] + (IF d[2] THEN 1 ELSE 0)
    BY <1>4, <1>7, <1>8
  <2>2. /\ e = <<e[1], e[2]>> /\ d = <<d[1], d[2]>> /\ e # d
        /\ e[1] \in Nat /\ d[1] \in Nat /\ e[2] \in BOOLEAN /\ d[2] \in BOOLEAN
    BY <1>3
  <2>3. e[1] < d[1] \/ e[1] = d[1]
    BY <2>1, <2>2
  <2>4. ASSUME e[1] = d[1]
        PROVE  ~e[2] /\ d[2]
    <3>1. ~(e[2] /\ ~d[2])
      BY <2>1, <2>2, <2>4
    <3>2. ~(e[2] /\ d[2]) /\ ~(~e[2] /\ ~d[2])
      BY <2>2, <2>4, Zenon
    <3> QED
      BY <2>2, <3>1, <3>2
  <2> QED
    BY <2>3, <2>4 DEF Earlier
<1>10. \E x \in todo : \A d \in todo \ {x} : Earlier(x, d)
  BY <1>9
<1>11. NextEntry(p) = CHOOSE x \in todo : \A d \in todo \ {x} : Earlier(x, d)
  BY <1>1 DEF NextEntry
<1> QED
  BY <1>1, <1>10, <1>11

\* The entry depends on the list alone.
LEMMA NextEntryKept ==
    ASSUME NEW p, proc'[p].todo = proc[p].todo
    PROVE  NextEntry(p)' = NextEntry(p)
BY DEF NextEntry, Earlier

\* A run of the import: where it is, under which key, and what it holds.
Runs == [at : PlaceNames, key : Keys \cup {NoKey}, today : BOOLEAN, attempt : 0..MaxAttempts,
         todo : SUBSET Entries, index : SUBSET Files, bad : BOOLEAN]

\* Every run is a record of the fields a run has.
LEMMA RunsOfTypes == TypeOK => proc \in [Processes -> Runs]
BY DEF TypeOK, Runs

\* The places of a run.
LEMMA Places ==
    /\ "idle" \in PlaceNames /\ "acquire" \in PlaceNames /\ "fetch" \in PlaceNames
    /\ "list" \in PlaceNames /\ "import" \in PlaceNames /\ "record" \in PlaceNames
    /\ "report" \in PlaceNames /\ "complete" \in PlaceNames /\ "release" \in PlaceNames
BY DEF PlaceNames

\* A run that starts, and one that ends.
LEMMA FreshRun ==
    /\ Idle \in Runs
    /\ \A at \in PlaceNames : [Idle EXCEPT !.at = at] \in Runs
    /\ \A at \in PlaceNames, k \in Keys : [Idle EXCEPT !.at = at, !.key = k] \in Runs
<1>1. 0 \in 0..MaxAttempts /\ NoKey \in Keys \cup {NoKey} /\ {} \in SUBSET Entries /\ {} \in SUBSET Files
  BY ImportAssumption
<1>2. Idle \in Runs
  BY <1>1, Places DEF Idle, Runs
<1> QED
  BY <1>2 DEF Runs

\* Before the first delivery the tables are empty.
LEMMA ImportTypesInit == Init => TypeOK
<1>1. SUFFICES ASSUME Init PROVE TypeOK
  OBVIOUS
<1>2. proc \in [Processes -> Runs]
  BY <1>1, FreshRun DEF Init
<1>3. 0 \in 0..NumFiles /\ 0 \in 0..MaxFaults /\ 0 \in 0..MaxExpiries
  BY ImportAssumption
<1> QED
  BY <1>1, <1>2, <1>3 DEF Init, TypeOK, Runs

\* Another attempt, or the report of the last one.
LEMMA AttemptTypes ==
    ASSUME TypeOK, NEW p \in Processes, NextAttempt(p)
    PROVE  proc' \in [Processes -> Runs]
<1>1. PICK r : r = proc[p]
  OBVIOUS
<1>2. r \in Runs /\ MaxAttempts \in Nat
  BY <1>1, RunsOfTypes, ImportAssumption
<1>3. CASE r.attempt < MaxAttempts
  <2>1. PICK next : next = r.attempt + 1
    OBVIOUS
  <2>2. next \in 0..MaxAttempts
    BY <1>2, <1>3, <2>1 DEF Runs
  <2>3. [r EXCEPT !.at = "fetch", !.attempt = next, !.todo = {}, !.index = {}, !.bad = FALSE] \in Runs
    BY <1>2, <2>2, Places DEF Runs
  <2>4. proc' = [proc EXCEPT ![p] =
                    [r EXCEPT !.at = "fetch", !.attempt = next, !.todo = {}, !.index = {}, !.bad = FALSE]]
    BY <1>1, <1>3, <2>1, RunsOfTypes DEF NextAttempt
  <2> QED
    BY <2>3, <2>4, RunsOfTypes
<1>4. CASE ~(r.attempt < MaxAttempts)
  <2>1. [r EXCEPT !.at = "report", !.bad = TRUE] \in Runs
    BY <1>2, Places DEF Runs
  <2>2. proc' = [proc EXCEPT ![p] = [r EXCEPT !.at = "report", !.bad = TRUE]]
    BY <1>1, <1>4, RunsOfTypes DEF NextAttempt
  <2> QED
    BY <2>1, <2>2, RunsOfTypes
<1> QED
  BY <1>3, <1>4

\* A run that only goes on keeps its type.
LEMMA GoTypes ==
    ASSUME TypeOK, NEW p \in Processes, NEW place \in PlaceNames, Go(p, place)
    PROVE  proc' \in [Processes -> Runs]
BY RunsOfTypes DEF Go, Runs

\* So does one that drops an entry of its list.
LEMMA DropTypes ==
    ASSUME TypeOK, NEW p \in Processes, NEW e, NEW wrong \in BOOLEAN, Drop(p, e, wrong)
    PROVE  proc' \in [Processes -> Runs]
<1>1. PICK r : r = proc[p]
  OBVIOUS
<1>2. r \in Runs
  BY <1>1, RunsOfTypes
<1>3. [r EXCEPT !.at = "import", !.todo = @ \ {e}, !.bad = @ \/ wrong] \in Runs
  BY <1>2 DEF Runs, PlaceNames
<1>4. proc' = [proc EXCEPT ![p] = [r EXCEPT !.at = "import", !.todo = @ \ {e}, !.bad = @ \/ wrong]]
  BY <1>1, <1>2, RunsOfTypes DEF Drop
<1> QED
  BY <1>3, <1>4, RunsOfTypes

\* What an entry leaves behind: a shorter list; and what goes on keeps its list.
LEMMA DropFields ==
    ASSUME TypeOK, NEW p \in Processes, NEW e, NEW wrong, Drop(p, e, wrong)
    PROVE  /\ proc'[p].at = "import" /\ proc'[p].todo = proc[p].todo \ {e} /\ proc'[p].index = proc[p].index
           /\ \A q \in Processes : q # p => proc'[q] = proc[q]
BY RunsOfTypes DEF Drop, Runs

\* Going on to another step changes the step of one process.
LEMMA GoFields ==
    ASSUME TypeOK, NEW p \in Processes, NEW place, Go(p, place)
    PROVE  /\ proc'[p].at = place /\ proc'[p].todo = proc[p].todo /\ proc'[p].index = proc[p].index
           /\ \A q \in Processes : q # p => proc'[q] = proc[q]
BY RunsOfTypes DEF Go, Runs

\* What is packed stays in the directory.
LEMMA PackTypes ==
    ASSUME TypeOK, NEW e, Pack(e)
    PROVE  /\ plain' \in SUBSET Files /\ packed' \in SUBSET Files
           /\ plain' \cup packed' = plain \cup packed /\ packed \subseteq packed'
           /\ packed' \subseteq packed \cup {e[1]}
BY DEF TypeOK, Pack

\* Failures are counted up to their bound.
LEMMA FaultTypes ==
    ASSUME TypeOK, Fault \/ faults' = faults
    PROVE  faults' \in 0..MaxFaults /\ (Fault => faults' # 0)
BY ImportAssumption DEF TypeOK, Fault

\* The tables and the runs keep their types: starting a run.
LEMMA StartTypes ==
    ASSUME TypeOK, NEW p \in Processes,
           \/ run_due(p) \/ admin_run_sdat_schedule(p) \/ StartByHand(p)
           \/ \E k \in Keys : claim_ingestion_retry(p, k)
    PROVE  TypeOK'
<1>1. "acquire" \in PlaceNames /\ "list" \in PlaceNames
  BY DEF PlaceNames
<1>2. proc' \in [Processes -> Runs]
  <2>1. CASE run_due(p) \/ admin_run_sdat_schedule(p)
    BY <1>1, <2>1, RunsOfTypes, FreshRun DEF run_due, admin_run_sdat_schedule
  <2>2. CASE StartByHand(p)
    BY <1>1, <2>2, RunsOfTypes, FreshRun DEF StartByHand
  <2>3. ASSUME NEW k \in Keys, claim_ingestion_retry(p, k)
        PROVE  proc' \in [Processes -> Runs]
    BY <1>1, <2>3, RunsOfTypes, FreshRun DEF claim_ingestion_retry
  <2> QED
    BY <2>1, <2>2, <2>3
<1>3. UNCHANGED <<remote, plain, packed, reading, ledger, lock, ranToday, failures, faults>>
  BY DEF run_due, admin_run_sdat_schedule, StartByHand, claim_ingestion_retry, dirVars, dbVars, runVars
<1>4. answer' \in [Keys -> {"none", "reserved", "answered"}] /\ expiries' \in 0..MaxExpiries
  <2>1. ASSUME NEW k \in Keys, claim_ingestion_retry(p, k)
        PROVE  answer' \in [Keys -> {"none", "reserved", "answered"}] /\ expiries' \in 0..MaxExpiries
    <3>1. answer' = [answer EXCEPT ![k] = "reserved"]
      BY <2>1 DEF claim_ingestion_retry
    <3>2. expiries' = expiries \/ (expiries < MaxExpiries /\ expiries' = expiries + 1)
      BY <2>1 DEF claim_ingestion_retry
    <3> QED
      BY <3>1, <3>2, ImportAssumption DEF TypeOK
  <2>2. CASE run_due(p) \/ admin_run_sdat_schedule(p) \/ StartByHand(p)
    BY <2>2 DEF TypeOK, run_due, admin_run_sdat_schedule, StartByHand, keyVars
  <2> QED
    BY <2>1, <2>2
<1> QED
  BY <1>2, <1>3, <1>4 DEF TypeOK, Runs

\* ... the world outside, and the end of a process.
LEMMA WorldTypes ==
    ASSUME TypeOK, (\E f \in Files : Publish(f)) \/ NewDay \/ (\E p \in Processes : Die(p) \/ EndByHand(p))
    PROVE  TypeOK'
<1>1. CASE \E f \in Files : Publish(f)
  BY <1>1 DEF TypeOK, Publish, dbVars, runVars, keyVars
<1>2. CASE NewDay
  <2>1. \A p \in Processes : [proc[p] EXCEPT !.today = FALSE] \in Runs
    BY RunsOfTypes DEF Runs
  <2>2. proc' \in [Processes -> Runs]
    BY <1>2, <2>1 DEF NewDay
  <2> QED
    BY <1>2, <2>2 DEF TypeOK, NewDay, Runs, dirVars, dbVars, keyVars
<1>3. ASSUME NEW p \in Processes, Die(p)
      PROVE  TypeOK'
  <2>1. proc' \in [Processes -> Runs]
    BY <1>3, RunsOfTypes, FreshRun DEF Die
  <2>2. faults' \in 0..MaxFaults
    BY <1>3, FaultTypes DEF Die
  <2>3. lock' \in Workers \cup {Nobody}
    BY <1>3 DEF Die, TypeOK
  <2> QED
    BY <1>3, <2>1, <2>2, <2>3 DEF TypeOK, Die, Runs, dirVars, dbVars, keyVars
<1>4. ASSUME NEW p \in Processes, EndByHand(p)
      PROVE  TypeOK'
  <2>1. proc' \in [Processes -> Runs]
    BY <1>4, RunsOfTypes, FreshRun DEF EndByHand
  <2> QED
    BY <1>4, <2>1 DEF TypeOK, EndByHand, Runs, dirVars, dbVars, runVars, keyVars
<1> QED
  BY <1>1, <1>2, <1>3, <1>4

\* ... one import.
LEMMA ImportStepTypes ==
    ASSUME TypeOK, WorkIsKnown, NEW p \in Processes, ImportStep(p)
    PROVE  TypeOK'
<1>1. CASE get_sdat_import_index(p)
  <2>1. PICK index \in {ledger, {}} :
            /\ IF index = ledger THEN UNCHANGED faults ELSE Fault
            /\ proc' = [proc EXCEPT ![p].at = "import", ![p].index = index,
                                    ![p].todo = (plain \X {FALSE}) \cup (packed \X {TRUE})]
    BY <1>1 DEF get_sdat_import_index
  <2>2. faults' \in 0..MaxFaults
    BY <2>1, FaultTypes
  <2>3. PICK todo : todo = (plain \X {FALSE}) \cup (packed \X {TRUE})
    OBVIOUS
  <2>4. todo \in SUBSET Entries /\ index \in SUBSET Files
    BY <2>3 DEF TypeOK, Entries
  <2>5. proc' = [proc EXCEPT ![p].at = "import", ![p].index = index, ![p].todo = todo]
    BY <2>1, <2>3
  <2>6. proc' \in [Processes -> Runs]
    <3>1. PICK r : r = proc[p]
      OBVIOUS
    <3>2. r \in Runs
      BY <3>1, RunsOfTypes
    <3>3. [r EXCEPT !.at = "import", !.index = index, !.todo = todo] \in Runs
      BY <2>4, <3>2, Places DEF Runs
    <3>4. proc' = [proc EXCEPT ![p] = [r EXCEPT !.at = "import", !.index = index, !.todo = todo]]
      BY <2>5, <3>1, RunsOfTypes
    <3> QED
      BY <3>3, <3>4, RunsOfTypes
  <2> QED
    BY <1>1, <2>2, <2>6 DEF TypeOK, get_sdat_import_index, Runs, dirVars, dbVars, runVars, keyVars
<1>2. CASE import_file(p)
  <2>1. PICK e : e = NextEntry(p)
    OBVIOUS
  <2>2. e \in proc[p].todo
    BY <1>2, <2>1, NextIsEarliest DEF import_file
  <2>3. e[1] \in Files
    BY <2>2, RunsOfTypes DEF Runs, Entries
  <2>4. UNCHANGED <<lock, ranToday, failures, answer, expiries, remote, ledger>>
    BY <1>2, <2>1 DEF import_file, runVars, keyVars, dirVars, dbVars
  <2>5. proc' \in [Processes -> Runs]
    BY <1>2, <2>1, DropTypes, GoTypes DEF import_file, AfterFailedSave, PlaceNames
  <2>6. faults' \in 0..MaxFaults
    BY <1>2, <2>1, FaultTypes DEF import_file
  <2>7. plain' \in SUBSET Files /\ packed' \in SUBSET Files
    BY <1>2, <2>1, PackTypes DEF import_file, TypeOK, dirVars
  <2>8. reading' \in [Slots -> 0..NumFiles]
    <3>1. ASSUME Store(e[1])
          PROVE  reading' \in [Slots -> 0..NumFiles]
      <4>1. PICK f : f = e[1]
        OBVIOUS
      <4>2. f \in 0..NumFiles
        BY <2>3, <4>1, ImportAssumption DEF Files
      <4>3. reading' = [s \in Slots |-> IF s \in Covers[f] THEN f ELSE reading[s]]
        BY <3>1, <4>1 DEF Store
      <4> QED
        BY <4>2, <4>3 DEF TypeOK
    <3> QED
      BY <1>2, <2>1, <3>1 DEF import_file, TypeOK, dbVars
  <2> QED
    BY <2>4, <2>5, <2>6, <2>7, <2>8 DEF TypeOK, Runs
<1>3. CASE record_sdat_import(p)
  <2>1. PICK e : e = NextEntry(p)
    OBVIOUS
  <2>2. UNCHANGED <<lock, ranToday, failures, answer, expiries, remote, reading>>
    BY <1>3, <2>1 DEF record_sdat_import, runVars, keyVars, dbVars
  <2>3. CASE Fault /\ PackUnrecorded(e) /\ Drop(p, e, TRUE) /\ UNCHANGED <<remote, dbVars>>
    <3>1. proc' \in [Processes -> Runs] /\ faults' \in 0..MaxFaults
      BY <2>3, DropTypes, FaultTypes
    <3> QED
      BY <2>2, <2>3, <3>1 DEF TypeOK, Runs, PackUnrecorded, dbVars
  <2>4. CASE /\ ledger' = ledger \cup {e[1]} /\ Pack(e) /\ UNCHANGED faults
             /\ proc' = [proc EXCEPT ![p].at = "import", ![p].todo = @ \ {e}, ![p].index = @ \cup {e[1]}]
    <3>1. e[1] \in Files
      <4>1. proc[p].todo # {}
        BY <1>3 DEF WorkIsKnown, record_sdat_import, At
      <4>2. e \in proc[p].todo
        BY <2>1, <4>1, NextIsEarliest
      <4> QED
        BY <4>2, RunsOfTypes DEF Runs, Entries
    <3>2. proc' \in [Processes -> Runs]
      <4>1. PICK r, rest, index : r = proc[p] /\ rest = r.todo \ {e} /\ index = r.index \cup {e[1]}
        OBVIOUS
      <4>2. r \in Runs /\ rest \in SUBSET Entries /\ index \in SUBSET Files
        BY <3>1, <4>1, RunsOfTypes DEF Runs
      <4>3. [r EXCEPT !.at = "import", !.todo = rest, !.index = index] \in Runs
        BY <4>2, Places DEF Runs
      <4>4. proc' = [proc EXCEPT ![p] = [r EXCEPT !.at = "import", !.todo = rest, !.index = index]]
        BY <2>4, <4>1, RunsOfTypes
      <4> QED
        BY <4>3, <4>4, RunsOfTypes
    <3> QED
      BY <2>2, <2>4, <3>1, <3>2, PackTypes DEF TypeOK, Runs
  <2> QED
    BY <1>3, <2>1, <2>3, <2>4 DEF record_sdat_import
<1> QED
  BY <1>1, <1>2, <1>3 DEF ImportStep

\* ... and one run of the application.
LEMMA RunStepTypes ==
    ASSUME TypeOK, WorkIsKnown, NEW p \in Workers, RunStep(p)
    PROVE  TypeOK'
<1>1. p \in Processes
  BY DEF Processes
<1>2. CASE acquire_sdat_ingestion_lock(p)
  <2>1. proc' \in [Processes -> Runs]
    <3>1. CASE LockFree
      <4>1. PICK r : r = proc[p]
        OBVIOUS
      <4>2. r \in Runs /\ 1 \in 0..MaxAttempts
        BY <1>1, <4>1, RunsOfTypes, ImportAssumption
      <4>3. [r EXCEPT !.at = "fetch", !.today = TRUE, !.attempt = 1] \in Runs
        BY <4>2, Places DEF Runs
      <4>4. proc' = [proc EXCEPT ![p] = [r EXCEPT !.at = "fetch", !.today = TRUE, !.attempt = 1]]
        BY <1>1, <1>2, <3>1, <4>1, RunsOfTypes DEF acquire_sdat_ingestion_lock
      <4> QED
        BY <4>3, <4>4, RunsOfTypes
    <3>2. CASE ~LockFree
      BY <1>1, <1>2, <3>2, GoTypes, Places DEF acquire_sdat_ingestion_lock
    <3> QED
      BY <3>1, <3>2
  <2>2. lock' \in Workers \cup {Nobody}
    BY <1>2 DEF acquire_sdat_ingestion_lock, TypeOK
  <2> QED
    BY <1>2, <2>1, <2>2 DEF acquire_sdat_ingestion_lock, TypeOK, Runs, dirVars, dbVars, keyVars
<1>3. CASE fetch_latest(p)
  <2>1. proc' \in [Processes -> Runs]
    BY <1>1, <1>3, AttemptTypes, GoTypes, Places DEF fetch_latest
  <2>2. faults' \in 0..MaxFaults
    BY <1>3, FaultTypes DEF fetch_latest
  <2>3. plain' \in SUBSET Files
    BY <1>3 DEF fetch_latest, Pending, TypeOK
  <2> QED
    BY <1>3, <2>1, <2>2, <2>3 DEF fetch_latest, TypeOK, Runs, dbVars, runVars, keyVars
<1>4. CASE EndAttempt(p)
  <2>1. proc' \in [Processes -> Runs]
    BY <1>1, <1>4, AttemptTypes, GoTypes, Places DEF EndAttempt
  <2> QED
    BY <1>4, <2>1 DEF EndAttempt, TypeOK, Runs, dirVars, dbVars, runVars, keyVars
<1>5. CASE record_sdat_ingestion_run(p)
  <2>1. proc' \in [Processes -> Runs]
    BY <1>1, <1>5, GoTypes, Places DEF record_sdat_ingestion_run
  <2>2. faults' \in 0..MaxFaults
    BY <1>5, FaultTypes DEF record_sdat_ingestion_run
  <2>3. proc[p].today \in BOOLEAN /\ proc[p].bad \in BOOLEAN
    BY <1>1, RunsOfTypes DEF Runs
  <2>4. ranToday' \in BOOLEAN /\ failures' \in BOOLEAN
    BY <1>5, <2>3 DEF record_sdat_ingestion_run, TypeOK
  <2> QED
    BY <1>5, <2>1, <2>2, <2>4 DEF record_sdat_ingestion_run, Released, TypeOK, Runs, dirVars, dbVars, keyVars
<1>6. CASE complete_ingestion_retry(p) \/ release_ingestion_retry(p)
  <2>1. proc' \in [Processes -> Runs]
    BY <1>1, <1>6, RunsOfTypes, FreshRun DEF complete_ingestion_retry, release_ingestion_retry
  <2>2. answer' \in [Keys -> {"none", "reserved", "answered"}]
    BY <1>6 DEF complete_ingestion_retry, release_ingestion_retry, TypeOK
  <2> QED
    BY <1>6, <2>1, <2>2
       DEF complete_ingestion_retry, release_ingestion_retry, TypeOK, Runs, dirVars, dbVars, runVars
<1> QED
  BY <1>1, <1>2, <1>3, <1>4, <1>5, <1>6, ImportStepTypes DEF RunStep

\* Every step keeps the types.
LEMMA ImportTypesStep ==
    ASSUME TypeOK, WorkIsKnown, [Next]_vars
    PROVE  TypeOK'
<1>1. Workers \subseteq Processes /\ Operators \subseteq Processes
  BY DEF Processes
<1>2. CASE UNCHANGED vars
  BY <1>2 DEF vars, TypeOK
<1>3. CASE \E p \in Workers : run_due(p) \/ admin_run_sdat_schedule(p) \/ \E k \in Keys : claim_ingestion_retry(p, k)
  BY <1>1, <1>3, StartTypes
<1>4. CASE \E p \in Workers : RunStep(p)
  BY <1>4, RunStepTypes
<1>5. CASE \E p \in Operators : StartByHand(p) \/ ImportStep(p) \/ EndByHand(p)
  BY <1>1, <1>5, StartTypes, ImportStepTypes, WorldTypes
<1>6. CASE (\E f \in Files : Publish(f)) \/ NewDay \/ \E p \in Processes : Die(p)
  BY <1>6, WorldTypes
<1> QED
  BY <1>2, <1>3, <1>4, <1>5, <1>6 DEF Next

\* The lock follows the runs of the application: who takes it starts to run, and
\* who stops running gives it back.
LEMMA OneRunStep ==
    ASSUME TypeOK, OneRunAtATime, [Next]_vars
    PROVE  OneRunAtATime'
<1>1. /\ \A p \in Workers : p \in Processes /\ p \notin Operators /\ p # Nobody
      /\ \A p \in Operators : p \in Processes
  BY ImportAssumption DEF Processes
<1>2. proc \in [Processes -> Runs]
  BY RunsOfTypes
<1>3. ASSUME NEW p \in Processes, \A q \in Workers : q # p => proc'[q].at = proc[q].at,
             lock' = lock, p \in Workers => (Running(p)' <=> Running(p))
      PROVE  OneRunAtATime'
  BY <1>3 DEF OneRunAtATime, Running
<1>4. CASE UNCHANGED vars
  BY <1>4 DEF vars, OneRunAtATime, Running
<1>5. CASE (\E f \in Files : Publish(f)) \/ NewDay
  BY <1>1, <1>2, <1>5 DEF Publish, NewDay, runVars, OneRunAtATime, Running, Runs
<1>6. ASSUME NEW p \in Workers, run_due(p) \/ admin_run_sdat_schedule(p) \/ \E k \in Keys : claim_ingestion_retry(p, k)
      PROVE  OneRunAtATime'
  <2>1. proc'[p].at = "acquire" /\ proc[p].at = "idle" /\ lock' = lock
        /\ \A q \in Workers : q # p => proc'[q] = proc[q]
    BY <1>1, <1>2, <1>6 DEF run_due, admin_run_sdat_schedule, claim_ingestion_retry, At, Idle, runVars
  <2> QED
    BY <1>1, <1>3, <2>1 DEF Running
<1>7. ASSUME NEW p \in Operators, StartByHand(p) \/ EndByHand(p)
      PROVE  OneRunAtATime'
  BY <1>1, <1>2, <1>3, <1>7 DEF StartByHand, EndByHand, runVars
<1>8. ASSUME NEW p \in Processes, ImportStep(p)
      PROVE  OneRunAtATime'
  <2>1. lock' = lock
    BY <1>8 DEF ImportStep, get_sdat_import_index, import_file, record_sdat_import, runVars
  <2>2. \A q \in Processes : q # p => proc'[q] = proc[q]
    BY <1>2, <1>8 DEF ImportStep, get_sdat_import_index, import_file, record_sdat_import, Drop, Go, AfterFailedSave
  <2>3. proc[p].at \in {"list", "import", "record"}
    BY <1>8 DEF ImportStep, get_sdat_import_index, import_file, record_sdat_import, At
  <2>4. proc'[p].at \in {"import", "record"}
    <3>1. CASE get_sdat_import_index(p)
      BY <1>2, <3>1 DEF get_sdat_import_index, Runs
    <3>2. CASE import_file(p)
      BY <1>8, <3>2, DropFields, GoFields DEF import_file, AfterFailedSave
    <3>3. CASE record_sdat_import(p)
      <4>1. PICK e : e = NextEntry(p)
        OBVIOUS
      <4>2. CASE Drop(p, e, TRUE)
        BY <1>8, <4>2, DropFields
      <4>3. CASE proc' = [proc EXCEPT ![p].at = "import", ![p].todo = @ \ {e}, ![p].index = @ \cup {e[1]}]
        BY <1>2, <1>8, <4>3 DEF Runs
      <4> QED
        BY <3>3, <4>1, <4>2, <4>3 DEF record_sdat_import
    <3> QED
      BY <1>8, <3>1, <3>2, <3>3 DEF ImportStep
  <2> QED
    BY <1>1, <1>3, <2>1, <2>2, <2>3, <2>4 DEF Running
<1>9. ASSUME NEW p \in Workers, acquire_sdat_ingestion_lock(p)
      PROVE  OneRunAtATime'
  <2>1. \A q \in Processes : q # p => proc'[q] = proc[q]
    BY <1>1, <1>2, <1>9 DEF acquire_sdat_ingestion_lock, Go
  <2>2. CASE LockFree
    <3>1. lock' = p /\ proc'[p].at = "fetch" /\ lock = Nobody
      BY <1>1, <1>2, <1>9, <2>2 DEF acquire_sdat_ingestion_lock, LockFree, Runs
    <3> QED
      BY <1>1, <2>1, <3>1 DEF OneRunAtATime, Running
  <2>3. CASE ~LockFree
    <3>1. lock' = lock /\ proc'[p].at \in {"idle", "complete"} /\ proc[p].at = "acquire"
      BY <1>1, <1>2, <1>9, <2>3 DEF acquire_sdat_ingestion_lock, Go, At, Runs
    <3> QED
      BY <1>1, <1>3, <2>1, <3>1 DEF Running
  <2> QED
    BY <2>2, <2>3
<1>10. ASSUME NEW p \in Workers, fetch_latest(p) \/ EndAttempt(p)
       PROVE  OneRunAtATime'
  <2>1. \A q \in Processes : q # p => proc'[q] = proc[q]
    BY <1>1, <1>2, <1>10 DEF fetch_latest, EndAttempt, NextAttempt, Go
  <2>2. lock' = lock /\ proc[p].at \in {"fetch", "import"}
    BY <1>10 DEF fetch_latest, EndAttempt, At, runVars
  <2>3. proc'[p].at \in {"fetch", "list", "report"}
    BY <1>1, <1>2, <1>10 DEF fetch_latest, EndAttempt, NextAttempt, Go, Runs
  <2> QED
    BY <1>1, <1>3, <2>1, <2>2, <2>3 DEF Running
<1>11. ASSUME NEW p \in Workers, record_sdat_ingestion_run(p)
       PROVE  OneRunAtATime'
  <2>1. \A q \in Processes : q # p => proc'[q] = proc[q]
    BY <1>1, <1>2, <1>11 DEF record_sdat_ingestion_run, Go
  <2>2. lock' = Nobody /\ proc[p].at = "report" /\ proc'[p].at \in {"idle", "complete", "release"}
    BY <1>1, <1>2, <1>11 DEF record_sdat_ingestion_run, Released, Go, At, Runs
  <2>3. lock = p
    BY <2>2 DEF OneRunAtATime, Running
  <2> QED
    BY <1>1, <2>1, <2>2, <2>3 DEF OneRunAtATime, Running
<1>12. ASSUME NEW p \in Workers, complete_ingestion_retry(p) \/ release_ingestion_retry(p)
       PROVE  OneRunAtATime'
  <2>1. \A q \in Processes : q # p => proc'[q] = proc[q]
    BY <1>1, <1>2, <1>12 DEF complete_ingestion_retry, release_ingestion_retry
  <2>2. lock' = lock /\ proc[p].at \in {"complete", "release"} /\ proc'[p].at = "idle"
    BY <1>1, <1>2, <1>12 DEF complete_ingestion_retry, release_ingestion_retry, At, Idle, runVars
  <2> QED
    BY <1>1, <1>3, <2>1, <2>2 DEF Running
<1>13. ASSUME NEW p \in Processes, Die(p)
       PROVE  OneRunAtATime'
  <2>1. /\ proc'[p].at = "idle" /\ \A q \in Processes : q # p => proc'[q] = proc[q]
        /\ lock' = IF lock = p THEN Nobody ELSE lock
    BY <1>2, <1>13 DEF Die, Idle
  <2> QED
    BY <1>1, <2>1 DEF OneRunAtATime, Running
<1> QED
  BY <1>1, <1>4, <1>5, <1>6, <1>7, <1>8, <1>9, <1>10, <1>11, <1>12, <1>13 DEF Next, RunStep

\* An import keeps the ledger true: a document is recorded after its readings are
\* stored, readings are never taken away, and a file is packed when its document
\* is in the ledger.
LEMMA LedgerImportStep ==
    ASSUME ImportInv, NEW p \in Processes, ImportStep(p)
    PROVE  /\ LedgeredIsStored' /\ PackedIsSettled' /\ ledger \subseteq ledger'
           /\ \A s \in Slots : reading[s] # 0 => reading'[s] # 0
           /\ \A q \in Processes : q # p => proc'[q] = proc[q]
           /\ proc'[p].index \subseteq ledger'
           /\ proc'[p].at = "record" =>
                  /\ proc'[p].todo # {}
                  /\ \A s \in Covers[NextEntry(p)'[1]] : reading'[s] # 0
<1>1. TypeOK /\ proc \in [Processes -> Runs] /\ \A f \in Files : Covers[f] \subseteq Slots
  BY RunsOfTypes, ImportAssumption DEF ImportInv
<1>2. CASE get_sdat_import_index(p)
  <2>1. PICK todo : todo = (plain \X {FALSE}) \cup (packed \X {TRUE})
    OBVIOUS
  <2>2. PICK index \in {ledger, {}} :
            proc' = [proc EXCEPT ![p].at = "import", ![p].index = index, ![p].todo = todo]
    BY <1>2, <2>1 DEF get_sdat_import_index
  <2>3. proc'[p].at = "import" /\ proc'[p].index = index /\ \A q \in Processes : q # p => proc'[q] = proc[q]
    BY <1>1, <2>2 DEF Runs
  <2>4. UNCHANGED <<reading, ledger, packed>>
    BY <1>2 DEF get_sdat_import_index, dirVars, dbVars
  <2> QED
    BY <2>2, <2>3, <2>4 DEF ImportInv, LedgeredIsStored, PackedIsSettled
<1>3. CASE import_file(p)
  <2>1. PICK e : e = NextEntry(p)
    OBVIOUS
  <2>2. e \in proc[p].todo /\ proc[p].todo # {} /\ ledger' = ledger
    BY <1>1, <1>3, <2>1, NextIsEarliest DEF import_file, dbVars
  <2>3. e[1] \in Files /\ e[1] # 0
    <3>1. e[1] \in Files
      BY <1>1, <2>2 DEF Runs, Entries
    <3> QED
      BY <3>1 DEF Files
  <2>4. proc[p].index \subseteq ledger
    BY DEF ImportInv, WorkIsKnown
  <2>5. CASE UNCHANGED <<dirVars, dbVars>> /\ \E wrong \in BOOLEAN : Drop(p, e, wrong)
    <3>1. UNCHANGED <<packed, reading, ledger>>
      BY <2>5 DEF dirVars, dbVars
    <3> QED
      BY <1>1, <2>4, <2>5, <3>1, DropFields DEF ImportInv, LedgeredIsStored, PackedIsSettled
  <2>6. CASE e[1] \in proc[p].index /\ Pack(e) /\ Drop(p, e, FALSE) /\ UNCHANGED dbVars
    <3>1. UNCHANGED <<reading, ledger>>
      BY <2>6 DEF dbVars
    <3>2. packed' \subseteq ledger
      BY <1>1, <2>4, <2>6, PackTypes DEF ImportInv, PackedIsSettled
    <3> QED
      BY <1>1, <2>4, <2>6, <3>1, <3>2, DropFields DEF ImportInv, LedgeredIsStored, PackedIsSettled
  <2>7. CASE Store(e[1]) /\ Go(p, "record") /\ UNCHANGED <<dirVars, ledger>>
    <3>1. /\ proc'[p].at = "record" /\ proc'[p].todo = proc[p].todo /\ proc'[p].index = proc[p].index
          /\ \A q \in Processes : q # p => proc'[q] = proc[q]
      BY <1>1, <2>7, GoFields
    <3>2. NextEntry(p)' = e
      BY <2>1, <3>1, NextEntryKept
    <3>3. \A s \in Slots : (s \in Covers[e[1]] => reading'[s] # 0) /\ (reading[s] # 0 => reading'[s] # 0)
      <4>1. PICK f : f = e[1]
        OBVIOUS
      <4>2. reading' = [s \in Slots |-> IF s \in Covers[f] THEN f ELSE reading[s]]
        BY <2>7, <4>1 DEF Store
      <4> QED
        BY <2>3, <4>1, <4>2
    <3>4. packed' = packed /\ ledger' = ledger
      BY <2>7 DEF dirVars
    <3>5. LedgeredIsStored'
      BY <1>1, <3>3, <3>4 DEF ImportInv, TypeOK, LedgeredIsStored
    <3>6. \A s \in Covers[e[1]] : reading'[s] # 0
      BY <1>1, <2>3, <3>3
    <3> QED
      BY <2>2, <2>4, <3>1, <3>2, <3>3, <3>4, <3>5, <3>6 DEF ImportInv, PackedIsSettled
  <2> QED
    BY <1>3, <2>1, <2>5, <2>6, <2>7 DEF import_file, AfterFailedSave
<1>4. CASE record_sdat_import(p)
  <2>1. PICK e : e = NextEntry(p)
    OBVIOUS
  <2>2. /\ proc[p].todo # {} /\ \A s \in Covers[e[1]] : reading[s] # 0
        /\ proc[p].index \subseteq ledger
    BY <1>4, <2>1 DEF ImportInv, WorkIsKnown, record_sdat_import
  <2>3. CASE Fault /\ PackUnrecorded(e) /\ Drop(p, e, TRUE) /\ UNCHANGED <<remote, dbVars>>
    <3>1. UNCHANGED <<packed, reading, ledger>>
      BY <2>3 DEF PackUnrecorded, dbVars
    <3> QED
      BY <1>1, <2>2, <2>3, <3>1, DropFields DEF ImportInv, LedgeredIsStored, PackedIsSettled
  <2>4. CASE /\ ledger' = ledger \cup {e[1]} /\ Pack(e) /\ UNCHANGED <<remote, reading, faults>>
             /\ proc' = [proc EXCEPT ![p].at = "import", ![p].todo = @ \ {e}, ![p].index = @ \cup {e[1]}]
    <3>1. /\ proc'[p].at = "import" /\ proc'[p].index = proc[p].index \cup {e[1]}
          /\ \A q \in Processes : q # p => proc'[q] = proc[q]
      BY <1>1, <2>4 DEF Runs
    <3>2. packed' \subseteq ledger'
      BY <1>1, <2>4, PackTypes DEF ImportInv, PackedIsSettled
    <3>3. LedgeredIsStored'
      BY <2>2, <2>4 DEF ImportInv, LedgeredIsStored
    <3> QED
      BY <2>2, <2>4, <3>1, <3>2, <3>3 DEF PackedIsSettled
  <2> QED
    BY <1>4, <2>1, <2>3, <2>4 DEF record_sdat_import
<1> QED
  BY <1>2, <1>3, <1>4 DEF ImportStep

\* Every step keeps the invariant of the import.
LEMMA ImportInvStep == ImportInv /\ [Next]_vars => ImportInv'
<1>1. SUFFICES ASSUME ImportInv, [Next]_vars
               PROVE  ImportInv'
  OBVIOUS
<1>2. TypeOK' /\ OneRunAtATime' /\ proc \in [Processes -> Runs] /\ \A f \in Files : Covers[f] \subseteq Slots
  BY <1>1, ImportTypesStep, OneRunStep, RunsOfTypes, ImportAssumption DEF ImportInv
<1>3. Workers \subseteq Processes /\ Operators \subseteq Processes
  BY DEF Processes
<1>4. ASSUME NEW p \in Processes, ImportStep(p)
      PROVE  ImportInv'
  <2>1. ASSUME NEW q \in Processes, q # p
        PROVE  /\ proc'[q].index \subseteq ledger'
               /\ proc'[q].at = "record" =>
                      /\ proc'[q].todo # {}
                      /\ \A s \in Covers[NextEntry(q)'[1]] : reading'[s] # 0
    <3>1. proc'[q] = proc[q] /\ ledger \subseteq ledger' /\ \A s \in Slots : reading[s] # 0 => reading'[s] # 0
      BY <1>1, <1>4, <2>1, LedgerImportStep
    <3>2. NextEntry(q)' = NextEntry(q)
      BY <3>1, NextEntryKept
    <3>3. proc[q].todo # {} => NextEntry(q)[1] \in Files
      <4>1. proc[q].todo # {} => NextEntry(q) \in proc[q].todo
        BY <1>1, NextIsEarliest DEF ImportInv
      <4> QED
        BY <1>2, <4>1 DEF Runs, Entries
    <3> QED
      BY <1>1, <1>2, <3>1, <3>2, <3>3 DEF ImportInv, WorkIsKnown, At
  <2>2. WorkIsKnown'
    BY <1>1, <1>4, <2>1, LedgerImportStep DEF WorkIsKnown, At
  <2> QED
    BY <1>1, <1>2, <1>4, <2>2, LedgerImportStep DEF ImportInv
<1>5. ASSUME UNCHANGED <<reading, ledger, packed>>,
             \A q \in Processes :
                 /\ proc'[q].index = proc[q].index \/ proc'[q].index = {}
                 /\ proc'[q].at = "record" => proc[q].at = "record" /\ proc'[q].todo = proc[q].todo
      PROVE  ImportInv'
  <2>1. \A q \in Processes : proc'[q].at = "record" => NextEntry(q)' = NextEntry(q)
    BY <1>5, NextEntryKept
  <2>2. WorkIsKnown'
    BY <1>1, <1>5, <2>1 DEF ImportInv, WorkIsKnown, At
  <2> QED
    BY <1>1, <1>2, <1>5, <2>2 DEF ImportInv, LedgeredIsStored, PackedIsSettled
<1>6. CASE UNCHANGED vars
  BY <1>5, <1>6 DEF vars
<1>7. CASE (\E f \in Files : Publish(f)) \/ NewDay
  BY <1>2, <1>5, <1>7 DEF Publish, NewDay, dirVars, dbVars, Runs
<1>8. ASSUME NEW p \in Processes,
             \/ run_due(p) \/ admin_run_sdat_schedule(p) \/ (\E k \in Keys : claim_ingestion_retry(p, k))
             \/ StartByHand(p) \/ EndByHand(p) \/ complete_ingestion_retry(p) \/ release_ingestion_retry(p) \/ Die(p)
      PROVE  ImportInv'
  <2>1. UNCHANGED <<reading, ledger, packed>>
    BY <1>8 DEF run_due, admin_run_sdat_schedule, claim_ingestion_retry, StartByHand, EndByHand,
                complete_ingestion_retry, release_ingestion_retry, Die, dirVars, dbVars
  <2>2. /\ proc'[p].at # "record" /\ proc'[p].index = {}
        /\ \A q \in Processes : q # p => proc'[q] = proc[q]
    <3>1. CASE run_due(p) \/ admin_run_sdat_schedule(p)
      BY <1>2, <3>1 DEF run_due, admin_run_sdat_schedule, Idle
    <3>2. ASSUME NEW k \in Keys, claim_ingestion_retry(p, k)
          PROVE  /\ proc'[p].at # "record" /\ proc'[p].index = {}
                 /\ \A q \in Processes : q # p => proc'[q] = proc[q]
      BY <1>2, <3>2 DEF claim_ingestion_retry, Idle
    <3>3. CASE StartByHand(p) \/ EndByHand(p)
      BY <1>2, <3>3 DEF StartByHand, EndByHand, Idle
    <3>4. CASE complete_ingestion_retry(p) \/ release_ingestion_retry(p) \/ Die(p)
      BY <1>2, <3>4 DEF complete_ingestion_retry, release_ingestion_retry, Die, Idle
    <3> QED
      BY <1>8, <3>1, <3>2, <3>3, <3>4
  <2> QED
    BY <1>5, <2>1, <2>2
<1>9. ASSUME NEW p \in Workers,
             \/ acquire_sdat_ingestion_lock(p) \/ fetch_latest(p) \/ EndAttempt(p) \/ record_sdat_ingestion_run(p)
      PROVE  ImportInv'
  <2>1. UNCHANGED <<reading, ledger, packed>>
    BY <1>9 DEF acquire_sdat_ingestion_lock, fetch_latest, EndAttempt, record_sdat_ingestion_run, dirVars, dbVars
  <2>2. /\ proc'[p].at # "record" /\ (proc'[p].index = proc[p].index \/ proc'[p].index = {})
        /\ \A q \in Processes : q # p => proc'[q] = proc[q]
    <3>1. CASE acquire_sdat_ingestion_lock(p)
      BY <1>2, <1>3, <3>1 DEF acquire_sdat_ingestion_lock, Go, Runs
    <3>2. CASE fetch_latest(p)
      BY <1>2, <1>3, <3>2 DEF fetch_latest, NextAttempt, Go, Runs
    <3>3. CASE EndAttempt(p)
      BY <1>2, <1>3, <3>3 DEF EndAttempt, NextAttempt, Go, Runs
    <3>4. CASE record_sdat_ingestion_run(p)
      BY <1>2, <1>3, <3>4 DEF record_sdat_ingestion_run, Go, Runs
    <3> QED
      BY <1>9, <3>1, <3>2, <3>3, <3>4
  <2> QED
    BY <1>5, <2>1, <2>2
<1> QED
  BY <1>1, <1>3, <1>4, <1>6, <1>7, <1>8, <1>9 DEF Next, RunStep

\* Before the first step nothing is stored and no run is at work.
LEMMA ImportInvInit == Init => ImportInv
<1>1. SUFFICES ASSUME Init PROVE ImportInv
  OBVIOUS
<1>2. OneRunAtATime
  BY <1>1, ImportAssumption DEF Init, OneRunAtATime, Running, Idle, Processes
<1>3. LedgeredIsStored /\ PackedIsSettled /\ WorkIsKnown
  BY <1>1 DEF Init, LedgeredIsStored, PackedIsSettled, WorkIsKnown, At, Idle
<1> QED
  BY <1>1, <1>2, <1>3, ImportTypesInit DEF ImportInv

\* The imports of a tenant run one at a time, and the ledger holds only documents
\* whose readings are stored, through deaths, failures, retries and imports by
\* hand (MeteringImport!ImportsAreWhole).
THEOREM ImportsAreWholeHolds == Spec => []ImportsAreWhole
<1>1. ImportInv => ImportsAreWhole
  BY DEF ImportInv, ImportsAreWhole
<1> QED
  BY <1>1, ImportInvInit, ImportInvStep, PTL DEF Spec

\* What was packed away is settled in the ledger (MeteringImport!PackedIsSettled).
THEOREM PackedIsSettledHolds == Spec => []PackedIsSettled
<1>1. ImportInv => PackedIsSettled
  BY DEF ImportInv
<1> QED
  BY <1>1, ImportInvInit, ImportInvStep, PTL DEF Spec

\* Only a reserved row is written or deleted.
LEMMA AnswerStep ==
    ASSUME TypeOK, [Next]_vars, NEW k \in Keys, answer[k] = "answered"
    PROVE  answer'[k] = "answered"
<1>1. DOMAIN answer = Keys
  BY DEF TypeOK
<1>2. ASSUME NEW p, NEW l, claim_ingestion_retry(p, l)
      PROVE  answer'[k] = "answered"
  <2>1. answer' = [answer EXCEPT ![l] = "reserved"] /\ answer[l] # "answered"
    BY <1>2 DEF claim_ingestion_retry
  <2> QED
    BY <1>1, <2>1
<1>3. ASSUME NEW p, complete_ingestion_retry(p) \/ release_ingestion_retry(p)
      PROVE  answer'[k] = "answered"
  <2>1. PICK l, other : l = proc[p].key /\ other \in {"answered", "none"}
                        /\ answer' = [answer EXCEPT ![l] = IF answer[l] = "reserved" THEN other ELSE answer[l]]
    <3>1. CASE complete_ingestion_retry(p)
      BY <3>1 DEF complete_ingestion_retry
    <3>2. CASE release_ingestion_retry(p)
      BY <3>2 DEF release_ingestion_retry, Unanswered
    <3> QED
      BY <1>3, <3>1, <3>2
  <2> QED
    BY <1>1, <2>1
<1>4. CASE UNCHANGED answer
  BY <1>4
<1>5. CASE UNCHANGED vars
  BY <1>5 DEF vars
<1>6. ASSUME NEW p, run_due(p) \/ admin_run_sdat_schedule(p) \/ StartByHand(p) \/ EndByHand(p) \/ Die(p)
      PROVE  UNCHANGED answer
  BY <1>6 DEF run_due, admin_run_sdat_schedule, StartByHand, EndByHand, Die, keyVars
<1>7. ASSUME NEW p, \/ acquire_sdat_ingestion_lock(p) \/ fetch_latest(p) \/ ImportStep(p) \/ EndAttempt(p)
                    \/ record_sdat_ingestion_run(p)
      PROVE  UNCHANGED answer
  BY <1>7 DEF acquire_sdat_ingestion_lock, fetch_latest, ImportStep, get_sdat_import_index, import_file,
              record_sdat_import, EndAttempt, record_sdat_ingestion_run, keyVars
<1>8. CASE (\E f \in Files : Publish(f)) \/ NewDay
  BY <1>8 DEF Publish, NewDay, keyVars
<1> QED
  BY <1>2, <1>3, <1>4, <1>5, <1>6, <1>7, <1>8 DEF Next, RunStep

\* The answer of a retry key is durable, for every worker and every order of
\* claims, deaths and expired reservations (MeteringImport!AnswerIsDurable).
THEOREM AnswerIsDurableHolds == Spec => AnswerIsDurable
<1>1. ImportInv /\ [Next]_vars => [\A k \in Keys : answer[k] = "answered" => answer'[k] = "answered"]_vars
  BY AnswerStep DEF ImportInv
<1> QED
  BY <1>1, ImportInvInit, ImportInvStep, PTL DEF Spec, AnswerIsDurable

-----------------------------------------------------------------------------
(* Without failures and imports by hand, deliveries reach the ledger in the *)
(* order they were published in: what is not imported yet is later than all *)
(* that is.                                                                 *)

\* The deliveries in the directory, compressed or not.
Dir == plain \cup packed
\* Nothing failed so far, and nobody imports by hand.
Smooth == Operators = {} /\ faults = 0

\* Deliveries come without gaps; what is listed or imported is in the directory.
FilesKnown ==
    /\ \E n \in Nat : remote = 1 .. n
    /\ Dir \subseteq remote /\ ledger \subseteq Dir
    /\ \A p \in Processes : \A e \in proc[p].todo : e[1] \in Dir /\ (e[2] => e[1] \in packed)

\* They are fetched in order and imported in order.
FilesInOrder ==
    Smooth =>
        /\ \A d \in remote \ Dir, f \in Dir : f < d
        /\ \A d \in remote \ ledger, f \in ledger : f < d
        /\ \A p \in Workers : proc[p].at \in {"import", "record"} =>
               /\ proc[p].index = ledger
               /\ \A d \in Dir \ ledger : \E e \in proc[p].todo : e[1] = d
        /\ \A p \in Workers : proc[p].at = "record" => NextEntry(p)[1] \notin ledger

\* n is the newest delivery of the ledger that covers a slot; 0 when there is none.
IsNewest(n, s) ==
    /\ n = 0 \/ (n \in ledger /\ s \in Covers[n])
    /\ \A f \in ledger : s \in Covers[f] => n # 0 /\ f <= n

\* Readings are of the newest delivery, but for the one that is being recorded.
NewestIsKept ==
    Smooth =>
        /\ \A p \in Workers : proc[p].at = "record" =>
               \A s \in Covers[NextEntry(p)[1]] : reading[s] = NextEntry(p)[1]
        /\ \A s \in Slots :
               \/ IsNewest(reading[s], s)
               \/ \E p \in Workers : proc[p].at = "record" /\ s \in Covers[NextEntry(p)[1]]

\* The inductive invariant behind OrderedImportKeepsNewest.
OrderInv == ImportInv /\ FilesKnown /\ FilesInOrder /\ NewestIsKept

\* Runs other than the one at work do nothing that counts.
LEMMA AloneAtWork ==
    ASSUME OneRunAtATime, NEW p \in Workers, Running(p)
    PROVE  \A q \in Workers : q # p => proc[q].at \notin {"import", "record"}
BY DEF OneRunAtATime, Running

\* A step that fails is none that counts.
LEMMA SmoothStep ==
    ASSUME TypeOK, Smooth', faults' = faults \/ Fault
    PROVE  Smooth /\ faults' = faults
BY ImportAssumption DEF TypeOK, Fault, Smooth

\* A step that moves no file, takes no entry in hand and lists nothing.
LEMMA AsideStep ==
    ASSUME OrderInv, ImportInv', faults' = faults \/ Fault,
           UNCHANGED <<remote, plain, packed, reading, ledger>>,
           \A q \in Processes :
               /\ proc'[q].todo = proc[q].todo \/ proc'[q].todo = {}
               /\ proc'[q].at \in {"import", "record"} =>
                      proc[q].at = proc'[q].at /\ proc'[q].todo = proc[q].todo /\ proc'[q].index = proc[q].index
               /\ proc[q].at = "record" => proc'[q].at = "record" \/ Fault
    PROVE  OrderInv'
<1>1. TypeOK /\ Dir' = Dir /\ Workers \subseteq Processes
  BY DEF OrderInv, ImportInv, Dir, Processes
<1>2. FilesKnown'
  BY <1>1 DEF OrderInv, FilesKnown
<1>3. SUFFICES ASSUME Smooth'
               PROVE  FilesInOrder' /\ NewestIsKept'
  BY <1>2 DEF OrderInv, FilesInOrder, NewestIsKept
<1>4. Smooth /\ ~Fault
  <2>1. Fault => faults' # 0
    BY <1>1, FaultTypes
  <2> QED
    BY <1>1, <1>3, <2>1, SmoothStep DEF Smooth
<1>5. \A q \in Workers : (proc'[q].at = "record" <=> proc[q].at = "record")
                         /\ (proc[q].at = "record" => NextEntry(q)' = NextEntry(q))
  BY <1>1, <1>4, NextEntryKept
<1>6. FilesInOrder'
  BY <1>1, <1>4, <1>5 DEF OrderInv, FilesInOrder
<1>7. NewestIsKept'
  BY <1>4, <1>5 DEF OrderInv, NewestIsKept, IsNewest
<1> QED
  BY <1>6, <1>7

\* A delivery is published: it is later than every one there is.
LEMMA PublishOrderStep ==
    ASSUME OrderInv, ImportInv', NEW f \in Files, Publish(f)
    PROVE  OrderInv'
<1>1. PICK n \in Nat : remote = 1 .. n
  BY DEF OrderInv, FilesKnown
<1>2. Cardinality(remote) = n
  BY <1>1, FS_Interval
<1>3. f = n + 1 /\ remote' = 1 .. n + 1 /\ n + 1 \in Nat
  BY <1>1, <1>2 DEF Publish
<1>4. UNCHANGED <<plain, packed, reading, ledger, proc, faults>> /\ Dir' = Dir
  BY DEF Publish, dbVars, Dir
<1>5. Dir \subseteq remote /\ ledger \subseteq Dir
  BY DEF OrderInv, FilesKnown
<1>6. FilesKnown'
  BY <1>1, <1>3, <1>4, <1>5 DEF OrderInv, FilesKnown
<1>7. \A q : NextEntry(q)' = NextEntry(q)
  BY <1>4, NextEntryKept
<1>8. \A d \in remote' \ remote, g \in remote : g < d
  BY <1>1, <1>3
<1>9. FilesInOrder'
  BY <1>4, <1>5, <1>7, <1>8 DEF OrderInv, FilesInOrder, Smooth
<1>10. NewestIsKept'
  BY <1>4, <1>7 DEF OrderInv, NewestIsKept, IsNewest, Smooth
<1> QED
  BY <1>6, <1>9, <1>10 DEF OrderInv

\* A fetch brings everything there is, or fails.
LEMMA FetchOrderStep ==
    ASSUME OrderInv, ImportInv', NEW p \in Workers, fetch_latest(p)
    PROVE  OrderInv'
<1>1. TypeOK /\ proc \in [Processes -> Runs] /\ Workers \subseteq Processes /\ OneRunAtATime
  BY RunsOfTypes DEF OrderInv, ImportInv, Processes
<1>2. UNCHANGED <<remote, packed, reading, ledger>> /\ proc[p].at = "fetch" /\ Running(p)
  BY DEF fetch_latest, dbVars, At, Running
<1>3. plain \subseteq plain' /\ plain' \subseteq plain \cup remote
  BY DEF fetch_latest, Pending
<1>4. /\ proc'[p].at \in {"fetch", "list", "report"} /\ (proc'[p].todo = proc[p].todo \/ proc'[p].todo = {})
      /\ \A q \in Processes : q # p => proc'[q] = proc[q]
  BY <1>1 DEF fetch_latest, NextAttempt, Go, Runs
<1>5. FilesKnown'
  BY <1>2, <1>3, <1>4 DEF OrderInv, FilesKnown, Dir
<1>6. SUFFICES ASSUME Smooth'
               PROVE  FilesInOrder' /\ NewestIsKept'
  BY <1>5 DEF OrderInv, FilesInOrder, NewestIsKept
<1>7. Smooth /\ ~Fault
  <2>1. Fault => faults' # 0
    BY <1>1, FaultTypes
  <2> QED
    BY <1>1, <1>6, <2>1, SmoothStep DEF Smooth, fetch_latest
<1>8. Dir' = remote
  BY <1>2, <1>7 DEF fetch_latest, Pending, OrderInv, FilesKnown, Dir
<1>9. \A q \in Workers : proc'[q].at \notin {"import", "record"} /\ proc[q].at # "record"
  BY <1>1, <1>2, <1>4, AloneAtWork
<1>10. FilesInOrder'
  BY <1>2, <1>7, <1>8, <1>9 DEF OrderInv, FilesInOrder
<1>11. NewestIsKept'
  BY <1>2, <1>7, <1>9 DEF OrderInv, NewestIsKept, IsNewest
<1> QED
  BY <1>10, <1>11

\* The list holds the whole directory.
LEMMA ListOrderStep ==
    ASSUME OrderInv, ImportInv', NEW p \in Processes, get_sdat_import_index(p)
    PROVE  OrderInv'
<1>1. TypeOK /\ proc \in [Processes -> Runs] /\ Workers \subseteq Processes /\ OneRunAtATime
  BY RunsOfTypes DEF OrderInv, ImportInv, Processes
<1>2. PICK todo : todo = (plain \X {FALSE}) \cup (packed \X {TRUE})
  OBVIOUS
<1>3. PICK index \in {ledger, {}} :
          /\ IF index = ledger THEN UNCHANGED faults ELSE Fault
          /\ proc' = [proc EXCEPT ![p].at = "import", ![p].index = index, ![p].todo = todo]
  BY <1>2 DEF get_sdat_import_index
<1>4. UNCHANGED <<remote, plain, packed, reading, ledger>> /\ proc[p].at = "list" /\ Dir' = Dir
  BY DEF get_sdat_import_index, dirVars, dbVars, At, Dir
<1>5. /\ proc'[p].at = "import" /\ proc'[p].todo = todo /\ proc'[p].index = index
      /\ \A q \in Processes : q # p => proc'[q] = proc[q]
  BY <1>1, <1>3 DEF Runs
<1>6. \A e \in todo : e[1] \in Dir /\ (e[2] => e[1] \in packed)
  BY <1>2 DEF Dir
<1>7. \A d \in Dir : \E e \in todo : e[1] = d
  <2>1. ASSUME NEW d \in plain
        PROVE  \E e \in todo : e[1] = d
    <3>1. <<d, FALSE>> \in todo
      BY <1>2
    <3> QED
      BY <3>1
  <2>2. ASSUME NEW d \in packed
        PROVE  \E e \in todo : e[1] = d
    <3>1. <<d, TRUE>> \in todo
      BY <1>2
    <3> QED
      BY <3>1
  <2> QED
    BY <2>1, <2>2 DEF Dir
<1>8. FilesKnown'
  BY <1>4, <1>5, <1>6 DEF OrderInv, FilesKnown
<1>9. SUFFICES ASSUME Smooth'
               PROVE  FilesInOrder' /\ NewestIsKept'
  BY <1>8 DEF OrderInv, FilesInOrder, NewestIsKept
<1>10. Smooth /\ index = ledger /\ p \in Workers
  <2>1. Fault => faults' # 0
    BY <1>1, FaultTypes
  <2> QED
    BY <1>1, <1>3, <1>9, <2>1, SmoothStep DEF Smooth, Processes
<1>11. \A q \in Workers : q # p => proc'[q].at \notin {"import", "record"} /\ proc[q].at # "record"
  <2>1. Running(p)
    BY <1>4 DEF Running
  <2> QED
    BY <1>1, <1>5, <1>10, <2>1, AloneAtWork
<1>12. FilesInOrder'
  BY <1>4, <1>5, <1>7, <1>10, <1>11 DEF OrderInv, FilesInOrder
<1>13. NewestIsKept'
  BY <1>4, <1>5, <1>10, <1>11 DEF OrderInv, NewestIsKept, IsNewest
<1> QED
  BY <1>12, <1>13

\* A file that is not stored drops out of the list: it is imported already.
LEMMA FileOrderStep ==
    ASSUME OrderInv, ImportInv', NEW p \in Processes, import_file(p)
    PROVE  OrderInv'
<1>1. TypeOK /\ proc \in [Processes -> Runs] /\ Workers \subseteq Processes /\ OneRunAtATime
  BY RunsOfTypes DEF OrderInv, ImportInv, Processes
<1>2. PICK e : e = NextEntry(p)
  OBVIOUS
<1>3. e \in proc[p].todo /\ proc[p].todo # {} /\ ledger' = ledger /\ remote' = remote /\ proc[p].at = "import"
  BY <1>1, <1>2, NextIsEarliest DEF import_file, dirVars, dbVars, At
<1>4. e[1] \in Dir /\ (e[2] => e[1] \in packed) /\ e[1] \in Files /\ e[2] \in BOOLEAN
  BY <1>1, <1>3 DEF OrderInv, FilesKnown, Runs, Entries
<1>5. Dir' = Dir /\ packed \subseteq packed'
  BY <1>1, <1>2, PackTypes DEF import_file, Dir, dirVars
<1>6. /\ proc'[p].at \in {"import", "record"} /\ proc'[p].index = proc[p].index
      /\ proc'[p].todo = proc[p].todo \/ proc'[p].todo = proc[p].todo \ {e}
      /\ \A q \in Processes : q # p => proc'[q] = proc[q]
  BY <1>1, <1>2, DropFields, GoFields DEF import_file, AfterFailedSave
<1>7. FilesKnown'
  BY <1>3, <1>5, <1>6 DEF OrderInv, FilesKnown
<1>8. SUFFICES ASSUME Smooth'
               PROVE  FilesInOrder' /\ NewestIsKept'
  BY <1>7 DEF OrderInv, FilesInOrder, NewestIsKept
<1>9. Smooth /\ ~Fault /\ p \in Workers
  <2>1. Fault => faults' # 0
    BY <1>1, FaultTypes
  <2> QED
    BY <1>1, <1>2, <1>8, <2>1, SmoothStep DEF Smooth, Processes, import_file
<1>10. \A q \in Workers : q # p => proc[q].at \notin {"import", "record"} /\ proc'[q].at \notin {"import", "record"}
  <2>1. Running(p)
    BY <1>3 DEF Running
  <2> QED
    BY <1>1, <1>6, <1>9, <2>1, AloneAtWork
<1>11. proc[p].index = ledger /\ \A d \in Dir \ ledger : \E x \in proc[p].todo : x[1] = d
  BY <1>3, <1>9 DEF OrderInv, FilesInOrder
<1>12. CASE e[1] \in ledger /\ reading' = reading /\ proc'[p].at = "import" /\ proc'[p].todo = proc[p].todo \ {e}
  <2>1. \A d \in Dir \ ledger : \E x \in proc'[p].todo : x[1] = d
    BY <1>11, <1>12
  <2>2. FilesInOrder'
    BY <1>3, <1>5, <1>6, <1>9, <1>10, <1>11, <1>12, <2>1 DEF OrderInv, FilesInOrder
  <2>3. \A q \in Workers : proc[q].at # "record" /\ proc'[q].at # "record"
    BY <1>3, <1>10, <1>12
  <2>4. NewestIsKept'
    BY <1>3, <1>9, <1>12, <2>3 DEF OrderInv, NewestIsKept, IsNewest
  <2> QED
    BY <2>2, <2>4
<1>13. CASE e[1] \notin ledger /\ Store(e[1]) /\ Go(p, "record")
  <2>1. proc'[p].at = "record" /\ proc'[p].todo = proc[p].todo
    BY <1>1, <1>13, GoFields
  <2>2. NextEntry(p)' = e
    BY <1>2, <2>1, NextEntryKept
  <2>3. FilesInOrder'
    BY <1>3, <1>5, <1>6, <1>9, <1>10, <1>11, <1>13, <2>1, <2>2 DEF OrderInv, FilesInOrder
  <2>4. PICK f : f = e[1]
    OBVIOUS
  <2>5. \A s \in Slots : reading'[s] = IF s \in Covers[f] THEN f ELSE reading[s]
    BY <1>13, <2>4 DEF Store
  <2>6. \A s \in Covers[f] : s \in Slots
    BY <1>4, <2>4, ImportAssumption
  <2>7. \A s \in Slots : IsNewest(reading[s], s)
    BY <1>3, <1>9, <1>10 DEF OrderInv, NewestIsKept
  <2>8. \A s \in Covers[f] : reading'[s] = f
    BY <2>5, <2>6
  <2>9. \A s \in Slots : s \notin Covers[f] => IsNewest(reading'[s], s)
    BY <2>5, <2>7
  <2>10. NewestIsKept'
    BY <1>3, <1>9, <1>10, <2>1, <2>2, <2>4, <2>8, <2>9 DEF NewestIsKept, IsNewest
  <2> QED
    BY <2>3, <2>10
<1>14. CASE ~Readable(e) /\ Drop(p, e, TRUE) /\ UNCHANGED dbVars
  <2>1. e[1] \in ledger
    BY <1>4, <1>14 DEF Readable, Dir, OrderInv, ImportInv, PackedIsSettled
  <2> QED
    BY <1>1, <1>12, <1>14, <2>1, DropFields DEF dbVars
<1>15. CASE e[1] \in proc[p].index /\ Drop(p, e, FALSE) /\ UNCHANGED dbVars
  BY <1>1, <1>11, <1>12, <1>15, DropFields DEF dbVars
<1> QED
  BY <1>2, <1>9, <1>11, <1>13, <1>14, <1>15 DEF import_file

\* The delivery that is recorded is later than all in the ledger, and earlier than
\* all that are not.
LEMMA RecordOrderStep ==
    ASSUME OrderInv, ImportInv', NEW p \in Processes, record_sdat_import(p)
    PROVE  OrderInv'
<1>1. TypeOK /\ proc \in [Processes -> Runs] /\ Workers \subseteq Processes /\ OneRunAtATime
  BY RunsOfTypes DEF OrderInv, ImportInv, Processes
<1>2. PICK e : e = NextEntry(p)
  OBVIOUS
<1>3. proc[p].todo # {} /\ proc[p].at = "record" /\ reading' = reading /\ remote' = remote
  BY <1>2 DEF OrderInv, ImportInv, WorkIsKnown, record_sdat_import, At, dbVars
<1>4. e \in proc[p].todo /\ \A d \in proc[p].todo \ {e} : Earlier(e, d)
  BY <1>1, <1>2, <1>3, NextIsEarliest
<1>5. e[1] \in Dir /\ e[1] \in Files
  BY <1>1, <1>4 DEF OrderInv, FilesKnown, Runs, Entries
<1>6. CASE Fault /\ PackUnrecorded(e) /\ Drop(p, e, TRUE) /\ UNCHANGED <<remote, dbVars>>
  <2>1. /\ proc'[p].todo = proc[p].todo \ {e}
        /\ \A q \in Processes : q # p => proc'[q] = proc[q]
    BY <1>1, <1>6, DropFields
  <2>2. UNCHANGED <<remote, plain, packed, ledger>>
    BY <1>6 DEF PackUnrecorded, dbVars
  <2>3. FilesKnown'
    BY <2>1, <2>2 DEF OrderInv, FilesKnown, Dir
  <2>4. ~Smooth'
    BY <1>1, <1>6, FaultTypes DEF Smooth
  <2> QED
    BY <2>3, <2>4 DEF OrderInv, FilesInOrder, NewestIsKept
<1>7. CASE /\ ledger' = ledger \cup {e[1]} /\ Pack(e) /\ UNCHANGED <<remote, reading, faults>>
           /\ proc' = [proc EXCEPT ![p].at = "import", ![p].todo = @ \ {e}, ![p].index = @ \cup {e[1]}]
  <2>1. /\ proc'[p].at = "import" /\ proc'[p].index = proc[p].index \cup {e[1]}
        /\ proc'[p].todo = proc[p].todo \ {e}
        /\ \A q \in Processes : q # p => proc'[q] = proc[q]
    BY <1>1, <1>7 DEF Runs
  <2>2. Dir' = Dir /\ packed \subseteq packed'
    BY <1>1, <1>7, PackTypes DEF Dir
  <2>3. FilesKnown'
    BY <1>5, <1>7, <2>1, <2>2 DEF OrderInv, FilesKnown
  <2>4. SUFFICES ASSUME Smooth'
                 PROVE  FilesInOrder' /\ NewestIsKept'
    BY <2>3 DEF OrderInv, FilesInOrder, NewestIsKept
  <2>5. Smooth /\ p \in Workers
    BY <1>1, <1>7, <2>4, SmoothStep DEF Smooth, Processes
  <2>6. \A q \in Workers : q # p => proc[q].at \notin {"import", "record"} /\ proc'[q].at \notin {"import", "record"}
    <3>1. Running(p)
      BY <1>3 DEF Running
    <3> QED
      BY <1>1, <2>1, <2>5, <3>1, AloneAtWork
  <2>7. /\ proc[p].index = ledger /\ \A d \in Dir \ ledger : \E x \in proc[p].todo : x[1] = d
        /\ e[1] \notin ledger
        /\ \A d \in remote \ Dir, f \in Dir : f < d
        /\ \A d \in remote \ ledger, f \in ledger : f < d
    BY <1>2, <1>3, <2>5 DEF OrderInv, FilesInOrder
  <2>8. Dir \subseteq remote /\ ledger \subseteq Files /\ remote \subseteq Files /\ Files \subseteq Nat
    <3>1. Dir \subseteq remote
      BY DEF OrderInv, FilesKnown
    <3>2. ledger \subseteq Files /\ remote \subseteq Files
      BY <1>1 DEF TypeOK
    <3>3. Files \subseteq Nat
      BY ImportAssumption DEF Files
    <3> QED
      BY <3>1, <3>2, <3>3
  <2>9. \A f \in ledger : f < e[1]
    BY <1>5, <2>7, <2>8
  <2>10. ASSUME NEW d \in remote \ ledger'
         PROVE  e[1] < d
    <3>1. CASE d \in Dir
      <4>1. d \in Dir \ ledger /\ d # e[1] /\ d \in Nat
        BY <1>7, <2>8, <2>10, <3>1
      <4>2. PICK x \in proc[p].todo : x[1] = d
        BY <2>7, <4>1
      <4>3. Earlier(e, x)
        BY <1>4, <4>1, <4>2
      <4> QED
        BY <4>1, <4>2, <4>3 DEF Earlier
    <3>2. CASE d \notin Dir
      BY <1>5, <2>7, <2>10, <3>2
    <3> QED
      BY <3>1, <3>2
  <2>11. \A d \in Dir' \ ledger' : \E x \in proc'[p].todo : x[1] = d
    <3>1. SUFFICES ASSUME NEW d \in Dir \ ledger'
                   PROVE  \E x \in proc'[p].todo : x[1] = d
      BY <2>2
    <3>2. d \in Dir \ ledger /\ d # e[1]
      BY <1>7
    <3>3. PICK x \in proc[p].todo : x[1] = d
      BY <2>7, <3>2
    <3> QED
      BY <2>1, <3>2, <3>3
  <2>12. \A d \in remote' \ ledger', f \in ledger' : f < d
    BY <1>7, <2>7, <2>10
  <2>13. FilesInOrder'
    BY <1>3, <1>7, <2>1, <2>2, <2>5, <2>6, <2>7, <2>11, <2>12 DEF FilesInOrder
  <2>14. PICK f : f = e[1]
    OBVIOUS
  <2>15. (\A s \in Covers[f] : reading[s] = f) /\ \A s \in Slots : s \in Covers[f] \/ IsNewest(reading[s], s)
    BY <1>2, <1>3, <2>5, <2>6, <2>14 DEF OrderInv, NewestIsKept
  <2>16. f \in Nat /\ f # 0 /\ ledger \subseteq Nat /\ ledger' = ledger \cup {f} /\ \A g \in ledger : g < f
    BY <1>5, <1>7, <2>8, <2>9, <2>14 DEF Files
  <2>17. ASSUME NEW s \in Slots
         PROVE  IsNewest(reading[s], s)'
    <3>1. CASE s \in Covers[f]
      <4>1. reading'[s] = f
        BY <1>3, <2>15, <3>1
      <4>2. \A g \in ledger' : g <= f
        BY <2>16
      <4> QED
        BY <2>16, <3>1, <4>1, <4>2 DEF IsNewest
    <3>2. CASE s \notin Covers[f]
      <4>1. reading'[s] = reading[s] /\ IsNewest(reading[s], s)
        BY <1>3, <2>15, <3>2
      <4> QED
        BY <2>16, <3>2, <4>1 DEF IsNewest
    <3> QED
      BY <3>1, <3>2
  <2>18. NewestIsKept'
    BY <2>1, <2>6, <2>17 DEF NewestIsKept
  <2> QED
    BY <2>13, <2>18
<1> QED
  BY <1>2, <1>6, <1>7 DEF record_sdat_import

\* Every step keeps the order.
LEMMA OrderInvStep == OrderInv /\ ImportInv' /\ [Next]_vars => OrderInv'
<1>1. SUFFICES ASSUME OrderInv, ImportInv', [Next]_vars
               PROVE  OrderInv'
  OBVIOUS
<1>2. proc \in [Processes -> Runs] /\ Workers \subseteq Processes /\ Operators \subseteq Processes
  BY <1>1, RunsOfTypes DEF OrderInv, ImportInv, Processes
<1>3. CASE UNCHANGED vars
  BY <1>1, <1>3, AsideStep DEF vars
<1>4. CASE NewDay
  <2>1. UNCHANGED <<remote, plain, packed, reading, ledger, faults>>
    BY <1>4 DEF NewDay, dirVars, dbVars
  <2>2. \A q \in Processes : /\ proc'[q].at = proc[q].at /\ proc'[q].todo = proc[q].todo
                             /\ proc'[q].index = proc[q].index
    BY <1>2, <1>4 DEF NewDay, Runs
  <2> QED
    BY <1>1, <2>1, <2>2, AsideStep
<1>5. ASSUME NEW p \in Processes,
             \/ run_due(p) \/ admin_run_sdat_schedule(p) \/ (\E k \in Keys : claim_ingestion_retry(p, k))
             \/ StartByHand(p) \/ EndByHand(p) \/ complete_ingestion_retry(p) \/ release_ingestion_retry(p) \/ Die(p)
      PROVE  OrderInv'
  <2>1. UNCHANGED <<remote, plain, packed, reading, ledger>> /\ (faults' = faults \/ Fault)
    BY <1>5 DEF run_due, admin_run_sdat_schedule, claim_ingestion_retry, StartByHand, EndByHand,
                complete_ingestion_retry, release_ingestion_retry, Die, dirVars, dbVars
  <2>2. /\ proc'[p].at \notin {"import", "record"} /\ proc'[p].todo = {}
        /\ \A q \in Processes : q # p => proc'[q] = proc[q]
    <3>1. CASE run_due(p) \/ admin_run_sdat_schedule(p)
      BY <1>2, <3>1 DEF run_due, admin_run_sdat_schedule, Idle
    <3>2. ASSUME NEW k \in Keys, claim_ingestion_retry(p, k)
          PROVE  /\ proc'[p].at \notin {"import", "record"} /\ proc'[p].todo = {}
                 /\ \A q \in Processes : q # p => proc'[q] = proc[q]
      BY <1>2, <3>2 DEF claim_ingestion_retry, Idle
    <3>3. CASE StartByHand(p) \/ EndByHand(p)
      BY <1>2, <3>3 DEF StartByHand, EndByHand, Idle
    <3>4. CASE complete_ingestion_retry(p) \/ release_ingestion_retry(p) \/ Die(p)
      BY <1>2, <3>4 DEF complete_ingestion_retry, release_ingestion_retry, Die, Idle
    <3> QED
      BY <1>5, <3>1, <3>2, <3>3, <3>4
  <2>3. proc[p].at = "record" => Fault
    BY <1>5 DEF run_due, admin_run_sdat_schedule, claim_ingestion_retry, StartByHand, EndByHand,
                complete_ingestion_retry, release_ingestion_retry, Die, At
  <2> QED
    BY <1>1, <2>1, <2>2, <2>3, AsideStep
<1>6. ASSUME NEW p \in Workers, acquire_sdat_ingestion_lock(p) \/ EndAttempt(p) \/ record_sdat_ingestion_run(p)
      PROVE  OrderInv'
  <2>1. UNCHANGED <<remote, plain, packed, reading, ledger>> /\ (faults' = faults \/ Fault)
    BY <1>6 DEF acquire_sdat_ingestion_lock, EndAttempt, record_sdat_ingestion_run, dirVars, dbVars
  <2>2. /\ proc'[p].at \notin {"import", "record"} /\ (proc'[p].todo = proc[p].todo \/ proc'[p].todo = {})
        /\ proc[p].at # "record"
        /\ \A q \in Processes : q # p => proc'[q] = proc[q]
    <3>1. CASE acquire_sdat_ingestion_lock(p)
      BY <1>2, <3>1 DEF acquire_sdat_ingestion_lock, Go, At, Runs
    <3>2. CASE EndAttempt(p)
      BY <1>2, <3>2 DEF EndAttempt, NextAttempt, Go, At, Runs
    <3>3. CASE record_sdat_ingestion_run(p)
      BY <1>2, <3>3 DEF record_sdat_ingestion_run, Go, At, Runs
    <3> QED
      BY <1>6, <3>1, <3>2, <3>3
  <2> QED
    BY <1>1, <1>2, <2>1, <2>2, AsideStep
<1> QED
  BY <1>1, <1>2, <1>3, <1>4, <1>5, <1>6, PublishOrderStep, FetchOrderStep, ListOrderStep, FileOrderStep,
     RecordOrderStep
     DEF Next, RunStep, ImportStep

\* Nothing is published, listed or read before the first step.
LEMMA OrderInvInit == Init => OrderInv
<1>1. SUFFICES ASSUME Init PROVE OrderInv
  OBVIOUS
<1>2. remote = 1 .. 0 /\ 0 \in Nat
  BY <1>1 DEF Init
<1>3. FilesKnown
  BY <1>1, <1>2 DEF Init, FilesKnown, Dir, Idle
<1>4. FilesInOrder /\ NewestIsKept
  BY <1>1 DEF Init, FilesInOrder, NewestIsKept, IsNewest, Dir, Idle, Processes
<1> QED
  BY <1>1, <1>3, <1>4, ImportInvInit DEF OrderInv

\* Where nothing fails and nobody imports by hand, each reading is of the newest
\* imported delivery, however many runs there are and whenever deliveries come
\* (MeteringImport!OrderedImportKeepsNewest).
THEOREM OrderedImportKeepsNewestHolds == Spec => []OrderedImportKeepsNewest
<1>1. ASSUME OrderInv
      PROVE  OrderedImportKeepsNewest
  <2>1. SUFFICES ASSUME Smooth, \A p \in Workers : proc[p].at # "record", NEW s \in Slots
                 PROVE  reading[s] = Newest(s)
    BY DEF OrderedImportKeepsNewest, Smooth, At
  <2>2. IsNewest(reading[s], s) /\ reading[s] \in Nat /\ ledger \subseteq Nat
    BY <1>1, <2>1, ImportAssumption DEF OrderInv, NewestIsKept, ImportInv, TypeOK, Files
  <2>3. PICK S : S = {f \in ledger : s \in Covers[f]} \cup {0}
    OBVIOUS
  <2>4. reading[s] \in S /\ S \subseteq Nat
    <3>1. \A x : x \in S <=> x = 0 \/ (x \in ledger /\ s \in Covers[x])
      BY <2>3
    <3>2. reading[s] = 0 \/ (reading[s] \in ledger /\ s \in Covers[reading[s]])
      BY <2>2 DEF IsNewest
    <3>3. ASSUME NEW x \in S
          PROVE  x \in Nat
      <4>1. CASE x = 0
        BY <4>1
      <4>2. CASE x \in ledger
        BY <2>2, <4>2
      <4> QED
        BY <3>1, <3>3, <4>1, <4>2
    <3> QED
      BY <3>1, <3>2, <3>3
  <2>5. ASSUME NEW f \in S
        PROVE  reading[s] >= f
    <3>1. CASE f = 0
      BY <2>2, <3>1
    <3>2. CASE f \in ledger /\ s \in Covers[f]
      BY <2>2, <3>2 DEF IsNewest
    <3> QED
      BY <2>3, <2>5, <3>1, <3>2
  <2>6. ASSUME NEW x \in S, \A y \in S : x >= y
        PROVE  x = reading[s]
    <3>1. x \in Nat /\ reading[s] \in Nat /\ x >= reading[s] /\ reading[s] >= x
      BY <2>4, <2>5, <2>6
    <3> QED
      BY <3>1
  <2>7. Newest(s) = CHOOSE x \in S : \A y \in S : x >= y
    BY <2>3 DEF Newest, Max
  <2> QED
    BY <2>4, <2>5, <2>6, <2>7
<1>2. OrderInv /\ [Next]_vars => OrderInv'
  BY ImportInvStep, OrderInvStep DEF OrderInv
<1> QED
  BY <1>1, <1>2, OrderInvInit, PTL DEF Spec

-----------------------------------------------------------------------------
(* The registry and the run that asks its contacts.                        *)

\* An entry that was moderated.
Moderated(e) == listing[e] # NoListing /\ listing[e].state # "pending"

\* A run only has moderated entries, and gives a token with each mail.
RunsAskModerated == \A c \in Crons :
    /\ \A e \in nudge[c].open : Moderated(e)
    /\ nudge[c].of # NoListing => Moderated(nudge[c].of) /\ nudge[c].token # 0

\* What was mailed: to whom, with which token.
Mailed == {[of |-> l.of, token |-> l.token] : l \in letters}

\* Who is about to confirm followed a mail.
ConfirmersWereMailed == \A v \in Confirmers : confirming[v] # NoListing => confirming[v] \in Mailed

\* The inductive invariant behind RegistryHolds.
RegistryInv ==
    /\ RegistryTypeOK
    /\ RunsAskModerated
    /\ ConfirmersWereMailed
    /\ RegistryHolds

\* An empty registry.
LEMMA RegistryInvInit == RegistryInit => RegistryInv
<1> SUFFICES ASSUME RegistryInit
             PROVE  RegistryInv
  OBVIOUS
<1>1. Cardinality(Listings) \in Nat
  BY RegistryAssumption, FS_CardinalityType
<1>2. RegistryTypeOK
  <2>1. 0 \in 0 .. MaxRequests /\ 0 \in 0 .. Cardinality(Listings) + 1
    BY <1>1, RegistryAssumption
  <2>2. [open |-> {}, of |-> NoListing, token |-> 0] \in CronRun
    BY <2>1 DEF CronRun
  <2> QED
    BY <2>1, <2>2 DEF RegistryInit, RegistryTypeOK
<1> QED
  BY <1>2 DEF RegistryInit, RegistryInv, RunsAskModerated, ConfirmersWereMailed, RegistryHolds, SlugsAreUnique,
     FreshIsConfirmed

\* An entry that keeps its slug, is not pending again and becomes fresh only
\* when it was confirmed keeps what is said of it.
LEMMA EntryChanges ==
    ASSUME RegistryInv, NEW e \in Listings, listing[e] # NoListing, NEW row \in Entry,
           listing' = [listing EXCEPT ![e] = row],
           row.slug = listing[e].slug,
           listing[e].state # "pending" => row.state # "pending",
           row.fresh => \E x \in confirmed' : x.of = e,
           confirmed \subseteq confirmed', confirmed' \subseteq Mailed', UNCHANGED letters
    PROVE  /\ listing' \in [Listings -> Entry \cup {NoListing}]
           /\ \A d \in Listings : Moderated(d) => Moderated(d)'
           /\ RegistryHolds'
<1>1. listing \in [Listings -> Entry \cup {NoListing}]
  BY DEF RegistryInv, RegistryTypeOK
<1>2. /\ listing' \in [Listings -> Entry \cup {NoListing}]
      /\ listing'[e] = row /\ row # NoListing
      /\ \A d \in Listings \ {e} : listing'[d] = listing[d]
  BY <1>1, NoListingAssumption
<1>3. \A d \in Listings : Moderated(d) => Moderated(d)'
  BY <1>2 DEF Moderated
<1>4. SlugsAreUnique'
  BY <1>2 DEF RegistryInv, RegistryHolds, SlugsAreUnique
<1>5. \A d \in Listings : listing'[d] # NoListing /\ listing'[d].fresh => \E x \in confirmed' : x.of = d
  BY <1>2 DEF RegistryInv, RegistryHolds, FreshIsConfirmed
<1>6. \A l \in letters : Moderated(l.of) /\ l.of \in Listings
  BY DEF RegistryInv, RegistryTypeOK, RegistryHolds, FreshIsConfirmed, Moderated
<1>7. \A l \in letters' : listing'[l.of] # NoListing /\ listing'[l.of].state # "pending"
  BY <1>3, <1>6 DEF Moderated
<1>8. FreshIsConfirmed'
  BY <1>5, <1>7 DEF FreshIsConfirmed, Mailed
<1> QED
  BY <1>2, <1>3, <1>4, <1>8 DEF RegistryHolds

\* Runs that stand where they stood ask the same entries.
LEMMA RunsStand ==
    ASSUME RegistryInv, UNCHANGED nudge, \A d \in Listings : Moderated(d) => Moderated(d)'
    PROVE  RunsAskModerated'
<1> SUFFICES ASSUME NEW c \in Crons
             PROVE  /\ \A f \in nudge[c].open : Moderated(f)'
                    /\ nudge[c].of # NoListing => Moderated(nudge[c].of)' /\ nudge[c].token # 0
  BY DEF RunsAskModerated, Moderated
<1>1. nudge[c] \in CronRun
  BY DEF RegistryInv, RegistryTypeOK
<1>2. \A f \in nudge[c].open : Moderated(f)'
  BY <1>1 DEF RegistryInv, RunsAskModerated, CronRun
<1>3. nudge[c].of # NoListing => Moderated(nudge[c].of)' /\ nudge[c].token # 0
  BY <1>1 DEF RegistryInv, RunsAskModerated, CronRun, Moderated
<1> QED
  BY <1>2, <1>3

\* Of two submitters that found the slug free, the second is refused.
LEMMA SaveStep ==
    ASSUME RegistryInv, NEW s \in Submitters, NEW e \in Listings, save_registry_entry(s, e)
    PROVE  RegistryInv'
<1>1. /\ listing \in [Listings -> Entry \cup {NoListing}] /\ listing[e] = NoListing
      /\ submission' \in [Submitters -> 0 .. Cardinality(Listings) + 1]
      /\ submission[s] \in 1 .. Cardinality(Listings)
      /\ UNCHANGED <<nudge, confirming, requests, letters, confirmed>>
  <2>1. Cardinality(Listings) \in Nat
    BY RegistryAssumption, FS_CardinalityType
  <2> QED
    BY <2>1 DEF save_registry_entry, RegistryInv, RegistryTypeOK
<1>2. CASE Taken(submission[s])
  <2>1. listing' = listing
    BY <1>2 DEF save_registry_entry, Saved
  <2> QED
    BY <1>1, <2>1 DEF RegistryInv, RegistryTypeOK, RunsAskModerated, Moderated, ConfirmersWereMailed, Mailed,
       RegistryHolds, SlugsAreUnique, FreshIsConfirmed
<1>3. CASE ~Taken(submission[s])
  <2> DEFINE row == [slug |-> submission[s], state |-> "pending", fresh |-> FALSE, token |-> 0, live |-> FALSE]
  <2>1. row \in Entry /\ row # NoListing
    <3>1. 0 \in 0 .. MaxRequests
      BY RegistryAssumption
    <3>2. row \in Entry
      BY <1>1, <3>1 DEF Entry
    <3> QED
      BY <3>2, NoListingAssumption
  <2>2. listing' = [listing EXCEPT ![e] = row]
    BY <1>3 DEF save_registry_entry, Saved
  <2>3. /\ listing' \in [Listings -> Entry \cup {NoListing}]
        /\ listing'[e] = row
        /\ \A d \in Listings \ {e} : listing'[d] = listing[d]
    BY <1>1, <2>1, <2>2
  <2>4. SlugsAreUnique'
    <3>1. row.slug = submission[s]
      OBVIOUS
    <3>2. \A d \in Listings \ {e} : listing'[d] # NoListing => listing'[d].slug # submission[s]
      BY <1>3, <2>3 DEF Taken
    <3> QED
      BY <2>3, <3>1, <3>2 DEF RegistryInv, RegistryHolds, SlugsAreUnique
  <2>5. \A d \in Listings : Moderated(d) => Moderated(d)'
    BY <1>1, <2>3 DEF Moderated
  <2>6. FreshIsConfirmed'
    <3>1. ~row.fresh
      OBVIOUS
    <3>2. \A d \in Listings : listing'[d] # NoListing /\ listing'[d].fresh => \E x \in confirmed' : x.of = d
      BY <1>1, <2>3, <3>1 DEF RegistryInv, RegistryHolds, FreshIsConfirmed
    <3>3. \A l \in letters : Moderated(l.of) /\ l.of \in Listings
      BY DEF RegistryInv, RegistryTypeOK, RegistryHolds, FreshIsConfirmed, Moderated
    <3>4. \A l \in letters' : listing'[l.of] # NoListing /\ listing'[l.of].state # "pending"
      BY <1>1, <2>5, <3>3 DEF Moderated
    <3> QED
      BY <1>1, <3>2, <3>4 DEF RegistryInv, RegistryHolds, FreshIsConfirmed
  <2>7. RunsAskModerated'
    BY <1>1, <2>5, RunsStand
  <2>8. RegistryTypeOK'
    BY <1>1, <2>3 DEF RegistryInv, RegistryTypeOK
  <2> QED
    BY <1>1, <2>4, <2>6, <2>7, <2>8 DEF RegistryInv, RegistryHolds, ConfirmersWereMailed, Mailed
<1> QED
  BY <1>2, <1>3

\* Trying a suffix, starting and giving up a run change no entry.
LEMMA NoEntryStep ==
    ASSUME RegistryInv,
           \/ \E s \in Submitters : _unique_slug(s)
           \/ \E c \in Crons : StartRun(c) \/ AbortRun(c)
    PROVE  RegistryInv'
<1>1. UNCHANGED <<listing, confirming, requests, letters, confirmed>>
  BY DEF _unique_slug, StartRun, AbortRun
<1>2. submission' \in [Submitters -> 0 .. Cardinality(Listings) + 1]
  <2>1. Cardinality(Listings) \in Nat
    BY RegistryAssumption, FS_CardinalityType
  <2>2. CASE UNCHANGED submission
    BY <2>2 DEF RegistryInv, RegistryTypeOK
  <2>3. ASSUME NEW s \in Submitters, _unique_slug(s)
        PROVE  submission' \in [Submitters -> 0 .. Cardinality(Listings) + 1]
    BY <2>1, <2>3 DEF _unique_slug, RegistryInv, RegistryTypeOK
  <2> QED
    BY <2>2, <2>3 DEF StartRun, AbortRun
<1>3. /\ nudge' \in [Crons -> CronRun]
      /\ RunsAskModerated'
  <2>1. CASE UNCHANGED nudge
    BY <1>1, <2>1 DEF RegistryInv, RegistryTypeOK, RunsAskModerated, Moderated
  <2>2. ASSUME NEW c \in Crons, StartRun(c)
        PROVE  nudge' \in [Crons -> CronRun] /\ RunsAskModerated'
    <3>1. \A e \in get_registry_entries_needing_verification : e \in Listings /\ Moderated(e)
      BY DEF get_registry_entries_needing_verification, Moderated
    <3>2. nudge[c] \in CronRun
      BY DEF RegistryInv, RegistryTypeOK
    <3>3. /\ nudge' = [nudge EXCEPT ![c].open = get_registry_entries_needing_verification]
          /\ nudge[c].of = NoListing
      BY <2>2 DEF StartRun
    <3>4. /\ nudge'[c].open = get_registry_entries_needing_verification /\ nudge'[c].of = NoListing
          /\ \A d \in Crons \ {c} : nudge'[d] = nudge[d]
      BY <3>2, <3>3 DEF RegistryInv, RegistryTypeOK, CronRun
    <3>5. nudge' \in [Crons -> CronRun]
      <4>1. [nudge[c] EXCEPT !.open = get_registry_entries_needing_verification] \in CronRun
        BY <3>1, <3>2 DEF CronRun
      <4> QED
        BY <3>3, <4>1 DEF RegistryInv, RegistryTypeOK, CronRun
    <3> QED
      BY <1>1, <3>1, <3>4, <3>5 DEF RegistryInv, RunsAskModerated, Moderated
  <2>3. ASSUME NEW c \in Crons, AbortRun(c)
        PROVE  nudge' \in [Crons -> CronRun] /\ RunsAskModerated'
    <3>1. 0 \in 0 .. MaxRequests
      BY RegistryAssumption
    <3> QED
      BY <1>1, <2>3, <3>1
      DEF AbortRun, CronRun, RegistryInv, RegistryTypeOK, RunsAskModerated, Moderated
  <2> QED
    BY <2>1, <2>2, <2>3 DEF _unique_slug
<1>4. ConfirmersWereMailed' /\ RegistryHolds'
  BY <1>1 DEF RegistryInv, ConfirmersWereMailed, Mailed, RegistryHolds, SlugsAreUnique, FreshIsConfirmed
<1>5. RegistryTypeOK'
  BY <1>1, <1>2, <1>3 DEF RegistryInv, RegistryTypeOK
<1> QED
  BY <1>3, <1>4, <1>5 DEF RegistryInv

\* A moderator's decision and the passing of time change one entry.
LEMMA EntryStep ==
    ASSUME RegistryInv, NEW e \in Listings,
           \/ GoStale(e)
           \/ \E state \in {"published", "rejected"} : update_registry_entry_moderation(e, state)
    PROVE  RegistryInv'
<1>1. /\ listing[e] # NoListing /\ listing[e] \in Entry
      /\ UNCHANGED <<submission, nudge, confirming, requests, letters, confirmed>>
  BY DEF GoStale, update_registry_entry_moderation, RegistryInv, RegistryTypeOK
<1> DEFINE Changed == \E row \in Entry :
          /\ listing' = [listing EXCEPT ![e] = row]
          /\ row.slug = listing[e].slug
          /\ listing[e].state # "pending" => row.state # "pending"
          /\ row.fresh => listing[e].fresh
<1>2. Changed
  <2>1. ASSUME NEW state \in {"published", "rejected"}, update_registry_entry_moderation(e, state)
        PROVE  Changed
    <3>1. /\ [listing[e] EXCEPT !.state = state] \in Entry
          /\ listing' = [listing EXCEPT ![e] = [listing[e] EXCEPT !.state = state]]
      BY <1>1, <2>1 DEF update_registry_entry_moderation, Entry
    <3> QED
      BY <1>1, <3>1 DEF Entry
  <2>2. ASSUME NEW fresh \in {FALSE, listing[e].fresh}, NEW live \in {FALSE, listing[e].live},
               listing' = [listing EXCEPT ![e].fresh = fresh, ![e].live = live]
        PROVE  Changed
    <3>1. fresh \in BOOLEAN /\ live \in BOOLEAN
      BY <1>1 DEF Entry
    <3>2. /\ [listing[e] EXCEPT !.fresh = fresh, !.live = live] \in Entry
          /\ listing' = [listing EXCEPT ![e] = [listing[e] EXCEPT !.fresh = fresh, !.live = live]]
      BY <1>1, <2>2, <3>1 DEF Entry, RegistryInv, RegistryTypeOK
    <3> QED
      BY <1>1, <3>1, <3>2 DEF Entry
  <2> QED
    BY <2>1, <2>2 DEF GoStale
<1>3. listing[e].fresh => \E x \in confirmed : x.of = e
  BY <1>1 DEF RegistryInv, RegistryHolds, FreshIsConfirmed
<1>4. confirmed' \subseteq Mailed'
  BY <1>1 DEF RegistryInv, RegistryHolds, FreshIsConfirmed, Mailed
<1>5. /\ listing' \in [Listings -> Entry \cup {NoListing}]
      /\ \A d \in Listings : Moderated(d) => Moderated(d)'
      /\ RegistryHolds'
  BY <1>1, <1>2, <1>3, <1>4, EntryChanges
<1>6. RunsAskModerated'
  BY <1>1, <1>5, RunsStand
<1> QED
  BY <1>1, <1>5, <1>6 DEF RegistryInv, RegistryTypeOK, ConfirmersWereMailed, Mailed

\* A run gives an entry a token, and mails it.
LEMMA AskContactStep ==
    ASSUME RegistryInv, NEW c \in Crons, set_registry_verification_token(c) \/ send_verification_nudges(c)
    PROVE  RegistryInv'
<1>1. /\ nudge \in [Crons -> CronRun] /\ nudge[c] \in CronRun
      /\ listing \in [Listings -> Entry \cup {NoListing}]
      /\ requests \in 0 .. MaxRequests /\ MaxRequests \in Nat
      /\ UNCHANGED <<submission, confirming, confirmed>>
  BY RegistryAssumption
  DEF RegistryInv, RegistryTypeOK, set_registry_verification_token, send_verification_nudges
<1>2. CASE set_registry_verification_token(c)
  <2>1. PICK e \in nudge[c].open :
            /\ listing' = [listing EXCEPT ![e].token = requests + 1, ![e].live = TRUE]
            /\ nudge' = [nudge EXCEPT ![c] = [open |-> nudge[c].open \ {e}, of |-> e, token |-> requests + 1]]
    BY <1>2 DEF set_registry_verification_token
  <2>2. e \in Listings /\ Moderated(e) /\ listing[e] \in Entry
    BY <1>1 DEF RegistryInv, RunsAskModerated, Moderated, CronRun
  <2>3. requests + 1 \in 1 .. MaxRequests /\ requests' = requests + 1 /\ UNCHANGED letters
    BY <1>1, <1>2 DEF set_registry_verification_token
  <2>4. /\ [listing[e] EXCEPT !.token = requests + 1, !.live = TRUE] \in Entry
        /\ listing' = [listing EXCEPT ![e] = [listing[e] EXCEPT !.token = requests + 1, !.live = TRUE]]
    <3> DEFINE row == [listing[e] EXCEPT !.token = requests + 1, !.live = TRUE]
    <3>1. requests + 1 \in 0 .. MaxRequests
      BY <1>1, <2>3
    <3>2. row \in Entry
      BY <2>2, <3>1 DEF Entry
    <3>3. listing' = [listing EXCEPT ![e] = row]
      BY <1>1, <2>1, <2>2
    <3> QED
      BY <3>2, <3>3
  <2>5. listing[e].fresh => \E x \in confirmed' : x.of = e
    BY <1>1, <2>2 DEF RegistryInv, RegistryHolds, FreshIsConfirmed, Moderated
  <2>6. confirmed' \subseteq Mailed'
    BY <1>1, <2>3 DEF RegistryInv, RegistryHolds, FreshIsConfirmed, Mailed
  <2>7. /\ listing' \in [Listings -> Entry \cup {NoListing}]
        /\ \A d \in Listings : Moderated(d) => Moderated(d)'
        /\ RegistryHolds'
    <3>1. [listing[e] EXCEPT !.token = requests + 1, !.live = TRUE].slug = listing[e].slug
      BY <2>2 DEF Entry
    <3>2. [listing[e] EXCEPT !.token = requests + 1, !.live = TRUE].state = listing[e].state
      BY <2>2 DEF Entry
    <3>3. [listing[e] EXCEPT !.token = requests + 1, !.live = TRUE].fresh = listing[e].fresh
      BY <2>2 DEF Entry
    <3> QED
      BY <1>1, <2>2, <2>3, <2>4, <2>5, <2>6, <3>1, <3>2, <3>3, EntryChanges DEF Moderated
  <2>8. /\ nudge' \in [Crons -> CronRun]
        /\ nudge'[c] = [open |-> nudge[c].open \ {e}, of |-> e, token |-> requests + 1]
        /\ \A d \in Crons \ {c} : nudge'[d] = nudge[d]
    <3>1. [open |-> nudge[c].open \ {e}, of |-> e, token |-> requests + 1] \in CronRun
      <4>1. requests + 1 \in 0 .. MaxRequests
        BY <1>1, <2>3
      <4> QED
        BY <1>1, <2>2, <4>1 DEF CronRun
    <3> QED
      BY <1>1, <2>1, <3>1
  <2>9. RunsAskModerated'
    <3> SUFFICES ASSUME NEW d \in Crons
                 PROVE  /\ \A f \in nudge'[d].open : Moderated(f)'
                        /\ nudge'[d].of # NoListing => Moderated(nudge[d].of)' /\ nudge'[d].token # 0
      BY DEF RunsAskModerated
    <3>1. CASE d = c
      <4>1. nudge[c].open \subseteq Listings /\ \A f \in nudge[c].open : Moderated(f)
        BY <1>1 DEF RegistryInv, RunsAskModerated, CronRun
      <4>2. requests + 1 # 0
        BY <1>1
      <4>3. \A f \in nudge[c].open \cup {e} : Moderated(f)'
        BY <2>2, <2>7, <4>1
      <4> QED
        BY <2>8, <3>1, <4>2, <4>3 DEF Moderated
    <3>2. CASE d # c
      <4>1. nudge[d] \in CronRun /\ nudge'[d] = nudge[d]
        BY <1>1, <2>8, <3>2
      <4>2. \A f \in nudge[d].open : Moderated(f)'
        BY <2>7, <4>1 DEF RegistryInv, RunsAskModerated, CronRun
      <4>3. nudge[d].of # NoListing => Moderated(nudge[d].of)' /\ nudge[d].token # 0
        BY <2>7, <4>1 DEF RegistryInv, RunsAskModerated, CronRun, Moderated
      <4> QED
        BY <4>1, <4>2, <4>3 DEF Moderated
    <3> QED
      BY <3>1, <3>2
  <2>10. RegistryTypeOK'
    BY <1>1, <2>3, <2>7, <2>8 DEF RegistryInv, RegistryTypeOK
  <2> QED
    BY <1>1, <2>3, <2>7, <2>9, <2>10 DEF RegistryInv, ConfirmersWereMailed, Mailed
<1>3. CASE send_verification_nudges(c)
  <2> DEFINE letter == [token |-> nudge[c].token, of |-> nudge[c].of]
  <2>1. /\ nudge[c].of # NoListing /\ letters' = letters \cup {letter}
        /\ nudge' = [nudge EXCEPT ![c].of = NoListing, ![c].token = 0]
        /\ UNCHANGED <<listing, requests>>
    BY <1>3 DEF send_verification_nudges
  <2>2. /\ nudge[c].of \in Listings /\ Moderated(nudge[c].of) /\ nudge[c].token \in 1 .. MaxRequests
    BY <1>1, <2>1 DEF RegistryInv, RunsAskModerated, CronRun
  <2>3. /\ nudge' \in [Crons -> CronRun]
        /\ nudge'[c].open = nudge[c].open /\ nudge'[c].of = NoListing
        /\ \A d \in Crons \ {c} : nudge'[d] = nudge[d]
    <3>1. [nudge[c] EXCEPT !.of = NoListing, !.token = 0] \in CronRun
      <4>1. 0 \in 0 .. MaxRequests
        BY <1>1
      <4> QED
        BY <1>1, <4>1 DEF CronRun
    <3> QED
      BY <1>1, <2>1, <3>1 DEF CronRun
  <2>4. RegistryTypeOK'
    BY <1>1, <2>1, <2>2, <2>3 DEF RegistryInv, RegistryTypeOK
  <2>5. Mailed \subseteq Mailed'
    BY <2>1 DEF Mailed
  <2>6. RunsAskModerated'
    BY <2>1, <2>3 DEF RegistryInv, RunsAskModerated, Moderated
  <2>7. ConfirmersWereMailed'
    BY <1>1, <2>5 DEF RegistryInv, ConfirmersWereMailed
  <2>8. FreshIsConfirmed'
    <3>1. confirmed' \subseteq Mailed'
      BY <1>1, <2>5 DEF RegistryInv, RegistryHolds, FreshIsConfirmed, Mailed
    <3>2. \A l \in letters' : listing'[l.of] # NoListing /\ listing'[l.of].state # "pending"
      BY <2>1, <2>2 DEF RegistryInv, RegistryHolds, FreshIsConfirmed, Moderated
    <3> QED
      BY <1>1, <2>1, <3>1, <3>2 DEF RegistryInv, RegistryHolds, FreshIsConfirmed, Mailed
  <2> QED
    BY <2>1, <2>4, <2>6, <2>7, <2>8 DEF RegistryInv, RegistryHolds, SlugsAreUnique
<1> QED
  BY <1>2, <1>3

\* A visitor finds the entry of its link, and confirms it.
LEMMA VisitStep ==
    ASSUME RegistryInv, NEW v \in Confirmers,
           \/ \E e \in Listings : get_registry_entry_by_verification_token(v, e)
           \/ mark_registry_entry_verified(v)
    PROVE  RegistryInv'
<1> DEFINE Visits == [of : Listings, token : 0 .. MaxRequests]
<1>1. /\ confirming \in [Confirmers -> Visits \cup {NoListing}]
      /\ listing \in [Listings -> Entry \cup {NoListing}]
      /\ UNCHANGED <<submission, nudge, requests, letters>>
  BY DEF RegistryInv, RegistryTypeOK, get_registry_entry_by_verification_token, mark_registry_entry_verified
<1>2. ASSUME NEW e \in Listings, get_registry_entry_by_verification_token(v, e)
      PROVE  RegistryInv'
  <2> DEFINE visit == [of |-> e, token |-> listing[e].token]
  <2>1. /\ listing[e] \in Entry /\ confirming' = [confirming EXCEPT ![v] = visit]
        /\ UNCHANGED <<listing, confirmed>>
    BY <1>1, <1>2 DEF get_registry_entry_by_verification_token
  <2>2. PICK l \in letters : l.of = e /\ l.token = listing[e].token
    BY <1>2 DEF get_registry_entry_by_verification_token, FollowedBy
  <2>3. visit \in Visits /\ visit \in Mailed
    BY <2>1, <2>2 DEF Entry, Mailed
  <2>4. RegistryTypeOK'
    BY <1>1, <2>1, <2>3 DEF RegistryInv, RegistryTypeOK
  <2>5. ConfirmersWereMailed'
    BY <1>1, <2>1, <2>3 DEF RegistryInv, ConfirmersWereMailed, Mailed
  <2> QED
    BY <1>1, <2>1, <2>4, <2>5
    DEF RegistryInv, RunsAskModerated, Moderated, RegistryHolds, SlugsAreUnique, FreshIsConfirmed
<1>3. CASE mark_registry_entry_verified(v)
  <2> DEFINE e == confirming[v].of
             row == [listing[e] EXCEPT !.fresh = TRUE, !.token = 0, !.live = FALSE]
  <2>1. /\ confirming[v] # NoListing /\ confirmed' = confirmed \cup {confirming[v]}
        /\ confirming' = [confirming EXCEPT ![v] = NoListing]
    BY <1>3 DEF mark_registry_entry_verified
  <2>2. confirming[v] \in Visits /\ e \in Listings /\ confirming[v] \in Mailed
    BY <1>1, <2>1 DEF RegistryInv, ConfirmersWereMailed
  <2>3. PICK l \in letters : confirming[v] = [of |-> l.of, token |-> l.token]
    BY <2>2 DEF Mailed
  <2>4. listing[e] \in Entry /\ listing[e] # NoListing
    BY <1>1, <2>2, <2>3 DEF RegistryInv, RegistryHolds, FreshIsConfirmed
  <2>5. /\ row \in Entry /\ row.slug = listing[e].slug /\ row.state = listing[e].state
        /\ listing' = [listing EXCEPT ![e] = row]
    <3>1. 0 \in 0 .. MaxRequests
      BY RegistryAssumption
    <3>2. row \in Entry /\ row.slug = listing[e].slug /\ row.state = listing[e].state
      BY <2>4, <3>1 DEF Entry
    <3>3. listing' = [listing EXCEPT ![e] = row]
      BY <1>1, <1>3, <2>2 DEF mark_registry_entry_verified
    <3> QED
      BY <3>2, <3>3
  <2>6. confirmed' \subseteq Mailed' /\ \E x \in confirmed' : x.of = e
    BY <1>1, <2>1, <2>2 DEF RegistryInv, RegistryHolds, FreshIsConfirmed, Mailed
  <2> HIDE DEF row, e
  <2>7. /\ listing' \in [Listings -> Entry \cup {NoListing}]
        /\ \A d \in Listings : Moderated(d) => Moderated(d)'
        /\ RegistryHolds'
    BY <1>1, <2>1, <2>2, <2>4, <2>5, <2>6, EntryChanges
  <2>8. RunsAskModerated'
    BY <1>1, <2>7, RunsStand
  <2>9. confirming' \in [Confirmers -> Visits \cup {NoListing}] /\ ConfirmersWereMailed'
    BY <1>1, <2>1 DEF RegistryInv, ConfirmersWereMailed, Mailed
  <2> QED
    BY <1>1, <2>7, <2>8, <2>9 DEF RegistryInv, RegistryTypeOK
<1> QED
  BY <1>2, <1>3

\* Every step keeps it.
LEMMA RegistryInvStep == RegistryInv /\ [RegistryNext]_registryVars => RegistryInv'
<1> SUFFICES ASSUME RegistryInv, [RegistryNext]_registryVars
             PROVE  RegistryInv'
  OBVIOUS
<1>1. CASE UNCHANGED registryVars
  BY <1>1 DEF registryVars, RegistryInv, RegistryTypeOK, RunsAskModerated, Moderated, ConfirmersWereMailed, Mailed,
     RegistryHolds, SlugsAreUnique, FreshIsConfirmed
<1>2. CASE RegistryNext
  BY <1>2, SaveStep, NoEntryStep, EntryStep, AskContactStep, VisitStep DEF RegistryNext
<1> QED
  BY <1>1, <1>2

\* Public addresses are unique however many are submitted under one name at
\* once, and an entry shown as fresh was confirmed by a mailed link
\* (LegRegistry!RegistryHolds).
THEOREM RegistryHoldsAlways == RegistrySpec => []RegistryHolds
<1>1. RegistryInv => RegistryHolds
  BY DEF RegistryInv
<1> QED
  BY <1>1, RegistryInvInit, RegistryInvStep, PTL DEF RegistrySpec

\* The tables of the registry keep their types (LegRegistry!RegistryTypeOK).
THEOREM RegistryTypes == RegistrySpec => []RegistryTypeOK
<1>1. RegistryInv => RegistryTypeOK
  BY DEF RegistryInv
<1> QED
  BY <1>1, RegistryInvInit, RegistryInvStep, PTL DEF RegistrySpec

-----------------------------------------------------------------------------
(* Practice villages.                                                       *)

\* Where a call of a thread can be.
Labels == {"begin", "spawned", "recorded", "in", "done", "destroyed", "created",
           "wait", "children", "child", "stopped"}

\* A call on a stack.
Calls == [do : {"create", "use", "prepare", "unprepare", "reset", "discard", "destroy"},
          of : Villages, at : Labels, todo : SUBSET Villages, retry : BOOLEAN, held : BOOLEAN]

\* The calls that hold the operation lock of their village.
Locks(x) ==
    \/ x.do = "create"
    \/ x.do \in {"use", "prepare", "unprepare"} /\ x.at # "begin"
    \/ x.do = "destroy" /\ x.at \in {"children", "child", "stopped"}

\* An id that has been given.
Used(v) == village[v].at # "none"

\* What a thread can rely on at a call of its stack.
CallHolds(t, x) ==
    /\ Used(x.of)
    /\ Locks(x) => op[x.of] = t
    /\ x.do = "create" => x.of \in storage /\ (x.at # "begin" => x.of \in worker)
    /\ x.do \in {"use", "prepare", "unprepare"} =>
           IF x.at = "begin" THEN Is(x.of, "live") => village[x.of].ready
           ELSE x.of \in worker /\ x.of \in storage
    /\ x.do \in {"prepare", "unprepare"} => village[x.of].parent = Free
    /\ x.do = "destroy" =>
           /\ x.at # "begin" => ~Is(x.of, "live")
           /\ x.at \in {"children", "child", "stopped"} => Is(x.of, "retiring")
           /\ x.at = "children" => Children(x.of) \subseteq x.todo
           /\ x.at = "stopped" => Children(x.of) = {} /\ x.of \notin worker
           /\ \A c \in x.todo : c > x.of /\ Used(c)

\* Village v comes after that of a call, or may be the same when it holds no lock.
Below(x, v) == v >= x.of /\ (x.do \notin {"reset", "discard"} => v > x.of)

\* A stack whose villages grow towards the innermost call.
Ordered(s) == \A m, n \in DOMAIN s : m < n => Below(s[n], s[m].of)

\* Call x goes on when the call y inside it has returned.
Waits(x, y) ==
    \/ /\ x.do = "destroy" /\ x.at = "child" /\ y.do = "destroy"
       /\ Children(x.of) \subseteq x.todo \cup {y.of}
    \/ x.do \in {"prepare", "unprepare"} /\ x.at # "begin"
    \/ x.do \in {"reset", "discard"} /\ x.at = "destroyed" /\ y.do = "destroy" /\ y.of = x.of
    \/ x.do = "reset" /\ x.at = "created"

\* A stack in which every call waits for the one inside it.
Nested(s) == \A n \in DOMAIN s : n > 1 => Waits(s[n], s[n - 1])

\* A destroy that answered that the village is gone has said the truth.
TopHolds(t, x) ==
    answered[t] =>
        /\ x.do = "reset" /\ x.at = "destroyed" => x.of \notin Owned
        /\ x.do = "destroy" /\ x.at = "child" => Children(x.of) \subseteq x.todo

\* A stack of thread t as it stands.
StackHolds(t, s) ==
    /\ s \in Seq(Calls) /\ Ordered(s) /\ Nested(s)
    /\ \A n \in DOMAIN s : CallHolds(t, s[n])
    /\ s # << >> => TopHolds(t, s[1])

\* Types of the registry.
VillageTypes ==
    /\ village \in [Villages -> Village]
    /\ worker \subseteq Villages /\ recorded \subseteq Villages /\ storage \subseteq Villages
    /\ op \in [Villages -> Threads \cup {Free}]
    /\ claimed \subseteq Villages /\ replaced \subseteq Villages
    /\ answered \in [Threads -> BOOLEAN] /\ up \in BOOLEAN
    /\ mishaps \in 0 .. MaxMishaps

\* Ids are given in order, a destination has its source, which came before it,
\* and what can be used runs.
VillagesStand ==
    /\ \E k \in 0 .. NumVillages : \A v \in Villages : Used(v) <=> v <= k
    /\ \A v \in Villages : ~Used(v) => village[v] = NoVillage
    /\ \A v \in Villages : village[v].parent # Free =>
           v \in Owned /\ village[v].parent \in Owned /\ village[v].parent < v
    /\ \A v \in Villages : Usable(v) => v \in worker
    /\ worker \subseteq storage /\ (up => storage \subseteq Owned) /\ (up \/ Owned = {})
    /\ Cardinality(Owned \cup replaced) <= MaxVillages

\* Every thread has such a stack; when the gateway is down, an empty one.
StacksHold ==
    /\ calls = [t \in Threads |-> calls[t]]
    /\ \A t \in Threads : StackHolds(t, calls[t])
    /\ up \/ \A t \in Threads : calls[t] = << >>

\* The inductive invariant behind VillagesServe and TargetsHaveTheirSource.
VillageInv == VillageTypes /\ VillagesStand /\ StacksHold

-----------------------------------------------------------------------------

\* What never comes back: an unused id, a live village, a source, and new
\* destinations of a village that is not live.
VillagesAge ==
    \A v \in Villages : Used(v) =>
        /\ Used(v)'
        /\ ~Is(v, "live") => ~Is(v, "live")' /\ Children(v)' \subseteq Children(v)
        /\ v \notin Owned => v \notin Owned'
        /\ village[v].parent = Free => village'[v].parent = Free
        /\ village[v].ready /\ Is(v, "live")' => village'[v].ready

\* Nothing that a lock of village v protects has changed.
Unmoved(v) ==
    /\ op'[v] = op[v]
    /\ v \in worker' <=> v \in worker
    /\ v \in storage' <=> v \in storage
    /\ Is(v, "retiring") => Is(v, "retiring")'

\* A call keeps what it can rely on, when villages grow older and its own is unmoved.
LEMMA CallStays ==
    ASSUME NEW t, NEW x \in Calls, CallHolds(t, x), VillagesAge, Locks(x) => Unmoved(x.of)
    PROVE  CallHolds(t, x)'
<1>1. x.of \in Villages /\ x.todo \subseteq Villages /\ Used(x.of)
  BY DEF Calls, CallHolds
<1>2. x.at = "children" \/ x.at = "stopped" => x.at # "begin"
  OBVIOUS
<1>3. Used(x.of)' /\ (Locks(x)' => op'[x.of] = t) /\ (Locks(x)' <=> Locks(x))
  BY <1>1 DEF CallHolds, VillagesAge, Unmoved, Locks
<1>4. x.do = "create" => x.of \in storage' /\ (x.at # "begin" => x.of \in worker')
  BY DEF CallHolds, Locks, Unmoved
<1>5. x.do \in {"use", "prepare", "unprepare"} =>
           IF x.at = "begin" THEN Is(x.of, "live")' => village'[x.of].ready
           ELSE x.of \in worker' /\ x.of \in storage'
  <2>1. x.at = "begin" /\ Is(x.of, "live")' => Is(x.of, "live")
    BY <1>1 DEF VillagesAge
  <2> QED
    BY <1>1, <2>1 DEF CallHolds, Locks, Unmoved, VillagesAge
<1>6. x.do \in {"prepare", "unprepare"} => village'[x.of].parent = Free
  BY <1>1 DEF CallHolds, VillagesAge
<1>7. ASSUME x.do = "destroy"
      PROVE  /\ x.at # "begin" => ~Is(x.of, "live")'
             /\ x.at \in {"children", "child", "stopped"} => Is(x.of, "retiring")'
             /\ x.at = "children" => Children(x.of)' \subseteq x.todo
             /\ x.at = "stopped" => Children(x.of)' = {} /\ x.of \notin worker'
             /\ \A c \in x.todo : c > x.of /\ Used(c)'
  <2>1. x.at # "begin" => ~Is(x.of, "live") /\ ~Is(x.of, "live")' /\ Children(x.of)' \subseteq Children(x.of)
    BY <1>1, <1>7 DEF CallHolds, VillagesAge
  <2>2. \A c \in x.todo : c > x.of /\ Used(c)'
    BY <1>1, <1>7 DEF CallHolds, VillagesAge
  <2> QED
    BY <1>2, <1>7, <2>1, <2>2 DEF CallHolds, Locks, Unmoved
<1> QED
  BY <1>3, <1>4, <1>5, <1>6, <1>7 DEF CallHolds

\* A call goes on waiting for one that replaces, under another label, the one inside.
LEMMA WaitsOn ==
    ASSUME NEW t, NEW x \in Calls, CallHolds(t, x), VillagesAge, NEW y, NEW z, Waits(x, y),
           y.do = "destroy" => z.do = "destroy" /\ z.of = y.of
    PROVE  Waits(x, z)'
<1>1. x.of \in Villages /\ Used(x.of)
  BY DEF Calls, CallHolds
<1>2. x.do = "destroy" /\ x.at = "child" => Children(x.of)' \subseteq Children(x.of)
  BY <1>1 DEF CallHolds, VillagesAge
<1> QED
  BY <1>2 DEF Waits

\* What a thread was answered stays true.
LEMMA TopStays ==
    ASSUME NEW t, NEW x \in Calls, CallHolds(t, x), VillagesAge, TopHolds(t, x), answered'[t] => answered[t]
    PROVE  TopHolds(t, x)'
<1>1. x.of \in Villages /\ Used(x.of)
  BY DEF Calls, CallHolds
<1>2. x.do = "destroy" /\ x.at = "child" => Children(x.of)' \subseteq Children(x.of)
  BY <1>1 DEF CallHolds, VillagesAge
<1> QED
  BY <1>1, <1>2 DEF TopHolds, VillagesAge

\* The stack of a thread that takes no step.
LEMMA StackStays ==
    ASSUME NEW t, NEW s, StackHolds(t, s), VillagesAge, answered'[t] = answered[t],
           \A n \in DOMAIN s : Locks(s[n]) => Unmoved(s[n].of)
    PROVE  StackHolds(t, s)'
<1>1. s \in Seq(Calls) /\ \A n \in DOMAIN s : s[n] \in Calls /\ CallHolds(t, s[n])
  BY DEF StackHolds
<1>2. \A n \in DOMAIN s : CallHolds(t, s[n])'
  BY <1>1, CallStays
<1>3. Nested(s)'
  <2> SUFFICES ASSUME NEW n \in DOMAIN s, n > 1
               PROVE  Waits(s[n], s[n - 1])'
    BY DEF Nested
  <2>1. Waits(s[n], s[n - 1])
    BY DEF StackHolds, Nested
  <2> QED
    BY <1>1, <2>1, WaitsOn
<1>4. s # << >> => TopHolds(t, s[1])'
  <2>1. s # << >> => 1 \in DOMAIN s
    BY <1>1
  <2> QED
    BY <1>1, <2>1, TopStays DEF StackHolds
<1> QED
  BY <1>1, <1>2, <1>3, <1>4 DEF StackHolds, Ordered, Below

\* What is left of a stack below a call that ends or goes on in village v.
RestHolds(t, rest, v) ==
    /\ rest \in Seq(Calls) /\ Ordered(rest) /\ Nested(rest)
    /\ \A n \in DOMAIN rest : CallHolds(t, rest[n]) /\ Below(rest[n], v)

\* The innermost call of a thread, and the rest of its stack.
LEMMA TopOf ==
    ASSUME NEW t, NEW s, StackHolds(t, s), s # << >>
    PROVE  /\ Head(s) = s[1] /\ Head(s) \in Calls /\ CallHolds(t, Head(s)) /\ TopHolds(t, Head(s))
           /\ RestHolds(t, Tail(s), Head(s).of)
           /\ Tail(s) # << >> => /\ Waits(Tail(s)[1], Head(s))
                                 /\ Tail(s)[1] \in Calls /\ CallHolds(t, Tail(s)[1])
<1>1. s \in Seq(Calls) /\ Len(s) \in Nat \ {0} /\ DOMAIN s = 1 .. Len(s)
  BY DEF StackHolds
<1>2. Head(s) = s[1] /\ s[1] \in Calls /\ CallHolds(t, s[1]) /\ TopHolds(t, s[1])
  BY <1>1 DEF StackHolds
<1>3. PICK rest : rest = Tail(s)
  OBVIOUS
<1>4. rest \in Seq(Calls) /\ DOMAIN rest = 1 .. Len(s) - 1 /\ \A n \in 1 .. Len(s) - 1 : rest[n] = s[n + 1]
  BY <1>1, <1>3
<1>5. \A n \in DOMAIN rest : n + 1 \in DOMAIN s /\ n + 1 > 1 /\ rest[n] = s[n + 1]
  BY <1>1, <1>4
<1>6. Ordered(rest)
  BY <1>1, <1>4, <1>5 DEF StackHolds, Ordered
<1>7. Nested(rest)
  <2> SUFFICES ASSUME NEW n \in DOMAIN rest, n > 1
               PROVE  Waits(rest[n], rest[n - 1])
    BY DEF Nested
  <2>1. rest[n] = s[n + 1] /\ rest[n - 1] = s[n] /\ n + 1 \in DOMAIN s /\ n + 1 > 1 /\ (n + 1) - 1 = n
    BY <1>1, <1>4
  <2>2. Waits(s[n + 1], s[(n + 1) - 1])
    BY <2>1 DEF StackHolds, Nested
  <2> QED
    BY <2>1, <2>2
<1>8. \A n \in DOMAIN rest : CallHolds(t, rest[n]) /\ Below(rest[n], s[1].of)
  BY <1>1, <1>5 DEF StackHolds, Ordered
<1>9. rest # << >> => Waits(rest[1], s[1]) /\ rest[1] \in Calls /\ CallHolds(t, rest[1])
  <2> SUFFICES ASSUME rest # << >>
               PROVE  Waits(rest[1], s[1]) /\ rest[1] \in Calls /\ CallHolds(t, rest[1])
    OBVIOUS
  <2>1. 1 \in DOMAIN rest /\ rest[1] = s[2] /\ 2 \in DOMAIN s /\ 2 > 1 /\ 2 - 1 = 1
    BY <1>4, <1>5
  <2>2. Waits(s[2], s[2 - 1])
    BY <2>1 DEF StackHolds, Nested
  <2> QED
    BY <1>4, <1>8, <2>1, <2>2
<1> QED
  BY <1>2, <1>3, <1>4, <1>6, <1>7, <1>8, <1>9 DEF RestHolds

\* Calls p fit on what is left of the stack of thread t.
FitsOn(t, p, rest, v) ==
    /\ RestHolds(t, rest, v) /\ Ordered(p) /\ Nested(p)'
    /\ \A n \in DOMAIN p : CallHolds(t, p[n])' /\ p[n].of >= v
    /\ p # << >> /\ rest # << >> => Waits(rest[1], p[Len(p)])'
    /\ p # << >> => TopHolds(t, p[1])'
    /\ p = << >> /\ rest # << >> => TopHolds(t, rest[1])'

\* Of what locks protect, thread t moves at most that of village m, which is its own,
\* nobody's, or a new one.
Moves(t, m) ==
    /\ VillagesAge
    /\ \A w \in Villages \ {m} : Unmoved(w)
    /\ Unmoved(m) \/ op[m] \in {t, Free} \/ ~Used(m)
    /\ \A u \in Threads \ {t} : answered'[u] = answered[u]

\* Calls p are put on what is left of the stack of thread t, while at most
\* village m, no earlier than those, is moved.
LEMMA Put ==
    ASSUME VillageInv, NEW t \in Threads, NEW v \in Villages, NEW m \in Villages, m >= v,
           NEW rest, NEW p \in Seq(Calls), FitsOn(t, p, rest, v), Moves(t, m),
           calls' = [calls EXCEPT ![t] = p \o rest], up'
    PROVE  StacksHold'
<1>0. /\ RestHolds(t, rest, v) /\ Ordered(p) /\ Nested(p)'
      /\ \A n \in DOMAIN p : CallHolds(t, p[n])' /\ p[n].of >= v
      /\ p # << >> /\ rest # << >> => Waits(rest[1], p[Len(p)])'
      /\ p # << >> => TopHolds(t, p[1])'
      /\ p = << >> /\ rest # << >> => TopHolds(t, rest[1])'
      /\ VillagesAge /\ \A w \in Villages \ {m} : Unmoved(w)
      /\ Unmoved(m) \/ op[m] \in {t, Free} \/ ~Used(m)
      /\ \A u \in Threads \ {t} : answered'[u] = answered[u]
  BY DEF FitsOn, Moves
<1>1. v \in Nat /\ m \in Nat /\ \A w \in Villages : w \in Nat
  BY DEF Villages
<1>2. /\ rest \in Seq(Calls) /\ DOMAIN rest = 1 .. Len(rest) /\ Len(rest) \in Nat
      /\ DOMAIN p = 1 .. Len(p) /\ Len(p) \in Nat
  BY <1>0 DEF RestHolds
<1>3. \A x \in Calls : Locks(x) => x.do \notin {"reset", "discard"}
  BY DEF Locks
<1>4. \A n \in DOMAIN rest : rest[n] \in Calls /\ CallHolds(t, rest[n]) /\ Below(rest[n], v)
  BY <1>0, <1>2 DEF RestHolds
<1>5. \A n \in DOMAIN p : p[n] \in Calls /\ p[n].of \in Nat /\ p[n].of >= v
  <2>1. \A x \in Calls : x.of \in Nat
    BY <1>1 DEF Calls
  <2>2. \A n \in DOMAIN p : p[n] \in Calls
    BY <1>2
  <2> QED
    BY <1>0, <2>1, <2>2
<1>6. \A n \in DOMAIN rest : CallHolds(t, rest[n])'
  <2> SUFFICES ASSUME NEW n \in DOMAIN rest
               PROVE  CallHolds(t, rest[n])'
    OBVIOUS
  <2>1. Locks(rest[n]) => rest[n].of \in Villages \ {m}
    BY <1>1, <1>3, <1>4 DEF Below, Calls
  <2> QED
    BY <1>0, <1>4, <2>1, CallStays
<1>7. PICK s : s = p \o rest
  OBVIOUS
<1>8. /\ s \in Seq(Calls) /\ DOMAIN s = 1 .. Len(p) + Len(rest)
      /\ \A n \in DOMAIN p : n \in DOMAIN s /\ s[n] = p[n]
      /\ \A n \in DOMAIN rest : n + Len(p) \in DOMAIN s /\ s[n + Len(p)] = rest[n]
  BY <1>2, <1>7
<1>9. \A n \in DOMAIN s : n \in DOMAIN p \/ \E k \in DOMAIN rest : n = k + Len(p)
  <2> SUFFICES ASSUME NEW n \in DOMAIN s, n \notin DOMAIN p
               PROVE  \E k \in DOMAIN rest : n = k + Len(p)
    OBVIOUS
  <2>1. n - Len(p) \in DOMAIN rest /\ n = (n - Len(p)) + Len(p)
    BY <1>2, <1>8
  <2> QED
    BY <2>1
<1>10. \A n \in DOMAIN s : CallHolds(t, s[n])'
  BY <1>0, <1>6, <1>8, <1>9
<1>11. Ordered(s)
  <2> SUFFICES ASSUME NEW i \in DOMAIN s, NEW j \in DOMAIN s, i < j
               PROVE  Below(s[j], s[i].of)
    BY DEF Ordered
  <2>1. CASE j \in DOMAIN p
    <3>1. i \in DOMAIN p
      BY <1>2, <1>8, <2>1
    <3> QED
      BY <1>0, <1>8, <2>1, <3>1 DEF Ordered
  <2>2. ASSUME NEW k \in DOMAIN rest, j = k + Len(p), i \in DOMAIN p
        PROVE  Below(s[j], s[i].of)
    <3>1. s[j] = rest[k] /\ Below(rest[k], v) /\ s[i].of >= v /\ s[i].of \in Nat /\ rest[k].of \in Nat
      BY <1>1, <1>4, <1>5, <1>8, <2>2 DEF Calls
    <3> QED
      BY <1>1, <3>1 DEF Below
  <2>3. ASSUME NEW k \in DOMAIN rest, j = k + Len(p), NEW l \in DOMAIN rest, i = l + Len(p)
        PROVE  Below(s[j], s[i].of)
    <3>1. l < k /\ s[j] = rest[k] /\ s[i] = rest[l]
      BY <1>2, <1>8, <2>3
    <3> QED
      BY <1>0, <3>1 DEF RestHolds, Ordered
  <2> QED
    BY <1>9, <2>1, <2>2, <2>3
<1>12. Nested(s)'
  <2> SUFFICES ASSUME NEW n \in DOMAIN s, n > 1
               PROVE  Waits(s[n], s[n - 1])'
    BY DEF Nested
  <2>1. CASE n \in DOMAIN p
    <3>1. n - 1 \in DOMAIN p
      BY <1>2, <2>1
    <3>2. s[n] = p[n] /\ s[n - 1] = p[n - 1]
      BY <1>8, <2>1, <3>1
    <3>3. Waits(p[n], p[n - 1])'
      BY <1>0, <2>1 DEF Nested
    <3> QED
      BY <3>2, <3>3
  <2>2. ASSUME n = 1 + Len(p), 1 \in DOMAIN rest
        PROVE  Waits(s[n], s[n - 1])'
    <3>1. Len(p) \in DOMAIN p /\ p # << >> /\ rest # << >> /\ n - 1 = Len(p)
      BY <1>2, <2>2
    <3>2. s[n] = rest[1] /\ s[n - 1] = p[Len(p)]
      BY <1>8, <2>2, <3>1
    <3> QED
      BY <1>0, <3>1, <3>2
  <2>3. ASSUME NEW k \in DOMAIN rest, n = k + Len(p), k # 1
        PROVE  Waits(s[n], s[n - 1])'
    <3>1. k > 1 /\ k - 1 \in DOMAIN rest /\ n - 1 = (k - 1) + Len(p)
      BY <1>2, <2>3
    <3>2. s[n] = rest[k] /\ s[n - 1] = rest[k - 1]
      BY <1>8, <2>3, <3>1
    <3>3. Waits(rest[k], rest[k - 1])
      BY <1>0, <3>1 DEF RestHolds, Nested
    <3>4. Waits(rest[k], rest[k - 1])'
      BY <1>0, <1>4, <3>3, WaitsOn
    <3> QED
      BY <3>2, <3>4
  <2> QED
    BY <1>9, <2>1, <2>2, <2>3
<1>13. s # << >> => TopHolds(t, s[1])'
  <2>1. CASE p = << >>
    <3>1. s = rest
      BY <1>2, <1>7, <2>1
    <3> QED
      BY <1>0, <2>1, <3>1
  <2>2. CASE p # << >>
    <3>1. 1 \in DOMAIN p
      BY <1>2, <2>2
    <3> QED
      BY <1>0, <1>8, <2>2, <3>1
  <2> QED
    BY <2>1, <2>2
<1>14. StackHolds(t, s)'
  BY <1>8, <1>10, <1>11, <1>12, <1>13 DEF StackHolds, Ordered, Below
<1>15. ASSUME NEW u \in Threads \ {t}
       PROVE  StackHolds(u, calls[u])'
  <2>1. PICK r : r = calls[u]
    OBVIOUS
  <2>2. StackHolds(u, r) /\ calls'[u] = r
    BY <2>1 DEF VillageInv, StacksHold
  <2>3. ASSUME NEW n \in DOMAIN r, Locks(r[n])
        PROVE  Unmoved(r[n].of)
    <3>1. r[n] \in Calls /\ CallHolds(u, r[n]) /\ r[n].of \in Villages
      <4>1. r[n] \in Calls /\ CallHolds(u, r[n])
        BY <2>2 DEF StackHolds
      <4> QED
        BY <4>1 DEF Calls
    <3>2. op[r[n].of] = u /\ Used(r[n].of) /\ u # Free
      BY <2>3, <3>1, VillagesAssumption DEF CallHolds, Threads
    <3> QED
      BY <1>0, <3>1, <3>2
  <2>4. StackHolds(u, r)'
    BY <1>0, <2>2, <2>3, StackStays
  <2> QED
    BY <2>2, <2>4
<1>16. calls' = [u \in Threads |-> calls'[u]] /\ calls'[t] = s
  BY <1>7 DEF VillageInv, StacksHold
<1>17. \A u \in Threads : StackHolds(u, calls[u])'
  BY <1>14, <1>15, <1>16
<1> QED
  BY <1>16, <1>17 DEF StacksHold

\* A thread with a call under way, in a gateway that runs.
LEMMA BusyThread ==
    ASSUME VillageInv, NEW t \in Threads, calls[t] # << >>
    PROVE  /\ up /\ calls[t] \in Seq(Calls) /\ Head(calls[t]) = calls[t][1]
           /\ Head(calls[t]) \in Calls /\ CallHolds(t, Head(calls[t])) /\ TopHolds(t, Head(calls[t]))
           /\ RestHolds(t, Tail(calls[t]), Head(calls[t]).of)
           /\ Tail(calls[t]) # << >> =>
                  /\ Waits(Tail(calls[t])[1], Head(calls[t]))
                  /\ Tail(calls[t])[1] \in Calls /\ CallHolds(t, Tail(calls[t])[1])
<1>1. StackHolds(t, calls[t]) /\ up
  BY DEF VillageInv, StacksHold
<1>2. calls[t] \in Seq(Calls)
  BY <1>1 DEF StackHolds
<1> QED
  BY <1>1, <1>2, TopOf

\* The innermost call gives way to another one in its village, or goes on in it.
LEMMA GoesOn ==
    ASSUME VillageInv, NEW t \in Threads, calls[t] # << >>, NEW x, x = Head(calls[t]),
           NEW y \in Calls, y.of = x.of, x.do = "destroy" => y.do = "destroy",
           CallHolds(t, y)', TopHolds(t, y)', Moves(t, x.of),
           calls' = [calls EXCEPT ![t] = <<y>> \o Tail(calls[t])], up' = up
    PROVE  StacksHold'
<1>1. /\ up /\ x \in Calls /\ RestHolds(t, Tail(calls[t]), x.of)
      /\ Tail(calls[t]) # << >> => /\ Waits(Tail(calls[t])[1], x)
                                   /\ Tail(calls[t])[1] \in Calls /\ CallHolds(t, Tail(calls[t])[1])
  BY BusyThread
<1>2. x.of \in Villages /\ x.of \in Nat
  BY <1>1 DEF Calls, Villages
<1>3. PICK p : p = <<y>>
  OBVIOUS
<1>4. p \in Seq(Calls) /\ DOMAIN p = {1} /\ p[1] = y /\ Len(p) = 1 /\ p # << >>
  BY <1>3
<1>5. PICK rest : rest = Tail(calls[t])
  OBVIOUS
<1>6. rest # << >> => Waits(rest[1], y)'
  <2> SUFFICES ASSUME rest # << >>
               PROVE  Waits(rest[1], y)'
    OBVIOUS
  <2>2. rest[1] \in Calls /\ CallHolds(t, rest[1]) /\ Waits(rest[1], x)
    BY <1>1, <1>5
  <2> QED
    BY <2>2, WaitsOn DEF Moves
<1>7. Ordered(p) /\ Nested(p)'
  BY <1>4 DEF Ordered, Nested
<1>8. /\ \A n \in DOMAIN p : CallHolds(t, p[n])' /\ p[n].of >= x.of
      /\ TopHolds(t, p[1])'
      /\ rest # << >> => Waits(rest[1], p[Len(p)])'
  BY <1>2, <1>4, <1>6
<1>9. x.of >= x.of
  BY <1>2
<1>10. RestHolds(t, rest, x.of) /\ calls' = [calls EXCEPT ![t] = p \o rest] /\ up'
  BY <1>1, <1>3, <1>5
<1>11. FitsOn(t, p, rest, x.of)
  BY <1>4, <1>7, <1>8, <1>10 DEF FitsOn
<1> QED
  BY <1>2, <1>4, <1>9, <1>10, <1>11, Put

\* The innermost call ends; a destroy answers truly.
LEMMA Returns ==
    ASSUME VillageInv, NEW t \in Threads, calls[t] # << >>, NEW x, x = Head(calls[t]),
           x.do = "destroy" /\ answered'[t] => x.of \notin Owned', Moves(t, x.of),
           calls' = [calls EXCEPT ![t] = Tail(calls[t])], up' = up
    PROVE  StacksHold'
<1>1. /\ up /\ x \in Calls /\ RestHolds(t, Tail(calls[t]), x.of)
      /\ Tail(calls[t]) # << >> => /\ Waits(Tail(calls[t])[1], x)
                                   /\ Tail(calls[t])[1] \in Calls /\ CallHolds(t, Tail(calls[t])[1])
  BY BusyThread
<1>2. x.of \in Villages /\ x.of \in Nat
  BY <1>1 DEF Calls, Villages
<1>3. PICK p : p = << >>
  OBVIOUS
<1>4. p \in Seq(Calls) /\ DOMAIN p = {} /\ p = << >>
  BY <1>3
<1>5. PICK rest : rest = Tail(calls[t])
  OBVIOUS
<1>6. rest # << >> => TopHolds(t, rest[1])'
  <2> SUFFICES ASSUME rest # << >>
               PROVE  TopHolds(t, rest[1])'
    OBVIOUS
  <2>2. rest[1] \in Calls /\ CallHolds(t, rest[1]) /\ Waits(rest[1], x)
    BY <1>1, <1>5
  <2>3. Waits(rest[1], x)'
    BY <2>2, WaitsOn DEF Moves
  <2>4. \A c \in Children(rest[1].of)' : c \in Owned'
    BY DEF Children
  <2> QED
    BY <2>3, <2>4 DEF TopHolds, Waits
<1>7. Ordered(p) /\ Nested(p)'
  BY <1>4 DEF Ordered, Nested
<1>8. x.of >= x.of
  BY <1>2
<1>9. /\ RestHolds(t, rest, x.of) /\ up'
      /\ calls' = [calls EXCEPT ![t] = p \o rest]
  <2>1. rest \in Seq(Calls)
    BY <1>1, <1>5 DEF RestHolds
  <2>2. p \o rest = rest
    BY <1>3, <2>1
  <2> QED
    BY <1>1, <1>5, <2>2
<1>10. FitsOn(t, p, rest, x.of)
  BY <1>4, <1>6, <1>7, <1>9 DEF FitsOn
<1> QED
  BY <1>2, <1>4, <1>8, <1>9, <1>10, Put

\* The innermost call makes another one, in a later village, and goes on after it.
LEMMA CallsOn ==
    ASSUME VillageInv, NEW t \in Threads, calls[t] # << >>, NEW x, x = Head(calls[t]),
           NEW y \in Calls, y.of = x.of, x.do # "destroy" \/ y.do = "destroy",
           NEW z \in Calls, z.of > x.of, CallHolds(t, y)', CallHolds(t, z)', Waits(y, z)', TopHolds(t, z)',
           NEW m \in {x.of, z.of}, Moves(t, m),
           calls' = [calls EXCEPT ![t] = <<z, y>> \o Tail(calls[t])], up' = up
    PROVE  StacksHold'
<1>1. /\ up /\ x \in Calls /\ RestHolds(t, Tail(calls[t]), x.of)
      /\ Tail(calls[t]) # << >> => /\ Waits(Tail(calls[t])[1], x)
                                   /\ Tail(calls[t])[1] \in Calls /\ CallHolds(t, Tail(calls[t])[1])
  BY BusyThread
<1>2. /\ x.of \in Villages /\ x.of \in Nat /\ z.of \in Villages /\ z.of \in Nat
      /\ m \in Villages /\ m \in Nat /\ m >= x.of
  BY <1>1 DEF Calls, Villages
<1>3. PICK p : p = <<z, y>>
  OBVIOUS
<1>4. p \in Seq(Calls) /\ DOMAIN p = {1, 2} /\ p[1] = z /\ p[2] = y /\ Len(p) = 2 /\ p # << >>
  BY <1>3
<1>5. PICK rest : rest = Tail(calls[t])
  OBVIOUS
<1>6. rest # << >> => Waits(rest[1], y)'
  <2> SUFFICES ASSUME rest # << >>
               PROVE  Waits(rest[1], y)'
    OBVIOUS
  <2>2. rest[1] \in Calls /\ CallHolds(t, rest[1]) /\ Waits(rest[1], x)
    BY <1>1, <1>5
  <2> QED
    BY <2>2, WaitsOn DEF Moves
<1>7. Ordered(p) /\ Nested(p)'
  <2>1. Below(y, z.of)
    BY <1>2 DEF Below
  <2>2. \A i, j \in {1, 2} : i < j => i = 1 /\ j = 2
    OBVIOUS
  <2>3. Ordered(p)
    BY <1>4, <2>1, <2>2 DEF Ordered
  <2>4. \A n \in {1, 2} : n > 1 => n = 2 /\ n - 1 = 1
    OBVIOUS
  <2>5. Nested(p)'
    BY <1>4, <2>4 DEF Nested
  <2> QED
    BY <2>3, <2>5
<1>8. /\ \A n \in DOMAIN p : CallHolds(t, p[n])' /\ p[n].of >= x.of
      /\ TopHolds(t, p[1])'
      /\ rest # << >> => Waits(rest[1], p[Len(p)])'
  BY <1>2, <1>4, <1>6
<1>9. RestHolds(t, rest, x.of) /\ calls' = [calls EXCEPT ![t] = p \o rest] /\ up'
  BY <1>1, <1>3, <1>5
<1>10. FitsOn(t, p, rest, x.of)
  BY <1>4, <1>7, <1>8, <1>9 DEF FitsOn
<1> QED
  BY <1>2, <1>4, <1>9, <1>10, Put

\* A thread at rest takes up a call.
LEMMA Begins ==
    ASSUME VillageInv, NEW t \in Threads, calls[t] = << >>, up, NEW y \in Calls,
           CallHolds(t, y)', TopHolds(t, y)', Moves(t, y.of), up' = up,
           calls' = [calls EXCEPT ![t] = <<y>>]
    PROVE  StacksHold'
<1>1. y.of \in Villages /\ y.of \in Nat /\ y.of >= y.of
  BY DEF Calls, Villages
<1>2. PICK p : p = <<y>>
  OBVIOUS
<1>3. p \in Seq(Calls) /\ DOMAIN p = {1} /\ p[1] = y /\ Len(p) = 1 /\ p # << >>
  BY <1>2
<1>4. PICK rest : rest = << >>
  OBVIOUS
<1>5. rest \in Seq(Calls) /\ DOMAIN rest = {} /\ rest = << >>
  BY <1>4
<1>6. RestHolds(t, rest, y.of)
  BY <1>5 DEF RestHolds, Ordered, Nested
<1>7. Ordered(p) /\ Nested(p)'
  BY <1>3 DEF Ordered, Nested
<1>8. /\ \A n \in DOMAIN p : CallHolds(t, p[n])' /\ p[n].of >= y.of
      /\ TopHolds(t, p[1])'
  BY <1>1, <1>3
<1>9. p \o rest = p
  BY <1>3, <1>5
<1>10. calls' = [calls EXCEPT ![t] = p \o rest]
  BY <1>2, <1>9
<1>11. FitsOn(t, p, rest, y.of)
  BY <1>3, <1>5, <1>6, <1>7, <1>8 DEF FitsOn
<1> QED
  BY <1>1, <1>3, <1>10, <1>11, Put

\* The innermost call of a stack is replaced.
LEMMA TopPut ==
    ASSUME NEW s \in Seq(Calls), s # << >>, NEW y \in Calls
    PROVE  [s EXCEPT ![1] = y] = <<y>> \o Tail(s)
<1>1. PICK r : r = [s EXCEPT ![1] = y]
  OBVIOUS
<1>2. PICK q : q = <<y>> \o Tail(s)
  OBVIOUS
<1>3. Len(s) \in Nat \ {0} /\ DOMAIN s = 1 .. Len(s)
  OBVIOUS
<1>4. r \in Seq(Calls) /\ Len(r) = Len(s)
  BY <1>1, <1>3
<1>5. PICK rest : rest = Tail(s)
  OBVIOUS
<1>6. /\ rest \in Seq(Calls) /\ rest = Tail(s) /\ Len(rest) = Len(s) - 1
      /\ DOMAIN rest = 1 .. Len(s) - 1 /\ \A n \in 1 .. Len(s) - 1 : rest[n] = s[n + 1]
  BY <1>3, <1>5
<1>7. q \in Seq(Calls) /\ Len(q) = Len(s) /\ q[1] = y /\ \A n \in 1 .. Len(s) - 1 : q[n + 1] = rest[n]
  BY <1>2, <1>3, <1>6
<1>8. ASSUME NEW n \in 1 .. Len(s)
      PROVE  r[n] = q[n]
  <2>1. CASE n = 1
    BY <1>1, <1>3, <1>7, <2>1
  <2>2. CASE n # 1
    <3>1. n - 1 \in 1 .. Len(s) - 1 /\ (n - 1) + 1 = n
      BY <1>3, <2>2
    <3>2. q[n] = s[n]
      BY <1>6, <1>7, <3>1
    <3> QED
      BY <1>1, <1>3, <2>2, <3>2
  <2> QED
    BY <2>1, <2>2
<1> QED
  BY <1>1, <1>2, <1>4, <1>7, <1>8, SeqEqual

\* A call under another label.
LEMMA AtPut ==
    ASSUME NEW x \in Calls, NEW at \in Labels, NEW y, y = [x EXCEPT !.at = at]
    PROVE  y \in Calls /\ y.at = at /\ y.do = x.do /\ y.of = x.of /\ y.todo = x.todo
BY DEF Calls

\* A call that begins.
LEMMA CallIs ==
    ASSUME NEW do \in {"create", "use", "prepare", "unprepare", "reset", "discard", "destroy"}, NEW v \in Villages
    PROVE  /\ Call(do, v) \in Calls /\ Call(do, v).do = do /\ Call(do, v).of = v
           /\ Call(do, v).at = "begin" /\ Call(do, v).todo = {}
BY DEF Call, Calls, Labels

\* The innermost call goes to another label.
LEMMA GoesTo ==
    ASSUME VillageInv, NEW t \in Threads, calls[t] # << >>, NEW x, x = Head(calls[t]),
           NEW at \in Labels, GoTo(t, at), NEW y, y = [x EXCEPT !.at = at],
           CallHolds(t, y)', TopHolds(t, y)', Moves(t, x.of), up' = up
    PROVE  StacksHold'
<1>1. x \in Calls /\ calls[t] \in Seq(Calls) /\ x = calls[t][1]
  BY BusyThread
<1>2. y \in Calls /\ y.do = x.do /\ y.of = x.of
  BY <1>1, AtPut
<1>3. calls' = [calls EXCEPT ![t] = [calls[t] EXCEPT ![1] = y]]
  BY <1>1 DEF GoTo
<1>4. calls' = [calls EXCEPT ![t] = <<y>> \o Tail(calls[t])]
  BY <1>1, <1>2, <1>3, TopPut
<1> QED
  BY <1>2, <1>4, GoesOn

\* No thread takes a step.
LEMMA NobodyMoves ==
    ASSUME VillageInv, VillagesAge, \A w \in Villages : Unmoved(w), UNCHANGED <<calls, answered, up>>
    PROVE  StacksHold'
<1>1. ASSUME NEW u \in Threads
      PROVE  StackHolds(u, calls[u])'
  <2>1. PICK r : r = calls[u]
    OBVIOUS
  <2>2. StackHolds(u, r) /\ calls'[u] = r
    BY <2>1 DEF VillageInv, StacksHold
  <2>3. ASSUME NEW n \in DOMAIN r
        PROVE  Unmoved(r[n].of)
    <3>1. r[n] \in Calls
      BY <2>2 DEF StackHolds
    <3> QED
      BY <3>1 DEF Calls
  <2>4. StackHolds(u, r)'
    BY <2>2, <2>3, StackStays
  <2> QED
    BY <2>2, <2>4
<1> QED
  BY <1>1 DEF VillageInv, StacksHold

\* Villages that stay as they are.
LEMMA VillagesStay ==
    ASSUME VillageInv, UNCHANGED village
    PROVE  /\ VillagesAge /\ Owned' = Owned
           /\ \A w \in Villages : Children(w)' = Children(w) /\ (Usable(w)' <=> Usable(w))
BY DEF VillagesAge, Used, Is, Children, Owned, Usable

\* There are finitely many ids.
LEMMA VillagesFinite == IsFiniteSet(Villages)
<1>1. 1 \in Int /\ NumVillages \in Int
  BY VillagesAssumption
<1> QED
  BY <1>1, FS_Interval DEF Villages

\* Nothing that locks protect has changed but the locks.
LEMMA QuietStep ==
    ASSUME VillageInv, UNCHANGED <<village, worker, storage, up>>, replaced' \subseteq replaced \cup Owned
    PROVE  VillagesStand' /\ VillagesAge /\ \A w \in Villages : op'[w] = op[w] => Unmoved(w)
<1>1. VillagesStand'
  <2>1. Owned' = Owned
    BY VillagesStay
  <2>2. PICK o : o = Owned \cup replaced
    OBVIOUS
  <2>3. IsFiniteSet(Villages) /\ o \subseteq Villages /\ Cardinality(o) <= MaxVillages
    <3>1. 1 \in Int /\ NumVillages \in Int
      BY VillagesAssumption
    <3>2. IsFiniteSet(Villages)
      BY <3>1, FS_Interval DEF Villages
    <3> QED
      BY <2>2, <3>2 DEF Owned, VillageInv, VillageTypes, VillagesStand
  <2>4. PICK q : q = Owned' \cup replaced'
    OBVIOUS
  <2>5. q \subseteq o
    BY <2>1, <2>2, <2>4
  <2>6. IsFiniteSet(o) /\ IsFiniteSet(q) /\ Cardinality(q) <= Cardinality(o)
    BY <2>3, <2>5, FS_Subset
  <2>7. Cardinality(q) <= MaxVillages
    BY <2>3, <2>6, FS_CardinalityType, VillagesAssumption
  <2> QED
    BY <2>1, <2>4, <2>7 DEF VillageInv, VillagesStand, Used, Usable, Is
<1> QED
  BY <1>1, VillagesStay DEF Unmoved, Is

\* The record of village v changes: it goes on, becomes ready, expires, or retires.
LEMMA RecordChanges ==
    ASSUME VillageInv, NEW v \in Villages, UNCHANGED <<replaced, worker, storage, up>>,
           NEW z \in Village, village' = [village EXCEPT ![v] = z], z.parent = village[v].parent,
           (z.at = village[v].at /\ Used(v)) \/ (z.at = "retiring" /\ v \in Owned),
           village[v].ready => z.ready, z.at = "live" /\ z.ready => v \in worker
    PROVE  VillagesStand' /\ VillagesAge /\ village' \in [Villages -> Village]
           /\ \A w \in Villages : op'[w] = op[w] => Unmoved(w)
<1>1. /\ village' \in [Villages -> Village] /\ village'[v] = z
      /\ \A w \in Villages \ {v} : village'[w] = village[w]
  BY DEF VillageInv, VillageTypes
<1>2. Owned' = Owned /\ \A w \in Villages : Used(w)' <=> Used(w)
  BY <1>1 DEF Owned, Is, Used
<1>3. \A w \in Villages : village'[w].parent = village[w].parent
  BY <1>1
<1>4. \A w \in Villages : Children(w)' = Children(w)
  BY <1>2, <1>3 DEF Children, Owned
<1>5. VillagesAge
  BY <1>1, <1>2, <1>3, <1>4 DEF VillagesAge, Is, Owned
<1>6. VillagesStand'
  <2>1. \A w \in Villages : Usable(w)' => w \in worker'
    BY <1>1 DEF Usable, Is, VillageInv, VillagesStand
  <2>2. \A w \in Villages : ~Used(w)' => village'[w] = NoVillage
    <3>1. Used(v)
      BY DEF Owned, Used, Is
    <3> QED
      BY <1>1, <1>2, <3>1 DEF VillageInv, VillagesStand
  <2> QED
    BY <1>2, <1>3, <2>1, <2>2 DEF VillageInv, VillagesStand
<1>7. \A w \in Villages : Is(w, "retiring") => Is(w, "retiring")'
  BY <1>1 DEF Is
<1> QED
  BY <1>1, <1>5, <1>6, <1>7 DEF Unmoved

-----------------------------------------------------------------------------

\* The worker of a new village is started.
LEMMA SpawnStep ==
    ASSUME VillageInv, NEW t \in Threads, Spawn(t)
    PROVE  VillageInv'
<1>1. PICK x : x = Head(calls[t])
  OBVIOUS
<1>2. /\ calls[t] # << >> /\ x.do = "create" /\ x.at = "begin"
      /\ worker' = worker \cup {x.of} /\ GoTo(t, "spawned")
      /\ UNCHANGED <<village, claimed, replaced, recorded, storage, op, answered, up, mishaps>>
  BY <1>1 DEF Spawn, Doing, Current, registry
<1>3. x \in Calls /\ CallHolds(t, x) /\ x.of \in Villages /\ op[x.of] = t /\ x.of \in storage
  BY <1>1, <1>2, BusyThread DEF Calls, CallHolds, Locks
<1>4. PICK y : y = [x EXCEPT !.at = "spawned"]
  OBVIOUS
<1>5. y \in Calls /\ y.at = "spawned" /\ y.do = x.do /\ y.of = x.of
  BY <1>3, <1>4, AtPut DEF Labels
<1>6. CallHolds(t, y)' /\ TopHolds(t, y)'
  BY <1>2, <1>3, <1>5 DEF CallHolds, TopHolds, Locks, Used
<1>7. VillagesAge /\ Owned' = Owned
  BY <1>2, VillagesStay
<1>8. Moves(t, x.of)
  BY <1>2, <1>3, <1>7 DEF Moves, Unmoved, Is
<1>9. StacksHold'
  BY <1>1, <1>2, <1>4, <1>6, <1>8, GoesTo DEF Labels
<1>10. VillagesStand'
  BY <1>2, <1>3, <1>7 DEF VillageInv, VillagesStand, Used, Usable, Is
<1>11. VillageTypes'
  BY <1>2, <1>3 DEF VillageInv, VillageTypes
<1> QED
  BY <1>9, <1>10, <1>11 DEF VillageInv

\* Its identity is written down.
LEMMA RecordStep ==
    ASSUME VillageInv, NEW t \in Threads, record_worker(t)
    PROVE  VillageInv'
<1>1. PICK x : x = Head(calls[t])
  OBVIOUS
<1>2. /\ calls[t] # << >> /\ x.do = "create" /\ x.at = "spawned"
      /\ recorded' = recorded \cup {x.of} /\ GoTo(t, "recorded")
      /\ UNCHANGED <<village, claimed, replaced, worker, storage, op, answered, up, mishaps>>
  BY <1>1 DEF record_worker, Doing, Current, registry
<1>3. x \in Calls /\ CallHolds(t, x) /\ x.of \in Villages /\ op[x.of] = t
  BY <1>1, <1>2, BusyThread DEF Calls, CallHolds, Locks
<1>4. PICK y : y = [x EXCEPT !.at = "recorded"]
  OBVIOUS
<1>5. y \in Calls /\ y.at = "recorded" /\ y.do = x.do /\ y.of = x.of
  BY <1>3, <1>4, AtPut DEF Labels
<1>6. CallHolds(t, y)' /\ TopHolds(t, y)'
  BY <1>2, <1>3, <1>5 DEF CallHolds, TopHolds, Locks, Used
<1>7. VillagesStand' /\ VillagesAge /\ \A w \in Villages : Unmoved(w)
  BY <1>2, QuietStep
<1>8. Moves(t, x.of)
  BY <1>2, <1>3, <1>7 DEF Moves
<1>9. StacksHold'
  BY <1>1, <1>2, <1>4, <1>6, <1>8, GoesTo DEF Labels
<1>10. VillageTypes'
  BY <1>2, <1>3 DEF VillageInv, VillageTypes
<1> QED
  BY <1>7, <1>9, <1>10 DEF VillageInv

\* A new village is ready.
LEMMA ReadyStep ==
    ASSUME VillageInv, NEW t \in Threads, BecomeReady(t)
    PROVE  VillageInv'
<1>1. PICK x : x = Head(calls[t])
  OBVIOUS
<1>2. /\ calls[t] # << >> /\ x.do = "create" /\ x.at = "recorded"
      /\ village' = [village EXCEPT ![x.of].ready = TRUE] /\ op' = [op EXCEPT ![x.of] = Free]
      /\ calls' = [calls EXCEPT ![t] = Tail(calls[t])]
      /\ UNCHANGED <<claimed, replaced, worker, recorded, storage, answered, up, mishaps>>
  BY <1>1 DEF BecomeReady, Doing, Current, Release, Return, scratch
<1>3. /\ x \in Calls /\ CallHolds(t, x) /\ x.of \in Villages /\ op[x.of] = t /\ Used(x.of)
      /\ x.of \in worker
  BY <1>1, <1>2, BusyThread DEF Calls, CallHolds, Locks
<1>4. PICK z : z = [village[x.of] EXCEPT !.ready = TRUE]
  OBVIOUS
<1>5. village[x.of] \in Village
  BY <1>3 DEF VillageInv, VillageTypes
<1>6. /\ z \in Village /\ z.at = village[x.of].at /\ z.parent = village[x.of].parent
      /\ z.ready = TRUE
  BY <1>4, <1>5 DEF Village
<1>7. /\ village' = [village EXCEPT ![x.of] = z]
      /\ (z.at = village[x.of].at /\ Used(x.of)) \/ (z.at = "retiring" /\ x.of \in Owned)
      /\ village[x.of].ready => z.ready
      /\ z.at = "live" /\ z.ready => x.of \in worker
  BY <1>2, <1>3, <1>4, <1>6
<1>8. VillagesStand' /\ VillagesAge /\ village' \in [Villages -> Village]
      /\ \A w \in Villages : op'[w] = op[w] => Unmoved(w)
  BY <1>2, <1>3, <1>6, <1>7, RecordChanges
<1>9. op' \in [Villages -> Threads \cup {Free}] /\ \A w \in Villages \ {x.of} : op'[w] = op[w]
  BY <1>2 DEF VillageInv, VillageTypes
<1>10. Moves(t, x.of)
  BY <1>2, <1>3, <1>8, <1>9 DEF Moves
<1>11. StacksHold'
  BY <1>1, <1>2, <1>10, Returns
<1>12. VillageTypes'
  BY <1>2, <1>8, <1>9 DEF VillageInv, VillageTypes
<1> QED
  BY <1>8, <1>11, <1>12 DEF VillageInv

\* A village that does not start is destroyed.
LEMMA StartupFailsStep ==
    ASSUME VillageInv, NEW t \in Threads, StartupFails(t)
    PROVE  VillageInv'
<1>1. PICK x : x = Head(calls[t])
  OBVIOUS
<1>2. /\ calls[t] # << >> /\ x.do = "create" /\ op' = [op EXCEPT ![x.of] = Free]
      /\ calls' = [calls EXCEPT ![t] = <<Call("destroy", x.of)>> \o Tail(calls[t])]
      /\ UNCHANGED <<village, claimed, replaced, worker, recorded, storage, answered, up>>
      /\ (UNCHANGED mishaps) \/ (mishaps < MaxMishaps /\ mishaps' = mishaps + 1)
  BY <1>1 DEF StartupFails, Doing, Current, Release, scratch, registry
<1>3. x \in Calls /\ CallHolds(t, x) /\ x.of \in Villages /\ op[x.of] = t /\ Used(x.of)
  BY <1>1, <1>2, BusyThread DEF Calls, CallHolds, Locks
<1>4. PICK y : y = Call("destroy", x.of)
  OBVIOUS
<1>5. y \in Calls /\ y.at = "begin" /\ y.do = "destroy" /\ y.of = x.of /\ y.todo = {}
  BY <1>3, <1>4, CallIs
<1>6. VillagesStand' /\ VillagesAge /\ \A w \in Villages : op'[w] = op[w] => Unmoved(w)
  BY <1>2, QuietStep
<1>7. CallHolds(t, y)' /\ TopHolds(t, y)'
  BY <1>2, <1>3, <1>5 DEF CallHolds, TopHolds, Locks, Used
<1>8. op' \in [Villages -> Threads \cup {Free}] /\ \A w \in Villages \ {x.of} : op'[w] = op[w]
  BY <1>2 DEF VillageInv, VillageTypes
<1>9. Moves(t, x.of)
  BY <1>2, <1>3, <1>6, <1>8 DEF Moves
<1>10. StacksHold'
  BY <1>1, <1>2, <1>4, <1>5, <1>7, <1>9, GoesOn
<1>11. VillageTypes'
  BY <1>2, <1>8, VillagesAssumption DEF VillageInv, VillageTypes
<1> QED
  BY <1>6, <1>10, <1>11 DEF VillageInv

\* A new village: its id is the next one, and there is room for it.
LEMMA Allocates ==
    ASSUME VillageInv, up, NEW t \in Threads, NEW v \in Villages, NEW owner \in Owners \cup Villages,
           NEW parent \in Villages \cup {Free}, NEW replacement \in SUBSET Villages,
           replacement \cap Owned = {}, Allocate(t, v, owner, parent, replacement),
           UNCHANGED <<worker, answered, up>>
    PROVE  /\ VillagesStand' /\ Moves(t, v) /\ Used(v)' /\ ~Used(v)
           /\ \A w \in Villages : Used(w) => w < v
           /\ op'[v] = t /\ v \in storage' /\ Children(v)' = {}
           /\ village' \in [Villages -> Village] /\ replaced' \subseteq Villages
           /\ storage' \subseteq Villages /\ op' \in [Villages -> Threads \cup {Free}]
<1>1. PICK k \in 0 .. NumVillages : \A w \in Villages : Used(w) <=> w <= k
  BY DEF VillageInv, VillagesStand
<1>2. k \in Nat /\ v \in Nat /\ \A w \in Villages : w \in Nat /\ w # Free
  BY VillagesAssumption DEF Villages
<1>3. {w \in Villages : village[w] # NoVillage} = 1 .. k
  <2>1. \A w \in Villages : village[w] # NoVillage <=> Used(w)
    <3>1. NoVillage.at = "none"
      BY DEF NoVillage
    <3>2. \A w \in Villages : ~Used(w) => village[w] = NoVillage
      BY DEF VillageInv, VillagesStand
    <3> QED
      BY <3>1, <3>2 DEF Used
  <2>2. \A w \in 1 .. k : w \in Villages
    BY <1>1, VillagesAssumption DEF Villages
  <2> QED
    BY <1>1, <1>2, <2>1, <2>2 DEF Villages
<1>4. Cardinality(1 .. k) = k
  BY <1>2, FS_Interval
<1>5. v = k + 1
  BY <1>3, <1>4 DEF Allocate
<1>6. ~Used(v) /\ village[v] = NoVillage /\ \A w \in Villages : Used(w) => w < v
  BY <1>1, <1>2, <1>5 DEF VillageInv, VillagesStand
<1>7. PICK z : z = [NoVillage EXCEPT !.at = "live", !.owner = owner, !.parent = parent]
  OBVIOUS
<1>8. z \in Village /\ z.at = "live" /\ z.parent = parent /\ z.ready = FALSE
  <2>1. z = [at |-> "live", owner |-> owner, parent |-> parent, ready |-> FALSE,
              expired |-> FALSE, cleanups |-> 0, due |-> FALSE]
    BY <1>7 DEF NoVillage
  <2>2. 0 \in 0 .. MaxCleanups
    BY VillagesAssumption
  <2> QED
    BY <2>1, <2>2 DEF Village
<1>9. /\ village' \in [Villages -> Village] /\ village'[v] = z
      /\ \A w \in Villages \ {v} : village'[w] = village[w]
  BY <1>7, <1>8 DEF Allocate, VillageInv, VillageTypes
<1>10. /\ replaced' = replaced \ replacement /\ storage' = storage \cup {v}
       /\ op' \in [Villages -> Threads \cup {Free}] /\ op'[v] = t
       /\ \A w \in Villages \ {v} : op'[w] = op[w]
  BY DEF Allocate, VillageInv, VillageTypes
<1>11. parent # Free => parent \in Villages /\ Is(parent, "live") /\ Used(parent) /\ parent < v /\ parent \in Owned
  BY <1>6 DEF Allocate, MayOwn, Is, Used, Owned
<1>12. Owned' = Owned \cup {v} /\ v \notin Owned
  BY <1>6, <1>8, <1>9 DEF Owned, Is, NoVillage
<1>13. \A w \in Villages : Used(w)' <=> Used(w) \/ w = v
  BY <1>8, <1>9 DEF Used
<1>14. ASSUME NEW w \in Villages, w # parent
       PROVE  Children(w)' \subseteq Children(w)
  <2> SUFFICES ASSUME NEW c \in Owned', village'[c].parent = w
               PROVE  c \in Owned /\ village[c].parent = w
    BY DEF Children
  <2>1. c # v
    BY <1>8, <1>9, <1>14
  <2>2. c \in Owned /\ c \in Villages
    BY <1>12, <2>1 DEF Owned
  <2> QED
    BY <1>9, <2>1, <2>2
<1>15. Children(v)' = {}
  <2>1. v # parent
    BY <1>2, <1>11
  <2>2. Children(v) = {}
    <3> SUFFICES ASSUME NEW c \in Owned, village[c].parent = v
                 PROVE  FALSE
      BY DEF Children
    <3>1. c \in Villages /\ v # Free
      BY <1>2 DEF Owned
    <3>2. v \in Owned
      BY <3>1 DEF VillageInv, VillagesStand
    <3> QED
      BY <1>12, <3>2
  <2> QED
    BY <1>14, <2>1, <2>2
<1>16. VillagesAge
  <2> SUFFICES ASSUME NEW w \in Villages, Used(w)
               PROVE  /\ Used(w)'
                      /\ ~Is(w, "live") => ~Is(w, "live")' /\ Children(w)' \subseteq Children(w)
                      /\ w \notin Owned => w \notin Owned'
                      /\ village[w].parent = Free => village'[w].parent = Free
                      /\ village[w].ready /\ Is(w, "live")' => village'[w].ready
    BY DEF VillagesAge
  <2>1. w # v /\ village'[w] = village[w]
    BY <1>6, <1>9
  <2>2. ~Is(w, "live") => w # parent
    BY <1>2, <1>11
  <2> QED
    BY <1>12, <1>13, <1>14, <2>1, <2>2 DEF Is
<1>17. Moves(t, v)
  BY <1>6, <1>9, <1>10, <1>16 DEF Moves, Unmoved, Is
<1>18. Cardinality(Owned' \cup replaced') <= MaxVillages
  <2>1. IsFiniteSet(Villages)
    <3>1. 1 \in Int /\ NumVillages \in Int
      BY VillagesAssumption
    <3> QED
      BY <3>1, FS_Interval DEF Villages
  <2>2. PICK o : o = Occupied(replacement)
    OBVIOUS
  <2>3. o \subseteq Villages /\ Cardinality(o) < MaxVillages
    BY <2>2 DEF Occupied, Owned, VillageInv, VillageTypes, Allocate
  <2>4. IsFiniteSet(o) /\ Cardinality(o) \in Nat
    BY <2>1, <2>3, FS_Subset, FS_CardinalityType
  <2>5. IsFiniteSet(o \cup {v}) /\ Cardinality(o \cup {v}) <= Cardinality(o) + 1 /\ Cardinality(o \cup {v}) \in Nat
    <3>1. /\ IsFiniteSet(o \cup {v})
          /\ Cardinality(o \cup {v}) = IF v \in o THEN Cardinality(o) ELSE Cardinality(o) + 1
      BY <2>4, FS_AddElement
    <3> QED
      BY <2>4, <3>1, FS_CardinalityType
  <2>6. Owned' \cup replaced' \subseteq o \cup {v}
    BY <1>10, <1>12, <2>2 DEF Occupied
  <2>7. Cardinality(Owned' \cup replaced') <= Cardinality(o \cup {v}) /\ Cardinality(Owned' \cup replaced') \in Nat
    BY <2>5, <2>6, FS_Subset, FS_CardinalityType
  <2> QED
    BY <2>3, <2>4, <2>5, <2>7, VillagesAssumption
<1>19. VillagesStand'
  <2>1. k + 1 \in 0 .. NumVillages /\ \A w \in Villages : Used(w)' <=> w <= k + 1
    BY <1>1, <1>2, <1>5, <1>13, VillagesAssumption DEF Villages
  <2>2. \A w \in Villages : ~Used(w)' => village'[w] = NoVillage
    BY <1>9, <1>13 DEF VillageInv, VillagesStand
  <2>3. \A w \in Villages : village'[w].parent # Free =>
           w \in Owned' /\ village'[w].parent \in Owned' /\ village'[w].parent < w
    BY <1>8, <1>9, <1>11, <1>12 DEF VillageInv, VillagesStand
  <2>4. \A w \in Villages : Usable(w)' => w \in worker'
    BY <1>8, <1>9 DEF VillageInv, VillagesStand, Usable, Is
  <2>5. worker' \subseteq storage' /\ storage' \subseteq Owned'
    BY <1>10, <1>12 DEF VillageInv, VillagesStand
  <2> QED
    BY <1>18, <2>1, <2>2, <2>3, <2>4, <2>5 DEF VillagesStand
<1> QED
  BY <1>6, <1>9, <1>10, <1>13, <1>15, <1>17, <1>19 DEF VillageInv, VillageTypes

\* A call to create a new village, once its id is allocated.
LEMMA CreateHolds ==
    ASSUME NEW t \in Threads, NEW v \in Villages, Used(v)', op'[v] = t, v \in storage'
    PROVE  Call("create", v) \in Calls /\ CallHolds(t, Call("create", v))' /\ TopHolds(t, Call("create", v))'
<1>1. PICK y : y = Call("create", v)
  OBVIOUS
<1>2. y \in Calls /\ y.do = "create" /\ y.of = v /\ y.at = "begin" /\ y.todo = {}
  BY <1>1, CallIs
<1>3. CallHolds(t, y)' /\ TopHolds(t, y)'
  BY <1>2 DEF CallHolds, TopHolds
<1> QED
  BY <1>1, <1>2, <1>3

\* A visitor makes a village.
LEMMA StartStep ==
    ASSUME VillageInv, NEW t \in Threads, NEW v \in Villages, NEW owner \in Owners, start(t, v, owner)
    PROVE  VillageInv'
<1>1. /\ up /\ calls[t] = << >> /\ Allocate(t, v, owner, Free, {})
      /\ calls' = [calls EXCEPT ![t] = <<Call("create", v)>> \o calls[t]]
      /\ UNCHANGED <<claimed, worker, recorded, answered, up, mishaps>>
  BY DEF start, AtRest, Push
<1>2. /\ VillagesStand' /\ Moves(t, v) /\ Used(v)' /\ op'[v] = t /\ v \in storage'
      /\ village' \in [Villages -> Village] /\ replaced' \subseteq Villages
      /\ storage' \subseteq Villages /\ op' \in [Villages -> Threads \cup {Free}]
  <2>1. Free \in Villages \cup {Free} /\ owner \in Owners \cup Villages /\ {} \in SUBSET Villages /\ {} \cap Owned = {}
    OBVIOUS
  <2> QED
    BY <1>1, <2>1, Allocates
<1>3. PICK y : y = Call("create", v)
  OBVIOUS
<1>4. y \in Calls /\ y.of = v /\ CallHolds(t, y)' /\ TopHolds(t, y)'
  BY <1>2, <1>3, CreateHolds, CallIs
<1>5. calls' = [calls EXCEPT ![t] = <<y>>]
  BY <1>1, <1>3
<1>6. StacksHold'
  BY <1>1, <1>2, <1>4, <1>5, Begins
<1>7. VillageTypes'
  BY <1>1, <1>2 DEF VillageInv, VillageTypes
<1> QED
  BY <1>2, <1>6, <1>7 DEF VillageInv

\* A thread at rest begins a call in a village, and nothing else happens.
LEMMA TakesUp ==
    ASSUME VillageInv, NEW t \in Threads, calls[t] = << >>, up, NEW y \in Calls, y.at = "begin", y.todo = {},
           Used(y.of), y.do \in {"use", "prepare", "unprepare"} => village[y.of].ready,
           y.do \in {"prepare", "unprepare"} => village[y.of].parent = Free,
           y.do \in {"use", "prepare", "unprepare", "destroy"},
           calls' = [calls EXCEPT ![t] = <<y>> \o calls[t]],
           UNCHANGED <<registry, scratch, op, answered, up, mishaps>>
    PROVE  VillageInv'
<1>1. UNCHANGED <<village, claimed, replaced, worker, recorded, storage, op, answered, up, mishaps>>
  BY DEF registry, scratch
<1>2. VillagesStand' /\ VillagesAge /\ \A w \in Villages : Unmoved(w)
  BY <1>1, QuietStep
<1>3. CallHolds(t, y)' /\ TopHolds(t, y)'
  BY <1>1 DEF CallHolds, TopHolds, Locks, Used
<1>4. y.of \in Villages /\ Moves(t, y.of)
  BY <1>1, <1>2 DEF Moves, Calls
<1>5. calls' = [calls EXCEPT ![t] = <<y>>]
  OBVIOUS
<1>6. StacksHold'
  BY <1>1, <1>3, <1>4, <1>5, Begins
<1>7. VillageTypes'
  BY <1>1 DEF VillageInv, VillageTypes
<1> QED
  BY <1>2, <1>6, <1>7 DEF VillageInv

\* A request is let in to its village, or destroys it when it has expired.
LEMMA GetStep ==
    ASSUME VillageInv, NEW t \in Threads, NEW v \in Villages, NEW do \in {"use", "prepare", "unprepare"},
           do # "use" => village[v].parent = Free, get(t, v, Call(do, v))
    PROVE  VillageInv'
<1>1. PICK y : y = IF village[v].expired THEN Call("destroy", v) ELSE Call(do, v)
  OBVIOUS
<1>2. /\ y \in Calls /\ y.at = "begin" /\ y.todo = {} /\ y.of = v
      /\ y.do = IF village[v].expired THEN "destroy" ELSE do
  BY <1>1, CallIs
<1>3. /\ calls[t] = << >> /\ up /\ Usable(v)
      /\ calls' = [calls EXCEPT ![t] = <<y>> \o calls[t]]
      /\ UNCHANGED <<registry, scratch, op, answered, up, mishaps>>
  BY <1>1 DEF get, AtRest, Push
<1>4. Used(v) /\ village[v].ready
  BY <1>3 DEF Usable, Used, Is
<1> QED
  BY <1>2, <1>3, <1>4, TakesUp

\* The reaper takes up what has expired, or what waits for another attempt.
LEMMA ReapStep ==
    ASSUME VillageInv, NEW v \in Villages, reap(v)
    PROVE  VillageInv'
<1>1. PICK y : y = IF Is(v, "retiring") THEN [Call("destroy", v) EXCEPT !.retry = TRUE] ELSE Call("destroy", v)
  OBVIOUS
<1>2. y \in Calls /\ y.at = "begin" /\ y.todo = {} /\ y.of = v /\ y.do = "destroy"
  BY <1>1 DEF Call, Calls, Labels
<1>3. /\ calls[Reaper] = << >> /\ up /\ Used(v)
      /\ calls' = [calls EXCEPT ![Reaper] = <<y>> \o calls[Reaper]]
      /\ UNCHANGED <<registry, scratch, op, answered, up, mishaps>>
  BY <1>1 DEF reap, AtRest, Push, Usable, Used, Is
<1>4. Reaper \in Threads
  BY DEF Threads
<1> QED
  BY <1>2, <1>3, <1>4, TakesUp

\* Villages stay, and a thread moves at most the lock of one that is its own or nobody's.
LEMMA Quietly ==
    ASSUME VillageInv, NEW t \in Threads, NEW m \in Villages, UNCHANGED <<village, worker, storage, up>>,
           replaced' \subseteq replaced \cup Owned,
           (UNCHANGED op) \/ (op[m] \in {t, Free} /\ \E h \in Threads \cup {Free} : op' = [op EXCEPT ![m] = h]),
           \A u \in Threads \ {t} : answered'[u] = answered[u]
    PROVE  VillagesStand' /\ Moves(t, m) /\ VillagesAge /\ op' \in [Villages -> Threads \cup {Free}]
<1>1. VillagesStand' /\ VillagesAge /\ \A w \in Villages : op'[w] = op[w] => Unmoved(w)
  BY QuietStep
<1>2. op' \in [Villages -> Threads \cup {Free}] /\ \A w \in Villages \ {m} : op'[w] = op[w]
  BY DEF VillageInv, VillageTypes
<1> QED
  BY <1>1, <1>2 DEF Moves

\* A request waits for the lock of its village, and looks again.
LEMMA UseStep ==
    ASSUME VillageInv, NEW t \in Threads, use(t)
    PROVE  VillageInv'
<1>1. PICK x : x = Head(calls[t])
  OBVIOUS
<1>2. /\ calls[t] # << >> /\ x.do \in {"use", "prepare", "unprepare"} /\ x.at = "begin" /\ op[x.of] = Free
      /\ IF Is(x.of, "live") THEN op' = [op EXCEPT ![x.of] = t] /\ GoTo(t, "in")
                             ELSE calls' = [calls EXCEPT ![t] = Tail(calls[t])] /\ UNCHANGED op
      /\ UNCHANGED <<village, claimed, replaced, worker, recorded, storage, answered, up, mishaps>>
  BY <1>1 DEF use, Doing, Current, Still, Acquire, Return, scratch, registry
<1>3. x \in Calls /\ CallHolds(t, x) /\ x.of \in Villages /\ Used(x.of)
  BY <1>1, <1>2, BusyThread DEF Calls, CallHolds
<1>4. VillagesStand' /\ Moves(t, x.of) /\ op' \in [Villages -> Threads \cup {Free}]
  BY <1>2, <1>3, Quietly
<1>5. ASSUME Is(x.of, "live")
      PROVE  StacksHold'
  <2>1. PICK y : y = [x EXCEPT !.at = "in"]
    OBVIOUS
  <2>2. y \in Calls /\ y.at = "in" /\ y.do = x.do /\ y.of = x.of
    BY <1>3, <2>1, AtPut DEF Labels
  <2>3. x.of \in worker /\ x.of \in storage
    BY <1>2, <1>3, <1>5 DEF CallHolds, VillageInv, VillagesStand, Usable
  <2>4. op'[x.of] = t
    BY <1>2, <1>3, <1>5 DEF VillageInv, VillageTypes
  <2>5. CallHolds(t, y)' /\ TopHolds(t, y)'
    BY <1>2, <1>3, <2>2, <2>3, <2>4 DEF CallHolds, TopHolds, Locks, Used
  <2> QED
    BY <1>1, <1>2, <1>4, <1>5, <2>1, <2>5, GoesTo DEF Labels
<1>6. ASSUME ~Is(x.of, "live")
      PROVE  StacksHold'
  BY <1>1, <1>2, <1>4, <1>6, Returns
<1>7. VillageTypes'
  BY <1>2, <1>4 DEF VillageInv, VillageTypes
<1> QED
  BY <1>4, <1>5, <1>6, <1>7 DEF VillageInv

\* A request ends.
LEMMA LeaveStep ==
    ASSUME VillageInv, NEW t \in Threads, Leave(t)
    PROVE  VillageInv'
<1>1. PICK x : x = Head(calls[t])
  OBVIOUS
<1>2. /\ calls[t] # << >> /\ x.do \in {"use", "prepare", "unprepare"} /\ x.at # "begin"
      /\ op' = [op EXCEPT ![x.of] = Free] /\ calls' = [calls EXCEPT ![t] = Tail(calls[t])]
      /\ UNCHANGED <<village, claimed, replaced, worker, recorded, storage, answered, up, mishaps>>
  BY <1>1 DEF Leave, Doing, Current, Release, Return, scratch, registry
<1>3. x.of \in Villages /\ op[x.of] = t
  BY <1>1, <1>2, BusyThread DEF Calls, CallHolds, Locks
<1>4. VillagesStand' /\ Moves(t, x.of) /\ op' \in [Villages -> Threads \cup {Free}]
  BY <1>2, <1>3, Quietly
<1>5. StacksHold'
  BY <1>1, <1>2, <1>4, Returns
<1>6. VillageTypes'
  BY <1>2, <1>4 DEF VillageInv, VillageTypes
<1> QED
  BY <1>4, <1>5, <1>6 DEF VillageInv

\* A destination comes after its source.
LEMMA ChildIs ==
    ASSUME VillageInv, NEW v \in Villages, NEW c \in Children(v)
    PROVE  c \in Villages /\ c \in Owned /\ c > v /\ Used(c) /\ village[c].parent = v
<1>1. c \in Owned /\ c \in Villages /\ village[c].parent = v /\ Used(c)
  BY DEF Children, Owned, Used, Is
<1>2. v # Free /\ v \in Nat /\ c \in Nat
  BY <1>1, VillagesAssumption DEF Villages
<1> QED
  BY <1>1, <1>2 DEF VillageInv, VillagesStand

\* An archive is given a destination: a live one is used, an expired one
\* destroyed, or a new one made.
LEMMA TargetStep ==
    ASSUME VillageInv, NEW t \in Threads, target(t)
    PROVE  VillageInv'
<1>1. PICK x : x = Head(calls[t])
  OBVIOUS
<1>2. /\ calls[t] # << >> /\ x.do = "prepare" /\ x.at = "in" /\ up
      /\ x \in Calls /\ CallHolds(t, x) /\ calls[t][1] = x
  BY <1>1, BusyThread DEF target, Doing
<1>3. /\ \/ \E c \in Children(x.of) :
               /\ Usable(c)
               /\ IF village[c].expired THEN PushFrom(t, "in", Call("destroy", c))
                                        ELSE PushFrom(t, "done", Call("use", c))
               /\ UNCHANGED <<registry, storage, op>>
         \/ /\ \E c \in Villages : Allocate(t, c, x.of, x.of, {}) /\ PushFrom(t, "in", Call("create", c))
            /\ UNCHANGED claimed
      /\ UNCHANGED <<worker, recorded, answered, up, mishaps>>
  BY <1>1 DEF target, Current
<1>4. x.of \in Villages /\ x.of \in Nat /\ Used(x.of)
  BY <1>2 DEF Calls, Villages, CallHolds
<1>5. ASSUME NEW y, y = [x EXCEPT !.at = "in"] \/ y = [x EXCEPT !.at = "done"]
      PROVE  y \in Calls /\ y.do = "prepare" /\ y.of = x.of /\ y.at # "begin" /\ CallHolds(t, y)
  <2>1. y \in Calls /\ y.do = "prepare" /\ y.of = x.of /\ y.at # "begin"
    BY <1>2, <1>5, AtPut DEF Labels
  <2> QED
    BY <1>2, <2>1 DEF CallHolds, Locks
<1>6. ASSUME NEW c \in Children(x.of), Usable(c), NEW do \in {"destroy", "use"}, NEW at \in {"in", "done"},
             PushFrom(t, at, Call(do, c)), UNCHANGED <<registry, storage, op>>
      PROVE  VillageInv'
  <2>1. PICK y, z : y = [x EXCEPT !.at = at] /\ z = Call(do, c)
    OBVIOUS
  <2>2. c \in Villages /\ c > x.of /\ Used(c)
    BY <1>4, <1>6, ChildIs
  <2>3. y \in Calls /\ y.do = "prepare" /\ y.of = x.of /\ y.at # "begin" /\ CallHolds(t, y)
    BY <1>5, <1>6, <2>1
  <2>4. z \in Calls /\ z.of = c /\ z.do = do /\ z.at = "begin" /\ z.todo = {}
    BY <1>6, <2>1, <2>2, CallIs
  <2>5. UNCHANGED <<village, claimed, replaced, worker, recorded, storage, op, answered, up, mishaps>>
    BY <1>3, <1>6 DEF registry
  <2>6. VillagesStand' /\ VillagesAge /\ \A w \in Villages : Unmoved(w)
    BY <2>5, QuietStep
  <2>7. CallHolds(t, y)'
    BY <1>4, <2>3, <2>6, CallStays
  <2>8. CallHolds(t, z)' /\ TopHolds(t, z)' /\ Waits(y, z)'
    BY <1>6, <2>2, <2>3, <2>4, <2>5 DEF CallHolds, TopHolds, Waits, Locks, Used, Usable, Is
  <2>9. Moves(t, x.of) /\ x.of \in {x.of, z.of}
    BY <1>4, <2>5, <2>6 DEF Moves
  <2>10. calls' = [calls EXCEPT ![t] = <<z, y>> \o Tail(calls[t])] /\ up' = up
    BY <1>2, <1>6, <2>1, <2>5 DEF PushFrom
  <2>11. y.of = x.of /\ z.of > x.of /\ (x.do # "destroy" \/ y.do = "destroy")
    BY <1>2, <2>2, <2>3, <2>4
  <2>12. StacksHold'
    BY <1>1, <1>2, <2>3, <2>4, <2>7, <2>8, <2>9, <2>10, <2>11, CallsOn
  <2>13. VillageTypes'
    BY <2>5 DEF VillageInv, VillageTypes
  <2> QED
    BY <2>6, <2>12, <2>13 DEF VillageInv
<1>7. ASSUME NEW c \in Villages, Allocate(t, c, x.of, x.of, {}), PushFrom(t, "in", Call("create", c)),
             UNCHANGED claimed
      PROVE  VillageInv'
  <2>1. PICK y, z : y = [x EXCEPT !.at = "in"] /\ z = Call("create", c)
    OBVIOUS
  <2>2. /\ x.of \in Villages \cup {Free} /\ x.of \in Owners \cup Villages /\ {} \in SUBSET Villages
        /\ {} \cap Owned = {}
    BY <1>4
  <2>3. /\ VillagesStand' /\ Moves(t, c) /\ Used(c)' /\ x.of < c /\ op'[c] = t /\ c \in storage'
        /\ village' \in [Villages -> Village] /\ replaced' \subseteq Villages
        /\ storage' \subseteq Villages /\ op' \in [Villages -> Threads \cup {Free}]
    BY <1>2, <1>3, <1>4, <1>7, <2>2, Allocates
  <2>4. y \in Calls /\ y.do = "prepare" /\ y.of = x.of /\ y.at # "begin" /\ CallHolds(t, y)
    BY <1>5, <2>1
  <2>5. z \in Calls /\ z.of = c /\ CallHolds(t, z)' /\ TopHolds(t, z)'
    BY <1>7, <2>1, <2>3, CreateHolds, CallIs
  <2>6. VillagesAge /\ Unmoved(x.of)
    BY <1>4, <1>7, <2>3 DEF Moves, Villages
  <2>7. CallHolds(t, y)'
    BY <2>4, <2>6, CallStays
  <2>8. Waits(y, z)'
    BY <2>4 DEF Waits
  <2>9. calls' = [calls EXCEPT ![t] = <<z, y>> \o Tail(calls[t])] /\ up' = up
    BY <1>2, <1>3, <1>7, <2>1 DEF PushFrom
  <2>10. y.of = x.of /\ z.of > x.of /\ (x.do # "destroy" \/ y.do = "destroy") /\ c \in {x.of, z.of}
    BY <1>2, <1>4, <1>7, <2>3, <2>4, <2>5 DEF Villages
  <2>11. StacksHold'
    BY <1>1, <1>2, <2>3, <2>4, <2>5, <2>7, <2>8, <2>9, <2>10, CallsOn
  <2>12. VillageTypes'
    BY <1>3, <1>7, <2>3 DEF VillageInv, VillageTypes
  <2> QED
    BY <2>3, <2>11, <2>12 DEF VillageInv
<1> QED
  BY <1>3, <1>6, <1>7

\* A visitor claims a village and destroys it, to discard it or to reset it.
LEMMA RetireStep ==
    ASSUME VillageInv, NEW t \in Threads, NEW v \in Villages, NEW do \in {"reset", "discard"}, retire(t, v, do)
    PROVE  VillageInv'
<1>1. /\ up /\ calls[t] = << >> /\ Is(v, "live")
      /\ claimed' = claimed \cup {v} /\ (replaced' = replaced \/ replaced' = replaced \cup {v})
      /\ calls' = [calls EXCEPT ![t] = <<Call("destroy", v), [Call(do, v) EXCEPT !.at = "destroyed"]>>]
      /\ UNCHANGED <<village, worker, recorded, storage, op, answered, up, mishaps>>
  BY DEF retire, AtRest, Claim, Usable, scratch
<1>2. Used(v) /\ v \in Owned /\ v \in Nat
  BY <1>1 DEF Used, Owned, Is, Villages
<1>3. VillagesStand' /\ Moves(t, v)
  BY <1>1, <1>2, Quietly
<1>4. PICK z, y : z = Call("destroy", v) /\ y = [Call(do, v) EXCEPT !.at = "destroyed"]
  OBVIOUS
<1>5. z \in Calls /\ z.do = "destroy" /\ z.of = v /\ z.at = "begin" /\ z.todo = {}
  BY <1>4, CallIs
<1>6. y \in Calls /\ y.do = do /\ y.of = v /\ y.at = "destroyed" /\ y.todo = {}
  BY <1>4, CallIs, AtPut DEF Labels
<1>7. PICK p : p = <<z, y>>
  OBVIOUS
<1>8. p \in Seq(Calls) /\ DOMAIN p = {1, 2} /\ p[1] = z /\ p[2] = y
  BY <1>5, <1>6, <1>7
<1>9. PICK rest : rest = << >>
  OBVIOUS
<1>10. RestHolds(t, rest, v)
  BY <1>9 DEF RestHolds, Ordered, Nested
<1>11. CallHolds(t, z)' /\ CallHolds(t, y)' /\ TopHolds(t, z)' /\ Waits(y, z)'
  BY <1>1, <1>2, <1>5, <1>6 DEF CallHolds, TopHolds, Waits, Locks, Used
<1>12. Ordered(p)
  <2>1. Below(y, z.of)
    BY <1>2, <1>5, <1>6 DEF Below
  <2>2. \A i, j \in {1, 2} : i < j => i = 1 /\ j = 2
    OBVIOUS
  <2> QED
    BY <1>8, <2>1, <2>2 DEF Ordered
<1>13. Nested(p)'
  <2>1. \A n \in {1, 2} : n > 1 => n = 2 /\ n - 1 = 1
    OBVIOUS
  <2> QED
    BY <1>8, <1>11, <2>1 DEF Nested
<1>14. \A n \in DOMAIN p : CallHolds(t, p[n])' /\ p[n].of >= v
  BY <1>2, <1>5, <1>6, <1>8, <1>11
<1>15. FitsOn(t, p, rest, v)
  <2>1. p # << >>
    BY <1>8
  <2> QED
    BY <1>8, <1>9, <1>10, <1>11, <1>12, <1>13, <1>14, <2>1 DEF FitsOn
<1>16. calls' = [calls EXCEPT ![t] = p \o rest] /\ up' /\ v >= v
  <2>1. p \o rest = p
    BY <1>8, <1>9
  <2>2. calls' = [calls EXCEPT ![t] = p]
    BY <1>1, <1>4, <1>7
  <2>3. calls' = [calls EXCEPT ![t] = p \o rest]
    BY <2>1, <2>2
  <2>4. up'
    BY <1>1
  <2>5. v >= v
    BY <1>2
  <2> QED
    BY <2>3, <2>4, <2>5
<1>17. StacksHold'
  BY <1>3, <1>8, <1>15, <1>16, Put
<1>18. VillageTypes'
  BY <1>1 DEF VillageInv, VillageTypes
<1> QED
  BY <1>3, <1>17, <1>18 DEF VillageInv

\* A destination is claimed and destroyed under the lock of its source.
LEMMA RetireTargetStep ==
    ASSUME VillageInv, NEW t \in Threads, RetireTarget(t)
    PROVE  VillageInv'
<1>1. PICK x : x = Head(calls[t])
  OBVIOUS
<1>2. /\ calls[t] # << >> /\ x.do = "unprepare" /\ x.at = "in" /\ up
      /\ x \in Calls /\ CallHolds(t, x) /\ calls[t][1] = x
      /\ RestHolds(t, Tail(calls[t]), x.of)
      /\ Tail(calls[t]) # << >> => /\ Waits(Tail(calls[t])[1], x)
                                   /\ Tail(calls[t])[1] \in Calls /\ CallHolds(t, Tail(calls[t])[1])
  BY <1>1, BusyThread DEF RetireTarget, Doing
<1>3. x.of \in Villages /\ x.of \in Nat
  BY <1>2 DEF Calls, Villages
<1>4. PICK c \in Children(x.of) :
          /\ claimed' = claimed \cup {c} /\ replaced' = replaced /\ UNCHANGED village
          /\ calls' = [calls EXCEPT ![t] =
                 <<Call("destroy", c), [Call("discard", c) EXCEPT !.at = "destroyed"],
                   [@[1] EXCEPT !.at = "done"]>> \o Tail(@)]
  BY <1>1 DEF RetireTarget, Claim, Current
<1>5. UNCHANGED <<worker, recorded, storage, op, answered, up, mishaps>>
  BY DEF RetireTarget, scratch
<1>6. c \in Villages /\ c \in Nat /\ c > x.of /\ Used(c)
  BY <1>3, ChildIs DEF Villages
<1>7. VillagesStand' /\ Moves(t, x.of) /\ VillagesAge
  BY <1>3, <1>4, <1>5, Quietly
<1>8. PICK z, y, w : /\ z = Call("destroy", c) /\ y = [Call("discard", c) EXCEPT !.at = "destroyed"]
                     /\ w = [x EXCEPT !.at = "done"]
  OBVIOUS
<1>9. z \in Calls /\ z.do = "destroy" /\ z.of = c /\ z.at = "begin" /\ z.todo = {}
  BY <1>6, <1>8, CallIs
<1>10. y \in Calls /\ y.do = "discard" /\ y.of = c /\ y.at = "destroyed" /\ y.todo = {}
  BY <1>6, <1>8, CallIs, AtPut DEF Labels
<1>11. w \in Calls /\ w.do = "unprepare" /\ w.of = x.of /\ w.at = "done"
  BY <1>2, <1>8, AtPut DEF Labels
<1>12. PICK p : p = <<z, y, w>>
  OBVIOUS
<1>13. p \in Seq(Calls) /\ DOMAIN p = {1, 2, 3} /\ p[1] = z /\ p[2] = y /\ p[3] = w /\ Len(p) = 3
  BY <1>9, <1>10, <1>11, <1>12
<1>14. PICK rest : rest = Tail(calls[t])
  OBVIOUS
<1>15. CallHolds(t, z)' /\ CallHolds(t, y)' /\ TopHolds(t, z)' /\ Waits(y, z)' /\ Waits(w, y)'
  BY <1>4, <1>6, <1>9, <1>10, <1>11 DEF CallHolds, TopHolds, Waits, Locks, Used
<1>16. CallHolds(t, w)'
  <2>1. CallHolds(t, w)
    BY <1>2, <1>11 DEF CallHolds, Locks
  <2>2. Unmoved(x.of)
    BY <1>3, <1>4, <1>5 DEF Unmoved, Is
  <2> QED
    BY <1>7, <1>11, <2>1, <2>2, CallStays
<1>17. Ordered(p)
  <2>1. Below(y, z.of) /\ Below(w, z.of) /\ Below(w, y.of)
    BY <1>3, <1>6, <1>9, <1>10, <1>11 DEF Below
  <2>2. \A i, j \in {1, 2, 3} : i < j => (i = 1 /\ j = 2) \/ (i = 1 /\ j = 3) \/ (i = 2 /\ j = 3)
    OBVIOUS
  <2> QED
    BY <1>13, <2>1, <2>2 DEF Ordered
<1>18. Nested(p)'
  <2>1. \A n \in {1, 2, 3} : n > 1 => (n = 2 /\ n - 1 = 1) \/ (n = 3 /\ n - 1 = 2)
    OBVIOUS
  <2> QED
    BY <1>13, <1>15, <2>1 DEF Nested
<1>19. \A n \in DOMAIN p : CallHolds(t, p[n])' /\ p[n].of >= x.of
  BY <1>3, <1>6, <1>9, <1>10, <1>11, <1>13, <1>15, <1>16
<1>20. rest # << >> => Waits(rest[1], p[Len(p)])'
  <2> SUFFICES ASSUME rest # << >>
               PROVE  Waits(rest[1], w)'
    BY <1>13
  <2>1. rest[1] \in Calls /\ CallHolds(t, rest[1]) /\ Waits(rest[1], x)
    BY <1>2, <1>14
  <2> QED
    BY <1>2, <1>7, <2>1, WaitsOn
<1>21. FitsOn(t, p, rest, x.of)
  <2>1. p # << >>
    BY <1>12
  <2> QED
    BY <1>2, <1>13, <1>14, <1>15, <1>17, <1>18, <1>19, <1>20, <2>1 DEF FitsOn
<1>22. calls' = [calls EXCEPT ![t] = p \o rest] /\ up' /\ x.of >= x.of
  BY <1>2, <1>3, <1>4, <1>5, <1>8, <1>12, <1>14
<1>23. StacksHold'
  BY <1>3, <1>7, <1>13, <1>21, <1>22, Put
<1>24. VillageTypes'
  BY <1>4, <1>5, <1>6 DEF VillageInv, VillageTypes
<1> QED
  BY <1>7, <1>23, <1>24 DEF VillageInv

\* A discard or a reset gives its claim back.
LEMMA UnclaimStep ==
    ASSUME VillageInv, NEW t \in Threads, discard(t) \/ EndReset(t)
    PROVE  VillageInv'
<1>1. PICK x : x = Head(calls[t])
  OBVIOUS
<1>2. /\ calls[t] # << >> /\ x.do # "destroy"
      /\ claimed' = claimed \ {x.of} /\ replaced' = replaced \ {x.of}
      /\ calls' = [calls EXCEPT ![t] = Tail(calls[t])]
      /\ UNCHANGED <<village, worker, recorded, storage, op, answered, up, mishaps>>
  BY <1>1 DEF discard, EndReset, Doing, Current, Unclaim, Return, scratch
<1>3. x.of \in Villages
  BY <1>1, <1>2, BusyThread DEF Calls
<1>4. VillagesStand' /\ Moves(t, x.of)
  BY <1>2, <1>3, Quietly
<1>5. StacksHold'
  BY <1>1, <1>2, <1>4, Returns
<1>6. VillageTypes'
  BY <1>2 DEF VillageInv, VillageTypes
<1> QED
  BY <1>4, <1>5, <1>6 DEF VillageInv

\* A reset goes on to create in the slot it kept, if its village is gone.
LEMMA ResetStep ==
    ASSUME VillageInv, NEW t \in Threads, reset(t)
    PROVE  VillageInv'
<1>1. PICK x : x = Head(calls[t])
  OBVIOUS
<1>2. /\ calls[t] # << >> /\ x.do = "reset" /\ x.at = "destroyed" /\ up
      /\ x \in Calls /\ CallHolds(t, x) /\ TopHolds(t, x) /\ calls[t][1] = x
  BY <1>1, BusyThread DEF reset, Doing
<1>3. /\ \/ /\ answered[t]
            /\ \E n \in Villages, owner \in Owners :
                   Allocate(t, n, owner, Free, {x.of}) /\ PushFrom(t, "created", Call("create", n))
            /\ UNCHANGED claimed
         \/ UNCHANGED <<registry, storage, op>> /\ GoTo(t, "created")
      /\ UNCHANGED <<worker, recorded, answered, up, mishaps>>
  BY <1>1 DEF reset, Current
<1>4. x.of \in Villages /\ x.of \in Nat /\ Used(x.of)
  BY <1>2 DEF Calls, Villages, CallHolds
<1>5. PICK y : y = [x EXCEPT !.at = "created"]
  OBVIOUS
<1>6. y \in Calls /\ y.do = "reset" /\ y.of = x.of /\ y.at = "created"
  BY <1>2, <1>5, AtPut DEF Labels
<1>7. ASSUME VillagesAge
      PROVE  CallHolds(t, y)' /\ TopHolds(t, y)'
  BY <1>4, <1>6, <1>7 DEF CallHolds, TopHolds, Locks, VillagesAge
<1>8. ASSUME answered[t], NEW n \in Villages, NEW owner \in Owners, Allocate(t, n, owner, Free, {x.of}),
             PushFrom(t, "created", Call("create", n)), UNCHANGED claimed
      PROVE  VillageInv'
  <2>1. PICK z : z = Call("create", n)
    OBVIOUS
  <2>2. /\ Free \in Villages \cup {Free} /\ owner \in Owners \cup Villages /\ {x.of} \in SUBSET Villages
        /\ {x.of} \cap Owned = {}
    BY <1>2, <1>4, <1>8 DEF TopHolds
  <2>3. /\ VillagesStand' /\ Moves(t, n) /\ Used(n)' /\ x.of < n /\ op'[n] = t /\ n \in storage'
        /\ village' \in [Villages -> Village] /\ replaced' \subseteq Villages
        /\ storage' \subseteq Villages /\ op' \in [Villages -> Threads \cup {Free}]
    BY <1>2, <1>3, <1>4, <1>8, <2>2, Allocates
  <2>4. z \in Calls /\ z.of = n /\ CallHolds(t, z)' /\ TopHolds(t, z)'
    BY <1>8, <2>1, <2>3, CreateHolds, CallIs
  <2>5. CallHolds(t, y)' /\ Waits(y, z)'
    BY <1>6, <1>7, <2>3 DEF Waits, Moves
  <2>6. calls' = [calls EXCEPT ![t] = <<z, y>> \o Tail(calls[t])] /\ up' = up
    BY <1>2, <1>3, <1>5, <1>8, <2>1 DEF PushFrom
  <2>7. y.of = x.of /\ z.of > x.of /\ (x.do # "destroy" \/ y.do = "destroy") /\ n \in {x.of, z.of}
    BY <1>2, <1>4, <1>6, <1>8, <2>3, <2>4 DEF Villages
  <2>8. StacksHold'
    BY <1>1, <1>2, <1>6, <2>3, <2>4, <2>5, <2>6, <2>7, CallsOn
  <2>9. VillageTypes'
    BY <1>3, <1>8, <2>3 DEF VillageInv, VillageTypes
  <2> QED
    BY <2>3, <2>8, <2>9 DEF VillageInv
<1>9. ASSUME UNCHANGED <<registry, storage, op>>, GoTo(t, "created")
      PROVE  VillageInv'
  <2>1. UNCHANGED <<village, claimed, replaced, worker, recorded, storage, op, answered, up, mishaps>>
    BY <1>3, <1>9 DEF registry
  <2>2. VillagesStand' /\ VillagesAge /\ Moves(t, x.of)
    BY <1>4, <2>1, Quietly
  <2>3. StacksHold'
    BY <1>1, <1>2, <1>5, <1>7, <1>9, <2>1, <2>2, GoesTo DEF Labels
  <2>4. VillageTypes'
    BY <2>1 DEF VillageInv, VillageTypes
  <2> QED
    BY <2>2, <2>3, <2>4 DEF VillageInv
<1> QED
  BY <1>3, <1>8, <1>9

\* A village leaves the registry before it is cleaned up.
LEMMA WithdrawStep ==
    ASSUME VillageInv, NEW t \in Threads, Withdraw(t)
    PROVE  VillageInv'
<1>1. PICK x : x = Head(calls[t])
  OBVIOUS
<1>2. /\ calls[t] # << >> /\ x.do = "destroy" /\ x.at = "begin"
      /\ IF x.of \in Owned
         THEN village' = [village EXCEPT ![x.of].at = "retiring"] /\ GoTo(t, "wait") /\ UNCHANGED answered
         ELSE /\ answered' = [answered EXCEPT ![t] = TRUE] /\ calls' = [calls EXCEPT ![t] = Tail(calls[t])]
              /\ UNCHANGED village
      /\ UNCHANGED <<claimed, replaced, worker, recorded, storage, op, up, mishaps>>
  BY <1>1 DEF Withdraw, Doing, Current, Return, scratch
<1>3. x \in Calls /\ CallHolds(t, x) /\ x.of \in Villages /\ Used(x.of)
  BY <1>1, <1>2, BusyThread DEF Calls, CallHolds
<1>4. ASSUME x.of \in Owned
      PROVE  VillageInv'
  <2>1. PICK z : z = [village[x.of] EXCEPT !.at = "retiring"]
    OBVIOUS
  <2>2. village[x.of] \in Village
    BY <1>3 DEF VillageInv, VillageTypes
  <2>3. z \in Village /\ z.at = "retiring" /\ z.parent = village[x.of].parent /\ z.ready = village[x.of].ready
    BY <2>1, <2>2 DEF Village
  <2>4. /\ village' = [village EXCEPT ![x.of] = z]
        /\ (z.at = village[x.of].at /\ Used(x.of)) \/ (z.at = "retiring" /\ x.of \in Owned)
        /\ village[x.of].ready => z.ready
        /\ z.at = "live" /\ z.ready => x.of \in worker
    BY <1>2, <1>4, <2>1, <2>3
  <2>5. /\ VillagesStand' /\ VillagesAge /\ village' \in [Villages -> Village]
        /\ \A w \in Villages : op'[w] = op[w] => Unmoved(w)
    BY <1>2, <1>3, <2>3, <2>4, RecordChanges
  <2>6. PICK y : y = [x EXCEPT !.at = "wait"]
    OBVIOUS
  <2>7. y \in Calls /\ y.at = "wait" /\ y.do = "destroy" /\ y.of = x.of /\ y.todo = x.todo
    BY <1>2, <1>3, <2>6, AtPut DEF Labels
  <2>8. ~Is(x.of, "live")'
    BY <1>3, <2>3, <2>4 DEF Is, VillageInv, VillageTypes
  <2>9. \A c \in y.todo : c > y.of /\ Used(c)'
    BY <1>2, <1>3, <2>5, <2>7 DEF CallHolds, VillagesAge, Calls
  <2>10. CallHolds(t, y)' /\ TopHolds(t, y)'
    BY <1>3, <2>5, <2>7, <2>8, <2>9 DEF CallHolds, TopHolds, Locks, VillagesAge
  <2>11. Moves(t, x.of)
    BY <1>2, <1>3, <1>4, <2>5 DEF Moves
  <2>12. StacksHold'
    BY <1>1, <1>2, <1>4, <2>6, <2>10, <2>11, GoesTo DEF Labels
  <2>13. VillageTypes'
    BY <1>2, <1>4, <2>5 DEF VillageInv, VillageTypes
  <2> QED
    BY <2>5, <2>12, <2>13 DEF VillageInv
<1>5. ASSUME x.of \notin Owned
      PROVE  VillageInv'
  <2>1. \A u \in Threads \ {t} : answered'[u] = answered[u]
    BY <1>2, <1>5 DEF VillageInv, VillageTypes
  <2>2. VillagesStand' /\ Moves(t, x.of)
    BY <1>2, <1>3, <1>5, <2>1, Quietly
  <2>3. x.of \notin Owned'
    BY <1>2, <1>5, VillagesStay
  <2>4. StacksHold'
    BY <1>1, <1>2, <1>5, <2>2, <2>3, Returns
  <2>5. VillageTypes'
    BY <1>2, <1>5 DEF VillageInv, VillageTypes
  <2> QED
    BY <2>2, <2>4, <2>5 DEF VillageInv
<1> QED
  BY <1>4, <1>5

\* The cleanup of a village begins under its lock, with the destinations it has.
LEMMA BeginCleanupStep ==
    ASSUME VillageInv, NEW t \in Threads, BeginCleanup(t)
    PROVE  VillageInv'
<1>1. PICK x : x = Head(calls[t])
  OBVIOUS
<1>2. /\ calls[t] # << >> /\ x.do = "destroy" /\ x.at = "wait" /\ op[x.of] \in {t, Free}
      /\ UNCHANGED <<claimed, replaced, worker, recorded, storage, up, mishaps>>
  BY <1>1 DEF BeginCleanup, Doing, Current, scratch
<1>3. \/ /\ answered' = [answered EXCEPT ![t] = x.of \notin Owned]
         /\ calls' = [calls EXCEPT ![t] = Tail(calls[t])] /\ UNCHANGED <<village, op>>
      \/ /\ x.of \in Owned /\ village[x.of].cleanups # MaxCleanups
         /\ village' = [village EXCEPT ![x.of].cleanups = @ + 1, ![x.of].due = FALSE]
         /\ calls' = [calls EXCEPT ![t][1].at = "children", ![t][1].todo = Children(x.of),
                                   ![t][1].held = (op[x.of] = t)]
         /\ op' = [op EXCEPT ![x.of] = t] /\ UNCHANGED answered
  BY <1>1 DEF BeginCleanup, Current, Return, Acquire, Collected
<1>4. /\ x \in Calls /\ CallHolds(t, x) /\ x.of \in Villages /\ Used(x.of) /\ ~Is(x.of, "live")
      /\ calls[t] \in Seq(Calls) /\ x = calls[t][1]
  BY <1>1, <1>2, BusyThread DEF Calls, CallHolds
<1>5. ASSUME answered' = [answered EXCEPT ![t] = x.of \notin Owned],
             calls' = [calls EXCEPT ![t] = Tail(calls[t])], UNCHANGED <<village, op>>
      PROVE  VillageInv'
  <2>1. (\A u \in Threads \ {t} : answered'[u] = answered[u]) /\ (answered'[t] <=> x.of \notin Owned)
    BY <1>5 DEF VillageInv, VillageTypes
  <2>2. VillagesStand' /\ Moves(t, x.of)
    BY <1>2, <1>4, <1>5, <2>1, Quietly
  <2>3. x.of \in Owned' <=> x.of \in Owned
    BY <1>2, <1>5, VillagesStay
  <2>4. StacksHold'
    BY <1>1, <1>2, <1>5, <2>1, <2>2, <2>3, Returns
  <2>5. VillageTypes'
    BY <1>2, <1>5 DEF VillageInv, VillageTypes
  <2> QED
    BY <2>2, <2>4, <2>5 DEF VillageInv
<1>6. ASSUME x.of \in Owned, village[x.of].cleanups # MaxCleanups,
             village' = [village EXCEPT ![x.of].cleanups = @ + 1, ![x.of].due = FALSE],
             calls' = [calls EXCEPT ![t][1].at = "children", ![t][1].todo = Children(x.of),
                                    ![t][1].held = (op[x.of] = t)],
             op' = [op EXCEPT ![x.of] = t], UNCHANGED answered
      PROVE  VillageInv'
  <2>1. PICK z : z = [village[x.of] EXCEPT !.cleanups = @ + 1, !.due = FALSE]
    OBVIOUS
  <2>2. village[x.of] \in Village
    BY <1>4 DEF VillageInv, VillageTypes
  <2>3. /\ z \in Village /\ z.at = village[x.of].at /\ z.parent = village[x.of].parent
        /\ z.ready = village[x.of].ready
    <3>1. PICK w : w = village[x.of]
      OBVIOUS
    <3>2. w.cleanups + 1 \in 0 .. MaxCleanups /\ w \in Village
      BY <1>6, <2>2, <3>1, VillagesAssumption DEF Village
    <3>3. z = [w EXCEPT !.cleanups = w.cleanups + 1, !.due = FALSE]
      BY <2>1, <3>1
    <3> QED
      BY <3>1, <3>2, <3>3 DEF Village
  <2>4. village[x.of].at = "retiring"
    BY <1>4, <1>6 DEF Owned, Is
  <2>5. /\ village' = [village EXCEPT ![x.of] = z]
        /\ (z.at = village[x.of].at /\ Used(x.of)) \/ (z.at = "retiring" /\ x.of \in Owned)
        /\ village[x.of].ready => z.ready
        /\ z.at = "live" /\ z.ready => x.of \in worker
    BY <1>4, <1>6, <2>1, <2>3, <2>4
  <2>6. /\ VillagesStand' /\ VillagesAge /\ village' \in [Villages -> Village]
        /\ \A w \in Villages : op'[w] = op[w] => Unmoved(w)
    BY <1>2, <1>4, <2>3, <2>5, RecordChanges
  <2>7. PICK y : y = [x EXCEPT !.at = "children", !.todo = Children(x.of), !.held = (op[x.of] = t)]
    OBVIOUS
  <2>8. Children(x.of) \subseteq Villages
    BY DEF Children, Owned
  <2>9. y \in Calls /\ y.at = "children" /\ y.do = "destroy" /\ y.of = x.of /\ y.todo = Children(x.of)
    BY <1>2, <1>4, <2>7, <2>8 DEF Calls, Labels
  <2>10. calls' = [calls EXCEPT ![t] = [calls[t] EXCEPT ![1] = y]]
    BY <1>4, <1>6, <2>7
  <2>11. calls' = [calls EXCEPT ![t] = <<y>> \o Tail(calls[t])]
    BY <1>2, <1>4, <2>9, <2>10, TopPut
  <2>12. /\ op' \in [Villages -> Threads \cup {Free}] /\ op'[x.of] = t
         /\ \A w \in Villages \ {x.of} : op'[w] = op[w]
    BY <1>4, <1>6 DEF VillageInv, VillageTypes
  <2>13. Is(x.of, "retiring")' /\ ~Is(x.of, "live")'
    BY <1>4, <2>3, <2>4, <2>5 DEF Is, VillageInv, VillageTypes
  <2>14. Used(x.of)' /\ Children(x.of)' \subseteq Children(x.of)
    BY <1>4, <2>6 DEF VillagesAge
  <2>15. \A c \in Children(x.of) : c > x.of /\ Used(c)'
    BY <1>4, <2>6, ChildIs DEF VillagesAge
  <2>16. CallHolds(t, y)' /\ TopHolds(t, y)'
    BY <2>9, <2>12, <2>13, <2>14, <2>15 DEF CallHolds, TopHolds, Locks
  <2>17. Moves(t, x.of)
    BY <1>2, <1>6, <2>6, <2>12 DEF Moves
  <2>18. StacksHold'
    BY <1>1, <1>2, <2>9, <2>11, <2>16, <2>17, GoesOn
  <2>19. VillageTypes'
    BY <1>2, <1>6, <2>6, <2>12 DEF VillageInv, VillageTypes
  <2> QED
    BY <2>6, <2>18, <2>19 DEF VillageInv
<1> QED
  BY <1>3, <1>5, <1>6

\* The destinations go first.
LEMMA DestroyChildStep ==
    ASSUME VillageInv, NEW t \in Threads, DestroyChild(t)
    PROVE  VillageInv'
<1>1. PICK x : x = Head(calls[t])
  OBVIOUS
<1>2. /\ calls[t] # << >> /\ x.do = "destroy" /\ x.at = "children"
      /\ UNCHANGED <<village, claimed, replaced, worker, recorded, storage, op, answered, up, mishaps>>
  BY <1>1 DEF DestroyChild, Doing, scratch, registry
<1>3. PICK c \in x.todo :
          calls' = [calls EXCEPT ![t] =
              <<Call("destroy", c), [x EXCEPT !.at = "child", !.todo = x.todo \ {c}]>> \o Tail(calls[t])]
  BY <1>1 DEF DestroyChild
<1>4. x \in Calls /\ CallHolds(t, x) /\ calls[t][1] = x
  BY <1>1, <1>2, BusyThread
<1>5. x.of \in Villages /\ x.of \in Nat /\ c \in Villages /\ c > x.of /\ Used(c)
  BY <1>2, <1>3, <1>4 DEF Calls, CallHolds, Villages
<1>6. PICK z, y : z = Call("destroy", c) /\ y = [x EXCEPT !.at = "child", !.todo = x.todo \ {c}]
  OBVIOUS
<1>7. z \in Calls /\ z.do = "destroy" /\ z.of = c /\ z.at = "begin" /\ z.todo = {}
  BY <1>5, <1>6, CallIs
<1>8. y \in Calls /\ y.do = "destroy" /\ y.of = x.of /\ y.at = "child" /\ y.todo = x.todo \ {c}
  BY <1>2, <1>4, <1>6 DEF Calls, Labels
<1>9. VillagesStand' /\ Moves(t, x.of) /\ VillagesAge
  BY <1>2, <1>5, Quietly
<1>10. Unmoved(x.of)
  BY <1>2 DEF Unmoved, Is
<1>11. CallHolds(t, y)
  BY <1>2, <1>4, <1>8 DEF CallHolds, Locks
<1>12. CallHolds(t, y)'
  BY <1>8, <1>9, <1>10, <1>11, CallStays
<1>13. Children(x.of)' = Children(x.of)
  BY <1>2, <1>5, VillagesStay
<1>14. CallHolds(t, z)' /\ TopHolds(t, z)' /\ Waits(y, z)'
  <2>1. Children(x.of) \subseteq x.todo
    BY <1>2, <1>4 DEF CallHolds
  <2> QED
    BY <1>2, <1>5, <1>7, <1>8, <1>13, <2>1 DEF CallHolds, TopHolds, Waits, Locks, Used
<1>15. calls' = [calls EXCEPT ![t] = <<z, y>> \o Tail(calls[t])]
  BY <1>3, <1>6
<1>16. y.of = x.of /\ z.of > x.of /\ (x.do # "destroy" \/ y.do = "destroy") /\ x.of \in {x.of, z.of}
  BY <1>5, <1>7, <1>8
<1>17. StacksHold'
  BY <1>1, <1>2, <1>7, <1>8, <1>9, <1>12, <1>14, <1>15, <1>16, CallsOn
<1>18. VillageTypes'
  BY <1>2 DEF VillageInv, VillageTypes
<1> QED
  BY <1>9, <1>17, <1>18 DEF VillageInv

\* The next destination, when one is gone.
LEMMA ChildGoneStep ==
    ASSUME VillageInv, NEW t \in Threads, ChildGone(t)
    PROVE  VillageInv'
<1>1. PICK x : x = Head(calls[t])
  OBVIOUS
<1>2. /\ calls[t] # << >> /\ x.do = "destroy" /\ x.at = "child" /\ answered[t] /\ GoTo(t, "children")
      /\ UNCHANGED <<village, claimed, replaced, worker, recorded, storage, op, answered, up, mishaps>>
  BY <1>1 DEF ChildGone, Doing, scratch, registry
<1>3. x \in Calls /\ CallHolds(t, x) /\ TopHolds(t, x) /\ x.of \in Villages
  BY <1>1, <1>2, BusyThread DEF Calls
<1>4. PICK y : y = [x EXCEPT !.at = "children"]
  OBVIOUS
<1>5. y \in Calls /\ y.do = "destroy" /\ y.of = x.of /\ y.at = "children" /\ y.todo = x.todo
  BY <1>2, <1>3, <1>4, AtPut DEF Labels
<1>6. VillagesStand' /\ Moves(t, x.of) /\ VillagesAge
  BY <1>2, <1>3, Quietly
<1>7. CallHolds(t, y)
  BY <1>2, <1>3, <1>5 DEF CallHolds, TopHolds, Locks
<1>8. Unmoved(x.of)
  BY <1>2 DEF Unmoved, Is
<1>9. CallHolds(t, y)' /\ TopHolds(t, y)'
  BY <1>5, <1>6, <1>7, <1>8, CallStays DEF TopHolds
<1>10. StacksHold'
  BY <1>1, <1>2, <1>4, <1>6, <1>9, GoesTo DEF Labels
<1>11. VillageTypes'
  BY <1>2 DEF VillageInv, VillageTypes
<1> QED
  BY <1>6, <1>10, <1>11 DEF VillageInv

\* A cleanup that fails gives the lock back that it took.
LEMMA CleanupFailsStep ==
    ASSUME VillageInv, NEW t \in Threads, CleanupFails(t)
    PROVE  VillageInv'
<1>1. PICK x : x = Head(calls[t])
  OBVIOUS
<1>2. /\ calls[t] # << >> /\ x.do = "destroy" /\ x.at \in {"child", "stopped", "children"}
      /\ (UNCHANGED mishaps) \/ (mishaps < MaxMishaps /\ mishaps' = mishaps + 1)
      /\ answered' = [answered EXCEPT ![t] = FALSE]
      /\ (UNCHANGED op) \/ op' = [op EXCEPT ![x.of] = Free]
      /\ calls' = [calls EXCEPT ![t] = Tail(calls[t])]
      /\ UNCHANGED <<village, claimed, replaced, worker, recorded, storage, up>>
  BY <1>1 DEF CleanupFails, EndCleanup, Doing, Current, Return, Release, scratch, registry
<1>3. x.of \in Villages /\ op[x.of] = t
  BY <1>1, <1>2, BusyThread DEF Calls, CallHolds, Locks
<1>4. (\A u \in Threads \ {t} : answered'[u] = answered[u]) /\ ~answered'[t]
  BY <1>2 DEF VillageInv, VillageTypes
<1>5. VillagesStand' /\ Moves(t, x.of) /\ op' \in [Villages -> Threads \cup {Free}]
  BY <1>2, <1>3, <1>4, Quietly
<1>6. StacksHold'
  BY <1>1, <1>2, <1>4, <1>5, Returns
<1>7. VillageTypes'
  BY <1>2, <1>5, VillagesAssumption DEF VillageInv, VillageTypes
<1> QED
  BY <1>5, <1>6, <1>7 DEF VillageInv

\* A worker is stopped when its village has no destination left.
LEMMA StopStep ==
    ASSUME VillageInv, NEW t \in Threads, stop_workspace(t)
    PROVE  VillageInv'
<1>1. PICK x : x = Head(calls[t])
  OBVIOUS
<1>2. /\ calls[t] # << >> /\ x.do = "destroy" /\ x.at = "children" /\ x.todo = {}
      /\ worker' = worker \ {x.of} /\ GoTo(t, "stopped")
      /\ UNCHANGED <<village, claimed, replaced, recorded, storage, op, answered, up, mishaps>>
  BY <1>1 DEF stop_workspace, Doing, Current, registry
<1>3. /\ x \in Calls /\ CallHolds(t, x) /\ x.of \in Villages /\ op[x.of] = t
      /\ ~Is(x.of, "live") /\ Is(x.of, "retiring") /\ Children(x.of) = {} /\ Used(x.of)
  BY <1>1, <1>2, BusyThread DEF Calls, CallHolds, Locks
<1>4. PICK y : y = [x EXCEPT !.at = "stopped"]
  OBVIOUS
<1>5. y \in Calls /\ y.do = "destroy" /\ y.of = x.of /\ y.at = "stopped" /\ y.todo = {}
  BY <1>2, <1>3, <1>4, AtPut DEF Labels
<1>6. VillagesAge /\ Owned' = Owned /\ Children(x.of)' = Children(x.of)
  BY <1>2, <1>3, VillagesStay
<1>7. CallHolds(t, y)' /\ TopHolds(t, y)'
  BY <1>2, <1>3, <1>5, <1>6 DEF CallHolds, TopHolds, Locks, Used, Is
<1>8. Moves(t, x.of)
  BY <1>2, <1>3, <1>6 DEF Moves, Unmoved, Is
<1>9. StacksHold'
  BY <1>1, <1>2, <1>4, <1>7, <1>8, GoesTo DEF Labels
<1>10. VillagesStand'
  <2>1. \A w \in Villages : Usable(w)' => w \in worker'
    BY <1>2, <1>3 DEF VillageInv, VillagesStand, Usable, Is
  <2> QED
    BY <1>2, <1>6, <2>1 DEF VillageInv, VillagesStand, Used
<1>11. VillageTypes'
  BY <1>2 DEF VillageInv, VillageTypes
<1> QED
  BY <1>9, <1>10, <1>11 DEF VillageInv

\* The storage of a village is removed, and then its entry.
LEMMA RemoveStep ==
    ASSUME VillageInv, NEW t \in Threads, RemoveStorage(t)
    PROVE  VillageInv'
<1>1. PICK x : x = Head(calls[t])
  OBVIOUS
<1>2. /\ calls[t] # << >> /\ x.do = "destroy" /\ x.at = "stopped"
      /\ storage' = storage \ {x.of} /\ recorded' = recorded \ {x.of}
      /\ village' = [village EXCEPT ![x.of] =
             [NoVillage EXCEPT !.at = "gone", !.owner = village[x.of].owner]]
      /\ answered' = [answered EXCEPT ![t] = TRUE]
      /\ (UNCHANGED op) \/ op' = [op EXCEPT ![x.of] = Free]
      /\ calls' = [calls EXCEPT ![t] = Tail(calls[t])]
      /\ UNCHANGED <<claimed, replaced, worker, up, mishaps>>
  BY <1>1 DEF RemoveStorage, EndCleanup, Doing, Current, Return, Release
<1>3. /\ x \in Calls /\ CallHolds(t, x) /\ x.of \in Villages /\ op[x.of] = t /\ Used(x.of)
      /\ Is(x.of, "retiring") /\ Children(x.of) = {} /\ x.of \notin worker /\ up
  BY <1>1, <1>2, BusyThread DEF Calls, CallHolds, Locks
<1>4. PICK z : z = [NoVillage EXCEPT !.at = "gone", !.owner = village[x.of].owner]
  OBVIOUS
<1>5. z \in Village /\ z.at = "gone" /\ z.parent = Free /\ z.ready = FALSE
  <2>1. z = [at |-> "gone", owner |-> village[x.of].owner, parent |-> Free, ready |-> FALSE,
             expired |-> FALSE, cleanups |-> 0, due |-> FALSE]
    BY <1>4 DEF NoVillage
  <2>2. 0 \in 0 .. MaxCleanups /\ village[x.of] \in Village
    BY <1>3, VillagesAssumption DEF VillageInv, VillageTypes
  <2>3. village[x.of].owner \in Owners \cup Villages \cup {Free}
    BY <2>2 DEF Village
  <2> QED
    BY <2>1, <2>2, <2>3 DEF Village
<1>6. /\ village' \in [Villages -> Village] /\ village'[x.of] = z
      /\ \A w \in Villages \ {x.of} : village'[w] = village[w]
  BY <1>2, <1>3, <1>4, <1>5 DEF VillageInv, VillageTypes
<1>7. Owned' = Owned \ {x.of} /\ \A w \in Villages : Used(w)' <=> Used(w)
  BY <1>3, <1>5, <1>6 DEF Owned, Is, Used
<1>8. ASSUME NEW w \in Villages
      PROVE  Children(w)' \subseteq Children(w)
  <2> SUFFICES ASSUME NEW c \in Owned', village'[c].parent = w
               PROVE  c \in Owned /\ village[c].parent = w
    BY DEF Children
  <2>1. c \in Owned /\ c # x.of /\ c \in Villages
    BY <1>7 DEF Owned
  <2> QED
    BY <1>6, <2>1
<1>9. VillagesAge
  <2> SUFFICES ASSUME NEW w \in Villages, Used(w)
               PROVE  /\ Used(w)'
                      /\ ~Is(w, "live") => ~Is(w, "live")' /\ Children(w)' \subseteq Children(w)
                      /\ w \notin Owned => w \notin Owned'
                      /\ village[w].parent = Free => village'[w].parent = Free
                      /\ village[w].ready /\ Is(w, "live")' => village'[w].ready
    BY DEF VillagesAge
  <2>1. CASE w = x.of
    BY <1>5, <1>6, <1>7, <1>8, <2>1 DEF Is
  <2>2. CASE w # x.of
    BY <1>6, <1>7, <1>8, <2>2 DEF Is
  <2> QED
    BY <2>1, <2>2
<1>10. /\ op' \in [Villages -> Threads \cup {Free}] /\ \A w \in Villages \ {x.of} : op'[w] = op[w]
       /\ \A u \in Threads \ {t} : answered'[u] = answered[u]
  BY <1>2 DEF VillageInv, VillageTypes
<1>11. Moves(t, x.of)
  BY <1>2, <1>3, <1>6, <1>9, <1>10 DEF Moves, Unmoved, Is
<1>12. StacksHold'
  BY <1>1, <1>2, <1>7, <1>11, Returns
<1>13. VillagesStand'
  <2>1. \A w \in Villages : ~Used(w)' => village'[w] = NoVillage
    BY <1>3, <1>6, <1>7 DEF VillageInv, VillagesStand
  <2>2. ASSUME NEW w \in Villages, village'[w].parent # Free
        PROVE  w \in Owned' /\ village'[w].parent \in Owned' /\ village'[w].parent < w
    <3>1. w # x.of /\ village'[w] = village[w]
      BY <1>5, <1>6, <2>2
    <3>2. w \in Owned /\ village[w].parent \in Owned /\ village[w].parent < w
      BY <2>2, <3>1 DEF VillageInv, VillagesStand
    <3>3. village[w].parent # x.of
      BY <1>3, <3>2 DEF Children
    <3> QED
      BY <1>7, <3>1, <3>2, <3>3
  <2>3. \A w \in Villages : Usable(w)' => w \in worker'
    BY <1>2, <1>5, <1>6 DEF VillageInv, VillagesStand, Usable, Is
  <2>4. worker' \subseteq storage' /\ storage' \subseteq Owned'
    BY <1>2, <1>3, <1>7 DEF VillageInv, VillagesStand
  <2>5. Cardinality(Owned' \cup replaced') <= MaxVillages
    <3>1. PICK o, q : o = Owned \cup replaced /\ q = Owned' \cup replaced'
      OBVIOUS
    <3>2. o \subseteq Villages /\ Cardinality(o) <= MaxVillages /\ q \subseteq o
      BY <1>2, <1>7, <3>1 DEF Owned, VillageInv, VillageTypes, VillagesStand
    <3>3. IsFiniteSet(o)
      BY <3>2, VillagesFinite, FS_Subset
    <3>4. IsFiniteSet(q) /\ Cardinality(q) <= Cardinality(o)
      BY <3>2, <3>3, FS_Subset
    <3>5. Cardinality(q) <= MaxVillages
      BY <3>2, <3>3, <3>4, FS_CardinalityType, VillagesAssumption
    <3> QED
      BY <3>1, <3>5
  <2> QED
    BY <1>2, <1>3, <1>7, <2>1, <2>2, <2>3, <2>4, <2>5 DEF VillageInv, VillagesStand
<1>14. VillageTypes'
  BY <1>2, <1>6, <1>10 DEF VillageInv, VillageTypes
<1> QED
  BY <1>12, <1>13, <1>14 DEF VillageInv

\* A village expires, or its next cleanup comes due.
LEMMA AgeStep ==
    ASSUME VillageInv, NEW v \in Villages, VillageExpires(v) \/ RetryDue(v)
    PROVE  VillageInv'
<1>1. /\ Used(v) /\ UNCHANGED <<claimed, replaced, worker, recorded, storage, op, calls, answered, up, mishaps>>
      /\ \/ village' = [village EXCEPT ![v].expired = TRUE]
         \/ village' = [village EXCEPT ![v].due = TRUE]
  BY DEF VillageExpires, RetryDue, Usable, Used, Is, scratch
<1>2. PICK z : /\ z = [village[v] EXCEPT !.expired = TRUE] \/ z = [village[v] EXCEPT !.due = TRUE]
               /\ village' = [village EXCEPT ![v] = z]
  BY <1>1
<1>3. village[v] \in Village
  BY DEF VillageInv, VillageTypes
<1>4. /\ z \in Village /\ z.at = village[v].at /\ z.parent = village[v].parent
      /\ z.ready = village[v].ready
  BY <1>2, <1>3 DEF Village
<1>5. /\ (z.at = village[v].at /\ Used(v)) \/ (z.at = "retiring" /\ v \in Owned)
      /\ village[v].ready => z.ready
      /\ z.at = "live" /\ z.ready => v \in worker
  BY <1>1, <1>4 DEF VillageInv, VillagesStand, Usable, Is
<1>6. /\ VillagesStand' /\ VillagesAge /\ village' \in [Villages -> Village]
      /\ \A w \in Villages : op'[w] = op[w] => Unmoved(w)
  BY <1>1, <1>2, <1>4, <1>5, RecordChanges
<1>7. StacksHold'
  BY <1>1, <1>6, NobodyMoves
<1>8. VillageTypes'
  BY <1>1, <1>6 DEF VillageInv, VillageTypes
<1> QED
  BY <1>6, <1>7, <1>8 DEF VillageInv

\* Threads without a call.
LEMMA IdleThread ==
    ASSUME calls' = [t \in Threads |-> << >>]
    PROVE  StacksHold'
<1>1. ASSUME NEW t \in Threads
      PROVE  StackHolds(t, calls[t])'
  <2>1. PICK s : s = << >>
    OBVIOUS
  <2>2. StackHolds(t, s)'
    BY <2>1 DEF StackHolds, Ordered, Nested
  <2> QED
    BY <2>1, <2>2
<1> QED
  BY <1>1 DEF StacksHold

\* The gateway is killed, and cleans up when it starts again.
LEMMA KillStep ==
    ASSUME VillageInv, Kill
    PROVE  VillageInv'
<1>1. \A v \in Villages : village'[v] = IF village[v] = NoVillage THEN NoVillage
                                        ELSE [NoVillage EXCEPT !.at = "gone"]
  BY DEF Kill
<1>2. PICK z : z = [NoVillage EXCEPT !.at = "gone"]
  OBVIOUS
<1>3. /\ z \in Village /\ NoVillage \in Village /\ z.at = "gone" /\ NoVillage.at = "none"
      /\ z.parent = Free /\ NoVillage.parent = Free
  <2>1. 0 \in 0 .. MaxCleanups
    BY VillagesAssumption
  <2> QED
    BY <1>2, <2>1 DEF NoVillage, Village
<1>4. village' \in [Villages -> Village]
  BY <1>2, <1>3 DEF Kill
<1>5. \A v \in Villages : village'[v].parent = Free /\ village'[v].at \in {"gone", "none"}
  BY <1>1, <1>2, <1>3
<1>6. Owned' = {} /\ replaced' = {} /\ ~up' /\ UNCHANGED <<worker, storage>>
  BY <1>5 DEF Owned, Is, Kill, scratch
<1>7. \A v \in Villages : /\ (Used(v)' <=> Used(v)) /\ (~Used(v)' => village'[v] = NoVillage)
  BY <1>1, <1>2, <1>3 DEF Used, VillageInv, VillagesStand
<1>8. Cardinality(Owned' \cup replaced') <= MaxVillages
  <2>1. Owned' \cup replaced' = {}
    BY <1>6
  <2> QED
    BY <2>1, FS_EmptySet, VillagesAssumption
<1>9. VillagesStand'
  BY <1>5, <1>6, <1>7, <1>8 DEF VillageInv, VillagesStand, Usable, Is
<1>10. VillageTypes'
  <2>1. mishaps < MaxMishaps /\ mishaps' = mishaps + 1 /\ up' = FALSE /\ UNCHANGED <<worker, recorded, storage>>
    BY DEF Kill, scratch
  <2>2. /\ claimed' = {} /\ replaced' = {} /\ op' \in [Villages -> Threads \cup {Free}]
        /\ answered' \in [Threads -> BOOLEAN]
    BY DEF Kill
  <2>3. mishaps' \in 0 .. MaxMishaps
    BY <2>1, VillagesAssumption DEF VillageInv, VillageTypes
  <2> QED
    BY <1>4, <2>1, <2>2, <2>3 DEF VillageInv, VillageTypes
<1>11. StacksHold'
  BY IdleThread DEF Kill
<1> QED
  BY <1>9, <1>10, <1>11 DEF VillageInv

\* What is left of the villages is stopped and removed.
LEMMA RecoverStep ==
    ASSUME VillageInv, recover
    PROVE  VillageInv'
<1>1. /\ ~up /\ up' = TRUE /\ worker' = {} /\ storage' = {} /\ recorded' = {}
      /\ UNCHANGED <<village, claimed, replaced, op, calls, answered, mishaps>>
  BY DEF recover, Found, registry, VillageInv, VillagesStand
<1>2. Owned = {} /\ Owned' = Owned
  BY <1>1, VillagesStay DEF VillageInv, VillagesStand
<1>3. VillagesStand'
  BY <1>1, <1>2 DEF VillageInv, VillagesStand, Used, Usable, Is, Owned
<1>4. \A t \in Threads : calls[t] = << >>
  BY <1>1 DEF VillageInv, StacksHold
<1>5. calls' = [t \in Threads |-> << >>]
  BY <1>1, <1>4 DEF VillageInv, StacksHold
<1>6. VillageTypes'
  BY <1>1 DEF VillageInv, VillageTypes
<1> QED
  BY <1>3, <1>5, <1>6, IdleThread DEF VillageInv

-----------------------------------------------------------------------------

\* The invariant holds at the start ...
LEMMA VillageInitHolds == VillageInit => VillageInv
<1> SUFFICES ASSUME VillageInit
             PROVE  VillageInv
  OBVIOUS
<1>1. NoVillage \in Village /\ NoVillage.at = "none" /\ NoVillage.parent = Free
  <2>1. 0 \in 0 .. MaxCleanups
    BY VillagesAssumption
  <2> QED
    BY <2>1 DEF NoVillage, Village
<1>2. VillageTypes
  BY <1>1, VillagesAssumption DEF VillageInit, VillageTypes
<1>3. \A v \in Villages : village[v] = NoVillage
  BY DEF VillageInit
<1>4. Owned = {} /\ replaced = {} /\ worker = {} /\ storage = {}
  BY <1>1, <1>3 DEF VillageInit, Owned, Is
<1>5. Cardinality(Owned \cup replaced) <= MaxVillages
  <2>1. Owned \cup replaced = {}
    BY <1>4
  <2> QED
    BY <2>1, FS_EmptySet, VillagesAssumption
<1>6. VillagesStand
  <2>1. 0 \in 0 .. NumVillages /\ \A v \in Villages : Used(v) <=> v <= 0
    BY <1>1, <1>3, VillagesAssumption DEF Used, Villages
  <2> QED
    BY <1>1, <1>3, <1>4, <1>5, <2>1 DEF VillagesStand, Usable, Is
<1>7. StacksHold
  <2>1. PICK s : s = << >>
    OBVIOUS
  <2>2. \A t \in Threads : calls[t] = s
    BY <2>1 DEF VillageInit
  <2>3. \A t \in Threads : StackHolds(t, s)
    BY <2>1 DEF StackHolds, Ordered, Nested
  <2> QED
    BY <2>1, <2>2, <2>3 DEF StacksHold, VillageInit
<1> QED
  BY <1>2, <1>6, <1>7 DEF VillageInv

\* ... and every step keeps it.
LEMMA VillageStep == VillageInv /\ [VillageNext]_villageVars => VillageInv'
<1> SUFFICES ASSUME VillageInv, [VillageNext]_villageVars
             PROVE  VillageInv'
  OBVIOUS
<1>1. ASSUME NEW t \in Visitors, NEW v \in Villages,
             \/ \E owner \in Owners : start(t, v, owner)
             \/ product(t, v) \/ archive_prepare(t, v) \/ archive_discard(t, v)
             \/ \E do \in {"reset", "discard"} : retire(t, v, do)
      PROVE  VillageInv'
  <2>1. t \in Threads
    BY DEF Threads
  <2>2. product(t, v) => VillageInv'
    BY <2>1, GetStep DEF product
  <2>3. archive_prepare(t, v) \/ archive_discard(t, v) => VillageInv'
    BY <2>1, GetStep DEF archive_prepare, archive_discard
  <2> QED
    BY <1>1, <2>1, <2>2, <2>3, StartStep, RetireStep
<1>2. ASSUME NEW v \in Villages, reap(v) \/ VillageExpires(v) \/ RetryDue(v)
      PROVE  VillageInv'
  BY <1>2, ReapStep, AgeStep
<1>3. ASSUME NEW t \in Threads, Proceeding(t) \/ StartupFails(t)
      PROVE  VillageInv'
  BY <1>3, SpawnStep, RecordStep, ReadyStep, UseStep, LeaveStep, TargetStep, RetireTargetStep,
     UnclaimStep, ResetStep, WithdrawStep, BeginCleanupStep, DestroyChildStep, ChildGoneStep,
     StopStep, RemoveStep, CleanupFailsStep, StartupFailsStep DEF Proceeding
<1>4. ASSUME UNCHANGED villageVars
      PROVE  VillageInv'
  <2>1. UNCHANGED <<village, claimed, replaced, worker, recorded, storage, op, calls, answered, up, mishaps>>
    BY <1>4 DEF villageVars, registry, scratch
  <2>2. VillagesStand' /\ VillagesAge /\ \A w \in Villages : Unmoved(w)
    BY <2>1, QuietStep
  <2>3. StacksHold'
    BY <2>1, <2>2, NobodyMoves
  <2>4. VillageTypes'
    BY <2>1 DEF VillageInv, VillageTypes
  <2> QED
    BY <2>2, <2>3, <2>4 DEF VillageInv
<1> QED
  BY <1>1, <1>2, <1>3, <1>4, KillStep, RecoverStep DEF VillageNext

\* Practice villages fit the gateway, and every request works on the village it
\* was let in to, its worker and its storage there and its lock held
\* (sandbox_runtime.py): for any number of visitors, villages and kills.
THEOREM VillagesServeHolds == VillageSpec => []VillagesServe
<1>1. VillageInv => VillagesServe
  <2> SUFFICES ASSUME VillageInv
               PROVE  VillagesServe
    OBVIOUS
  <2>1. VillagesFitCapacity
    BY DEF VillageInv, VillagesStand, VillagesFitCapacity
  <2>2. ASSUME NEW t \in Visitors, NEW n \in DOMAIN calls[t],
               calls[t][n].do \in {"use", "prepare", "unprepare"}, calls[t][n].at # "begin"
        PROVE  /\ calls[t][n].of \in worker /\ calls[t][n].of \in storage
               /\ op[calls[t][n].of] = t
    <3>1. CallHolds(t, calls[t][n])
      BY DEF VillageInv, StacksHold, StackHolds, Threads
    <3> QED
      BY <2>2, <3>1 DEF CallHolds, Locks
  <2>3. RequestsFindTheirVillage
    BY <2>2 DEF RequestsFindTheirVillage
  <2> QED
    BY <2>1, <2>3 DEF VillagesServe
<1> QED
  BY <1>1, VillageInitHolds, VillageStep, PTL DEF VillageSpec

\* No destination of an archive is left without its source (docs/sandbox.md).
THEOREM TargetsHaveTheirSourceHolds == VillageSpec => []TargetsHaveTheirSource
<1>1. VillageInv => TargetsHaveTheirSource
  BY DEF VillageInv, VillagesStand, TargetsHaveTheirSource, Owned
<1> QED
  BY <1>1, VillageInitHolds, VillageStep, PTL DEF VillageSpec
=============================================================================
