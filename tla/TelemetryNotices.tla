-------------------------- MODULE TelemetryNotices --------------------------
(***************************************************************************)
(* What the owner of an installation is told about it                      *)
(* (store/telemetry_notices.py and its callers in store/telemetry.py).     *)
(* Notices are derived from the readings whenever some arrive or the owner *)
(* looks; a row is kept for each condition of each channel, and an         *)
(* acknowledgement is for one episode of it.                               *)
(***************************************************************************)
EXTENDS Naturals, FiniteSets

CONSTANTS
    Channels,       \* metric, location and direction
    FaultChannel,   \* the status a device reports of itself
    Ages,           \* freshness a reading may have when it arrives
    MaxDeliveries,  \* bound: posts that bring readings
    MaxEpisode,     \* bound: episodes of a notice
    NoReading, NoNotice

ASSUME NoticesAssumption ==
    /\ FaultChannel \in Channels
    /\ Ages \subseteq {"fresh", "stale", "clock_skew", "unknown"}
    /\ MaxDeliveries \in Nat /\ MaxEpisode \in Nat \ {0}

VARIABLES
    latest,     \* latest retained sample of each channel
    notice,     \* telemetry_notices
    pending,    \* notice_refresh_pending: a projection was missed
    spell,      \* how often deliveries ended a condition (history)
    told,       \* the episode of each notice the owner was last shown, and its spell
    deliveries

noticeVars == <<latest, notice, pending, spell, told, deliveries>>

\* recent: the channel was delivered within its freshness window.
ReadingsOfAChannel == [age : Ages \cup {"stale"}, fault : BOOLEAN, recent : BOOLEAN]

\* source_missing and collector_late are about the delivery, the others about a channel.
Conditions ==
    ({"source_missing", "collector_late"} \X {"delivery"})
    \cup ({"source_old", "source_channel_missing", "source_clock", "source_unknown"} \X Channels)
    \cup {<<"device_fault", FaultChannel>>}

Notices ==
    [active : BOOLEAN, episode : 1 .. MaxEpisode, snoozed : BOOLEAN, clear : BOOLEAN]

ASSUME NoNoticeAssumption == NoNotice \notin [active : BOOLEAN, episode : Nat, snoozed : BOOLEAN, clear : BOOLEAN]

NoticeTypeOK ==
    /\ latest \in [Channels -> ReadingsOfAChannel \cup {NoReading}]
    /\ \A c \in Conditions : notice[c] \in Notices \cup {NoNotice}
    /\ pending \in BOOLEAN

NoticeInit ==
    /\ latest = [c \in Channels |-> NoReading]
    /\ notice = [c \in Conditions |-> NoNotice]
    /\ pending = FALSE
    /\ spell = [c \in Conditions |-> 0]
    /\ told = [c \in Conditions |-> NoNotice]
    /\ deliveries = 0

-----------------------------------------------------------------------------
(* Notices.                                                                *)

Seen(r) == {c \in Channels : r[c] # NoReading}

\* _conditions of an installation, from its readings.
_conditions(r) ==
    IF Seen(r) = {} THEN {<<"source_missing", "delivery">>}
    ELSE IF \A c \in Seen(r) : ~r[c].recent THEN {<<"collector_late", "delivery">>}
    ELSE {<<IF r[c].age = "stale"
            THEN IF r[c].recent THEN "source_old" ELSE "source_channel_missing"
            ELSE IF r[c].age = "clock_skew" THEN "source_clock" ELSE "source_unknown", c>>
              : c \in {d \in Seen(r) : r[d].age # "fresh"}}
         \cup {<<"device_fault", FaultChannel>> :
                   c \in {d \in Seen(r) \cap {FaultChannel} : r[d].age = "fresh" /\ r[d].fault}}

Healthy(r) ==
    LET Fine == {c \in Seen(r) : r[c].age = "fresh" /\ r[c].recent}
    IN  Fine \cup (IF Fine = Seen(r) /\ Fine # {} THEN {"delivery"} ELSE {})

\* What a row becomes when its condition holds: a row at rest starts an episode.
Raise(n) ==
    IF n = NoNotice THEN [active |-> TRUE, episode |-> 1, snoozed |-> FALSE, clear |-> FALSE]
    ELSE IF n.active THEN n
    ELSE [active |-> TRUE, episode |-> n.episode + 1, snoozed |-> FALSE, clear |-> FALSE]

\* A row at rest stays as it is; a fault that ended unseen may be reported clear.
Subsided(n, c) == n = NoNotice \/ (~n.active /\ (c[1] # "device_fault" \/ n.clear))

Resolve(n, c, r) ==
    IF Subsided(n, c) THEN n
    ELSE [active |-> FALSE, episode |-> n.episode, snoozed |-> n.snoozed, clear |-> c[2] \in Healthy(r)]

\* A version that keeps the episode over a projection that was missed.
Uncertain_kept(n) == n

\* After a missed projection an active notice must be confirmed anew.
Uncertain(n) ==
    IF n # NoNotice /\ n.active
    THEN [active |-> TRUE, episode |-> n.episode + 1, snoozed |-> FALSE, clear |-> n.clear] ELSE n

\* The rows after the readings r are looked at.
Reconciled(r, uncertain) ==
    [c \in Conditions |->
        LET n == IF uncertain THEN Uncertain(notice[c]) ELSE notice[c]
        IN  IF c \in _conditions(r) THEN Raise(n) ELSE Resolve(n, c, r)]

\* Bound: no row runs out of episodes.
Roomy == \A c \in Conditions : notice[c] # NoNotice => notice[c].episode + 2 <= MaxEpisode

reconcile(r, uncertain) ==
    /\ Roomy
    /\ notice' = Reconciled(r, uncertain)
    /\ pending' = FALSE

\* Readings arrive.  The projection of the notices runs in a savepoint: when it
\* fails or is cut off, the readings stay and the refresh is pending.
ingest_readings ==
    /\ deliveries < MaxDeliveries
    /\ \E S \in SUBSET Channels \ {{}} : \E ages \in [S -> Ages], fault \in BOOLEAN :
           latest' = [c \in Channels |->
               IF c \in S
               THEN [age |-> ages[c], fault |-> fault /\ c = FaultChannel, recent |-> TRUE]
               ELSE latest[c]]
    /\ spell' = [c \in Conditions |->
                    IF c \in _conditions(latest') THEN spell[c] ELSE spell[c] + 1]
    /\ \/ reconcile(latest', pending)
       \/ pending' = TRUE /\ UNCHANGED notice
    /\ deliveries' = deliveries + 1
    /\ UNCHANGED <<told>>

\* Readings grow old, are delivered no more, and are cleaned up.
GrowOld ==
    /\ \E c \in Seen(latest) :
           \/ latest[c].age = "fresh" /\ latest' = [latest EXCEPT ![c].age = "stale"]
           \/ latest[c].recent /\ latest' = [latest EXCEPT ![c].recent = FALSE]
           \/ /\ latest[c].age = "stale" /\ ~latest[c].recent
              /\ latest' = [latest EXCEPT ![c] = NoReading]
    /\ UNCHANGED <<notice, pending, spell, told, deliveries>>

\* owner_overview and owner_notices: look, under the lock of the row.
owner_notices ==
    /\ reconcile(latest, pending)
    /\ told' = [c \in Conditions |->
                   IF notice'[c] # NoNotice /\ notice'[c].active
                   THEN [episode |-> notice'[c].episode, spell |-> spell[c]] ELSE NoNotice]
    /\ UNCHANGED <<latest, spell, deliveries>>

\* The owner acknowledges an episode it was told of.  The rows are looked at
\* first; when that ended the episode the request changes nothing.
acknowledge_notice(c) ==
    /\ told[c] # NoNotice
    /\ Roomy
    /\ LET rows == Reconciled(latest, pending)
       IN  /\ rows[c].active /\ rows[c].episode = told[c].episode /\ ~rows[c].snoozed
           /\ notice' = [rows EXCEPT ![c] = [@ EXCEPT !.snoozed = TRUE]]
    /\ pending' = FALSE
    /\ UNCHANGED <<latest, spell, told, deliveries>>

\* COOLDOWN is over: the notice asks for attention again.
Resurface(c) ==
    /\ notice[c] # NoNotice /\ notice[c].snoozed
    /\ notice' = [notice EXCEPT ![c] = [@ EXCEPT !.snoozed = FALSE]]
    /\ UNCHANGED <<latest, pending, spell, told, deliveries>>

\* Rows at rest go with the retention of the installation; a later row has a new
\* id, so what was told of the old one acknowledges nothing.
cleanup_notices(c) ==
    /\ notice[c] # NoNotice /\ ~notice[c].active
    /\ notice' = [notice EXCEPT ![c] = NoNotice]
    /\ told' = [told EXCEPT ![c] = NoNotice]
    /\ UNCHANGED <<latest, pending, spell, deliveries>>

NoticeNext ==
    \/ ingest_readings \/ GrowOld \/ owner_notices
    \/ \E c \in Conditions : acknowledge_notice(c) \/ Resurface(c) \/ cleanup_notices(c)

NoticeSpec == NoticeInit /\ [][NoticeNext]_noticeVars

-----------------------------------------------------------------------------

\* What the owner was told and may acknowledge is the outbreak there is now, not
\* one that readings ended in between, however many projections were missed.
AcknowledgedIsCurrent ==
    \A c \in Conditions :
        /\ ~pending /\ told[c] # NoNotice /\ notice[c] # NoNotice
        /\ notice[c].active /\ notice[c].episode = told[c].episode
        => told[c].spell = spell[c]
=============================================================================
