-------------------------- MODULE TelemetryDelivery --------------------------
(***************************************************************************)
(* Delivery of telemetry samples (telemetry_collector.py, the ingestion in *)
(* store/telemetry.py): a collector beside the device numbers samples in a *)
(* local spool and posts batches; answers get lost, posts arrive late or   *)
(* twice, owners replace credentials, disks are lost, and both sides drop  *)
(* what is too old.  A batch is one transaction on the server.             *)
(*                                                                         *)
(* Time is in steps; MAX_AGE steps make the day after which the collector  *)
(* drops a sample, and the shortest retention an owner may choose.         *)
(***************************************************************************)
EXTENDS Naturals, FiniteSets, SequencesExt

CONSTANTS
    MAX_QUEUE, MAX_BATCH, MAX_ATTEMPTS, MAX_AGE,
    Readings,        \* what a reader may offer twice: keys of source samples
    KindOf,          \* Readings -> Kinds
    MaxNow,          \* bound: the clock
    MaxNumber,       \* bound: numbers of samples
    MaxPosts,        \* bound: posts under way at once
    MaxCredentials,  \* bound: credentials ever issued
    MaxTroubles,     \* bound: deaths, lost disks, and acts of the owner
    Nothing

ASSUME TelemetryAssumption ==
    /\ {MAX_QUEUE, MAX_BATCH, MAX_ATTEMPTS, MAX_AGE} \subseteq Nat \ {0}
    /\ {MaxNow, MaxNumber, MaxPosts, MaxCredentials, MaxTroubles} \subseteq Nat
    /\ KindOf \in [Readings -> {"undated", "instant", "interval"}]

VARIABLES
    now,
    spool,      \* samples table of the collector
    number,     \* the sequence of its state row
    accepted,   \* source_samples: when a reading was taken, Nothing when unknown
    life,       \* which spool this is: sample_ids of different spools differ
    attempts, blocked, waiting,
    token,      \* credential in the collector's configuration
    flushing,   \* what the holder of the flush lock posted and was answered
    posts,      \* requests under way, their sender listening or gone
    installation,  \* state of the installation and its owner's membership
    credential, retention, highwater, stored,
    log,        \* samples ever inserted, in order
    issued,     \* answer of the last rotation: credential and highwater
    troubles

collectorVars == <<spool, number, accepted, life, attempts, blocked, waiting, token>>
serverVars == <<installation, credential, retention, highwater, stored, log, issued>>
deliveryVars == <<now, collectorVars, flushing, posts, serverVars, troubles>>

\* An undated reading has no observation time; an interval began before the
\* time it was observed.
Kinds == {"undated", "instant", "interval"}

Samples == [number : 1 .. MaxNumber, life : 0 .. MaxTroubles, at : 0 .. MaxNow, kind : Kinds]

Answers == {"ok", "retry", "refused"}

\* Nothing is no answer, of the server or of a rotation, and no post.
ASSUME NothingAssumption ==
    /\ Nothing \notin Answers
    /\ Nothing \notin [credential : Nat, highwater : Nat]
    /\ Nothing \notin [batch : SUBSET [number : Nat, life : Nat, at : Nat, kind : Kinds],
                      answer : Answers \cup {Nothing}]

Numbers(samples) == {s.number : s \in samples}

InOrder(samples) == {list \in [1 .. Cardinality(samples) -> samples] :
    /\ \A s \in samples : \E i \in DOMAIN list : list[i] = s
    /\ \A i, j \in DOMAIN list : i < j => list[i].number < list[j].number}

DeliveryTypeOK ==
    /\ now \in 0 .. MaxNow
    /\ spool \subseteq Samples /\ stored \subseteq [sample : Samples, received : 0 .. MaxNow]
    /\ attempts \in 0 .. MAX_ATTEMPTS /\ {blocked, waiting} \subseteq BOOLEAN
    /\ flushing = Nothing \/ flushing.answer \in Answers \cup {Nothing}
    /\ credential \in 0 .. MaxCredentials /\ token \in 1 .. MaxCredentials
    /\ Cardinality(spool) <= MAX_QUEUE
    /\ Cardinality(posts) <= MaxPosts

DeliveryInit ==
    /\ now = 0 /\ spool = {} /\ number = 0 /\ life = 0
    /\ accepted = [r \in Readings |-> Nothing]
    /\ attempts = 0 /\ blocked = FALSE /\ waiting = FALSE
    /\ token = 1 /\ credential = 1 /\ issued = Nothing
    /\ flushing = Nothing /\ posts = {}
    /\ installation = "confirmed" /\ retention = MAX_AGE
    /\ highwater = 0 /\ stored = {} /\ log = <<>>
    /\ troubles = 0

-----------------------------------------------------------------------------
(* The collector.                                                          *)

\* Dated samples go a margin earlier, so that a batch is not refused for its age.
Expired(s, t) ==
    \/ s.at + MAX_AGE < t
    \/ s.kind # "undated" /\ s.at + MAX_AGE <= t

_expire(samples) == {s \in samples : ~Expired(s, now)}

Remembered(r) == accepted[r] # Nothing /\ accepted[r] + MAX_AGE >= now

\* A reading offered again within a day is the sample it was; else a full queue
\* refuses it, or it gets the next number.
enqueue(r) ==
    /\ \/ /\ Remembered(r)
          /\ spool' = _expire(spool)
          /\ UNCHANGED <<number, accepted>>
       \/ /\ ~Remembered(r)
          /\ Cardinality(_expire(spool)) < MAX_QUEUE
          /\ number < MaxNumber
          /\ number' = number + 1
          /\ spool' = _expire(spool) \cup
                 {[number |-> number + 1, life |-> life, at |-> now, kind |-> KindOf[r]]}
          /\ accepted' = [accepted EXCEPT ![r] = now]
    /\ UNCHANGED <<now, life, attempts, blocked, waiting, token, flushing, posts,
                   serverVars, troubles>>

FirstOf(samples) ==
    {s \in samples : Cardinality({t \in samples : t.number <= s.number}) <= MAX_BATCH}

\* One flusher at a time: expire, and post a batch unless blocked or backing off.
flush_once ==
    /\ flushing = Nothing
    /\ spool' = _expire(spool)
    /\ IF blocked \/ waiting \/ spool' = {}
       THEN spool' # spool /\ UNCHANGED <<flushing, posts>>
       ELSE LET batch == FirstOf(spool') IN
            /\ flushing' = [batch |-> batch, answer |-> Nothing]
            /\ posts' = posts \cup
                   {[batch |-> batch, token |-> token, charged |-> FALSE, heard |-> TRUE]}
            /\ Cardinality(posts) < MaxPosts
    /\ UNCHANGED <<now, number, accepted, life, attempts, blocked, waiting, token,
                   serverVars, troubles>>

\* A version that empties the spool, with what was queued during the post.
Acknowledged_all(batch) == {s \in spool : batch # {}}

\* A version that keeps the last sample of the batch.
Acknowledged_before(batch) == {s \in spool : \E b \in batch : s.number < b.number}

\* The samples an acknowledged batch releases: up to the number of its last one.
Acknowledged(batch) == {s \in spool : \E b \in batch : s.number <= b.number}

\* A version that never gives up a server out of order.
GivesUp_refused(tries, answer) == answer = "refused"

\* A collector that failed often enough, or whose batch is refused, waits for its
\* operator.
GivesUp(tries, answer) == tries >= MAX_ATTEMPTS \/ answer = "refused"

\* The transaction after the POST.
_flush_locked ==
    /\ flushing # Nothing /\ flushing.answer # Nothing
    /\ IF flushing.answer = "ok"
       THEN /\ spool' = spool \ Acknowledged(flushing.batch)
            /\ attempts' = 0 /\ waiting' = FALSE
            /\ UNCHANGED blocked
       ELSE /\ attempts' = attempts + 1
            /\ waiting' = TRUE
            /\ blocked' = GivesUp(attempts', flushing.answer)
            /\ UNCHANGED spool
    /\ flushing' = Nothing
    /\ UNCHANGED <<now, number, accepted, life, token, posts, serverVars, troubles>>

\* The back-off of at most five minutes is over.
BackedOff ==
    /\ waiting
    /\ waiting' = FALSE
    /\ UNCHANGED <<now, spool, number, accepted, life, attempts, blocked, token, flushing,
                   posts, serverVars, troubles>>

\* The operator looked after a blocked collector: with a new credential, or the one it has.
resume ==
    /\ blocked /\ flushing = Nothing
    /\ blocked' = FALSE /\ attempts' = 0 /\ waiting' = FALSE
    /\ token' \in {token} \cup (IF issued = Nothing THEN {} ELSE {issued.credential})
    /\ UNCHANGED <<now, spool, number, accepted, life, flushing, posts, serverVars, troubles>>

\* The flushing process dies; its lock goes with it, its post may still arrive.
Deafened == {[p EXCEPT !.heard = FALSE] : p \in posts}

FlusherDies ==
    /\ flushing # Nothing /\ troubles < MaxTroubles
    /\ flushing' = Nothing /\ posts' = Deafened
    /\ troubles' = troubles + 1
    /\ UNCHANGED <<now, collectorVars, serverVars>>

\* The disk is lost: a rotation tells the highwater a new spool continues from.
configuration ==
    /\ flushing = Nothing /\ issued # Nothing /\ issued.credential # token
    /\ spool' = {} /\ number' = issued.highwater /\ life' = life + 1
    /\ accepted' = [r \in Readings |-> Nothing]
    /\ attempts' = 0 /\ blocked' = FALSE /\ waiting' = FALSE
    /\ token' = issued.credential
    /\ UNCHANGED <<now, flushing, posts, serverVars, troubles>>

-----------------------------------------------------------------------------
(* The network and the server                                              *)

\* The sender waits ten seconds; the post may be lost or arrive after that.
TimesOut(p) ==
    /\ p.heard
    /\ flushing' = [flushing EXCEPT !.answer = "retry"]
    /\ \/ posts' = posts \ {p}
       \/ posts' = (posts \ {p}) \cup {[p EXCEPT !.heard = FALSE]}
    /\ UNCHANGED <<now, collectorVars, serverVars, troubles>>

Answer(p, code) ==
    /\ posts' = posts \ {p}
    /\ flushing' = IF p.heard THEN [flushing EXCEPT !.answer = code] ELSE flushing

\* The installation and its owner's membership are there, and the credential is.
_authenticate(p) == installation = "confirmed" /\ p.token = credential

\* A transaction of its own before the body is read; the minute's budget may
\* have been used up.
charge_ingestion(p) ==
    /\ ~p.charged
    /\ \/ /\ _authenticate(p)
          /\ posts' = (posts \ {p}) \cup {[p EXCEPT !.charged = TRUE]}
          /\ UNCHANGED flushing
       \/ _authenticate(p) /\ Answer(p, "retry")
       \/ ~_authenticate(p) /\ Answer(p, "refused")
    /\ UNCHANGED <<now, collectorVars, serverVars, troubles>>

\* The window of contract.observation: the retention of the installation.
Observable(s) ==
    /\ s.kind # "undated" => s.at + retention >= now
    /\ s.kind = "interval" => s.at - 1 + retention >= now

Known(samples) == {s \in samples : \E row \in stored : row.sample = s}

\* Samples stored before are duplicates; a number not above the highwater that is
\* not one of them is a replay, and the whole batch is rolled back.
Replays(samples) == {s \in samples \ Known(samples) : s.number <= highwater}

Refuses(p) ==
    \/ ~_authenticate(p)
    \/ \E s \in p.batch : ~Observable(s)
    \/ Replays(p.batch) # {}

StoreSamples(samples) ==
    /\ stored' = stored \cup {[sample |-> s, received |-> now] : s \in samples}
    /\ highwater' \in {highwater} \cup Numbers(samples)
    /\ \A n \in {highwater} \cup Numbers(samples) : n <= highwater'
    /\ \E list \in InOrder(samples) : log' = log \o list

\* The credential is checked again under the lock of the installation's row.
ingest(p) ==
    /\ p.charged
    /\ IF Refuses(p)
       THEN Answer(p, "refused") /\ UNCHANGED serverVars
       ELSE /\ Answer(p, "ok")
            /\ StoreSamples(p.batch \ Known(p.batch))
            /\ UNCHANGED <<installation, credential, retention, issued>>
    /\ UNCHANGED <<now, collectorVars, troubles>>

\* Raw samples go by the time received or observed.
_cleanup(days) ==
    stored' = {row \in stored : /\ row.received + days >= now
                                /\ row.sample.kind # "undated" => row.sample.at + days >= now}

cleanup ==
    /\ _cleanup(retention) /\ stored' # stored
    /\ UNCHANGED <<now, collectorVars, flushing, posts, installation, credential, retention,
                   highwater, log, issued, troubles>>

\* The installation was registered with the first credential.
LastIssued == IF issued = Nothing THEN 1 ELSE issued.credential

\* change() by the owner: rotate tells the new credential and the highwater.
rotate ==
    /\ troubles < MaxTroubles /\ troubles' = troubles + 1
    /\ installation = "confirmed" /\ LastIssued < MaxCredentials
    /\ credential' = LastIssued + 1
    /\ issued' = [credential |-> LastIssued + 1, highwater |-> highwater]
    /\ UNCHANGED <<now, collectorVars, flushing, posts, installation, retention, highwater,
                   stored, log>>

\* revoke, delete, and the end of the owner's membership.
Withdrawn ==
    /\ troubles < MaxTroubles /\ troubles' = troubles + 1
    /\ installation = "confirmed"
    /\ \/ credential # 0 /\ credential' = 0 /\ UNCHANGED <<installation, stored>>
       \/ installation' = "left" /\ UNCHANGED <<credential, stored>>
       \/ installation' = "deleted" /\ stored' = {} /\ UNCHANGED credential
    /\ UNCHANGED <<now, collectorVars, flushing, posts, retention, highwater, log, issued>>

\* retention: the new days count at once.
SetRetention ==
    /\ troubles < MaxTroubles /\ troubles' = troubles + 1
    /\ installation = "confirmed"
    /\ retention' \in MAX_AGE .. MAX_AGE + 1 /\ retention' # retention
    /\ _cleanup(retention')
    /\ UNCHANGED <<now, collectorVars, flushing, posts, installation, credential, highwater,
                   log, issued>>

\* A post listened to is answered or given up before the next step of the clock.
Tick ==
    /\ now < MaxNow
    /\ \A p \in posts : ~p.heard
    /\ now' = now + 1
    /\ UNCHANGED <<collectorVars, flushing, posts, serverVars, troubles>>

DeliveryNext ==
    \/ \E r \in Readings : enqueue(r)
    \/ flush_once \/ _flush_locked \/ BackedOff \/ resume \/ FlusherDies \/ configuration
    \/ \E p \in posts : TimesOut(p) \/ charge_ingestion(p) \/ ingest(p)
    \/ cleanup \/ rotate \/ Withdrawn \/ SetRetention \/ Tick

\* The timer of the collector flushes again and again, and a post listened to is
\* answered or given up.
DeliveryFairness ==
    /\ WF_deliveryVars(flush_once) /\ WF_deliveryVars(_flush_locked)
    /\ WF_deliveryVars(BackedOff)
    /\ WF_deliveryVars(\E p \in posts : TimesOut(p) \/ charge_ingestion(p) \/ ingest(p))

DeliverySpec == DeliveryInit /\ [][DeliveryNext]_deliveryVars /\ DeliveryFairness

-----------------------------------------------------------------------------

\* The log of samples: the spool is what is kept, and what expired is past.
Log == INSTANCE TelemetryLog WITH Past <- Expired, kept <- spool

\* Each sample is counted once and in the order of its number however often its
\* batch is posted, and the collector lets go of it only when it was counted, its
\* time has passed or its disk is replaced (flush_once, ingest, configuration).
CountsOnceInOrder == Log!LogSpec

\* A sample in the spool leaves it in the end: counted or too old, unless the
\* collector blocks and waits for its operator.
EverySampleSettles ==
    \A n \in 1 .. MaxNumber : n \in Numbers(spool) ~> (n \notin Numbers(spool) \/ blocked)
=============================================================================
