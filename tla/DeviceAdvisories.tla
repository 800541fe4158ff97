-------------------------- MODULE DeviceAdvisories --------------------------
(***************************************************************************)
(* Advisories about devices (advisories.py, store/advisories.py) and the   *)
(* equipment of a household they are compared with (equipment.py,          *)
(* store/equipment.py).  An advisory has numbered revisions, of which a    *)
(* reviewer publishes the newest; a policy names the sources to be looked  *)
(* through and how often; a household records what it did about a notice.  *)
(*                                                                         *)
(* Recording an action is one transaction of several statements, each of   *)
(* which sees what has been committed when it begins: it locks the         *)
(* household's building, then the policies and the advisory against their  *)
(* writers, and reads afterwards.  The writers lock what they change in    *)
(* their first statement and are one step.                                 *)
(***************************************************************************)
EXTENDS Integers, Sequences, FiniteSets, FiniteSetsExt

CONSTANTS
    Advisories,     \* the catalogue has room for all of them
    Contents,        \* contents a revision can be given
    Contexts,       \* manufacturer, model and firmware of a device
    Policies,       \* policies that can be set
    Tabs,           \* windows of the household in which it looks at notices
    MaxRevisions, MaxPolicies, MaxReviews, MaxDay,  \* bounds
    Unknown,        \* a name or a bound that was left out
    NoEquipment     \* there is no record

ASSUME AdvisoryAssumption ==
    /\ {MaxRevisions, MaxPolicies, MaxReviews, MaxDay} \subseteq Nat /\ MaxRevisions > 0
    /\ \A p \in Policies : p.enabled => p.cadence \in 1 .. 90 /\ p.urls # {}

VARIABLES
    revisions,      \* advisory_revisions: per advisory its contents, by number
    publications,   \* advisory_publications: the numbers that were published
    policies,       \* advisory_review_policies
    reviews,        \* advisory_source_reviews: policy, outcome, day
    equipment,      \* equipment_records: the device, and whether a check is done
    actions,        \* equipment_advisory_actions
    tab,            \* per window: what it has seen, and its transaction
    today

advisoryVars == <<revisions, publications, policies, reviews, equipment, actions, tab, today>>

-----------------------------------------------------------------------------
(* Comparison of a device with an advisory.                                *)

\* A version is a scheme and its numbers; others are not understood.
parse_version(version, scheme) ==
    IF version # Unknown /\ version.scheme = scheme THEN version.parts ELSE << >>

Before(v, w) == \E i \in DOMAIN v : v[i] < w[i] /\ \A j \in 1 .. i - 1 : v[j] = w[j]

_firmware(rule) ==
    LET bounds == {rule.lower, rule.upper} \ {Unknown} IN
    IF rule.scheme = "unsupported" THEN bounds = {}
    ELSE /\ bounds # {} /\ \A b \in bounds : parse_version(b, rule.scheme) # << >>
         /\ Cardinality(bounds) = 2 =>
               /\ Len(rule.lower.parts) = Len(rule.upper.parts)
               /\ Before(rule.lower.parts, rule.upper.parts)

validate_entry(e) ==
    /\ e.models # {} /\ \A m \in e.models : _firmware(m.firmware)
    /\ \A m, n \in e.models : m # n => m.names \cap n.names = {}

\* The first lines of the comparison: is this the device at all?
Ruled_out(c, e) ==
    \/ c.vendor # Unknown /\ c.vendor \notin e.vendors
    \/ c.model # Unknown /\ \A m \in e.models : c.model \notin m.names

Within(version, rule) ==
    LET lower == parse_version(rule.lower, rule.scheme) upper == parse_version(rule.upper, rule.scheme)
    IN ~(lower # << >> /\ Before(version, lower)) /\ (upper = << >> \/ Before(version, upper))

match_advisory(c, e) ==
    IF Ruled_out(c, e) THEN "no_identity_match"
    ELSE IF Unknown \in {c.vendor, c.model, c.firmware} THEN "possible"
    ELSE LET rule == (CHOOSE m \in e.models : c.model \in m.names).firmware
             version == parse_version(c.firmware, rule.scheme)
             bounds == {parse_version(b, rule.scheme) : b \in {rule.lower, rule.upper}} \ {<< >>}
         IN IF version = << >> \/ \E b \in bounds : Len(b) # Len(version) THEN "possible"
            ELSE IF Within(version, rule) THEN "affected" ELSE "not_within"

IdentityMatched(c, e) == ~Ruled_out(c, e) /\ Unknown \notin {c.vendor, c.model}

\* How far the sources have been looked through, by the reviews of the policy,
\* given by their places.
catalog_health(policy, seen, day) ==
    LET successes == {i \in seen : reviews[i].outcome = "success"} IN
    IF policy = Unknown \/ ~policy.enabled THEN "disabled"
    ELSE IF seen # {} /\ reviews[Max(seen)].outcome = "failure" THEN "failed"
    ELSE IF successes = {} THEN "unreviewed"
    ELSE IF day >= reviews[Max(successes)].day + policy.cadence THEN "stale" ELSE "current"

\* item["action_allowed"] of the revision published last, or of an older one
action_allowed(c, e, newest, policy, health) ==
    /\ newest /\ e.status = "active" /\ health = "current"
    /\ e.source \in policy.urls /\ IdentityMatched(c, e)

-----------------------------------------------------------------------------

Resting == [at |-> "resting"]

\* A window of the household: what it has seen, and what its transaction has
\* locked, read and found.
Notice == [at : {"seen"}, advisory : Advisories, revision : 1 .. MaxRevisions, device : Contexts]
Recording == [at : {"owner", "policies", "catalog"}, advisory : Advisories, revision : 1 .. MaxRevisions,
              device : [seen : Contexts, now : Contexts]]
Compared == [at : {"read"}, advisory : Advisories, revision : 1 .. MaxRevisions,
             device : [seen : Contexts, now : Contexts], newest : BOOLEAN]
Judged == [at : {"judged"}, advisory : Advisories, revision : 1 .. MaxRevisions,
           device : [seen : Contexts, now : Contexts], day : 0 .. MaxDay]

AdvisoryTypeOK ==
    /\ revisions \in [Advisories -> Seq(Contents)] /\ publications \in [Advisories -> SUBSET (1 .. MaxRevisions)]
    /\ \A a \in Advisories : Len(revisions[a]) <= MaxRevisions /\ publications[a] \subseteq DOMAIN revisions[a]
    /\ policies \in Seq(Policies) /\ Len(policies) <= MaxPolicies
    /\ reviews \in Seq([policy : Nat, outcome : {"success", "failure"}, day : 0 .. MaxDay])
    /\ Len(reviews) <= MaxReviews /\ \A i \in DOMAIN reviews : reviews[i].policy \in DOMAIN policies
    /\ equipment \in [device : Contexts, done : BOOLEAN] \cup {NoEquipment}
    /\ actions \subseteq [advisory : Advisories, revision : 1 .. MaxRevisions, device : Contexts, stood : BOOLEAN]
    /\ tab \in [Tabs -> {Resting} \cup Notice \cup Recording \cup Compared \cup Judged]
    /\ today \in 0 .. MaxDay

AdvisoryInit ==
    /\ revisions = [a \in Advisories |-> << >>] /\ publications = [a \in Advisories |-> {}]
    /\ policies = << >> /\ reviews = << >> /\ equipment = NoEquipment /\ actions = {}
    /\ tab = [t \in Tabs |-> Resting] /\ today = 0

\* Who keeps writers waiting: a recorded action keeps its locks to the end.
OwnerLocked == \E t \in Tabs : tab[t].at \in {"owner", "policies", "catalog", "read", "judged"}
PoliciesLocked == \E t \in Tabs : tab[t].at \in {"policies", "catalog", "read", "judged"}
CatalogLocked(a) == \E t \in Tabs : tab[t].at \in {"catalog", "read", "judged"} /\ tab[t].advisory = a

-----------------------------------------------------------------------------
(* The reviewers.                                                          *)

create_advisory(a, e) ==
    /\ revisions[a] = << >> /\ validate_entry(e) /\ \A b \in Advisories : ~CatalogLocked(b)
    /\ revisions' = [revisions EXCEPT ![a] = <<e>>]
    /\ UNCHANGED <<publications, policies, reviews, equipment, actions, tab, today>>

append_advisory_revision(a, e) ==
    /\ revisions[a] # << >> /\ validate_entry(e) /\ ~CatalogLocked(a)
    /\ Len(revisions[a]) < MaxRevisions
    /\ revisions' = [revisions EXCEPT ![a] = Append(@, e)]
    /\ UNCHANGED <<publications, policies, reviews, equipment, actions, tab, today>>

\* Only the newest revision, once, by the digest of what the reviewer read.
publish_advisory_revision(a) ==
    /\ revisions[a] # << >> /\ ~CatalogLocked(a)
    /\ Len(revisions[a]) \notin publications[a]
    /\ publications' = [publications EXCEPT ![a] = @ \cup {Len(revisions[a])}]
    /\ UNCHANGED <<revisions, policies, reviews, equipment, actions, tab, today>>

set_advisory_source_policy(p) ==
    /\ Len(policies) < MaxPolicies /\ ~PoliciesLocked
    /\ policies' = Append(policies, p)
    /\ UNCHANGED <<revisions, publications, reviews, equipment, actions, tab, today>>

\* validate_source_review refuses a review of an earlier policy, and one that is
\* said to be successful without all the sources.
record_advisory_source_review(outcome, day) ==
    /\ policies # << >> /\ Len(reviews) < MaxReviews /\ ~PoliciesLocked
    /\ day <= today /\ (outcome = "success" => policies[Len(policies)].urls # {})
    /\ reviews' = Append(reviews, [policy |-> Len(policies), outcome |-> outcome, day |-> day])
    /\ UNCHANGED <<revisions, publications, policies, equipment, actions, tab, today>>

DayPasses ==
    /\ today < MaxDay
    /\ today' = today + 1
    /\ UNCHANGED <<revisions, publications, policies, reviews, equipment, actions, tab>>

-----------------------------------------------------------------------------
(* The household's equipment.                                              *)

\* A check that is done applies to a model: both names are there.
validate_record(c, done) == done => Unknown \notin {c.vendor, c.model}

\* What was said of another model, or of another firmware, is said of none.
reset_model_evidence(c, done) ==
    LET known == \E k \in DOMAIN equipment.device : equipment.device[k] # Unknown
    IN done /\ ~(known /\ c # equipment.device)

create_equipment(c, done) ==
    /\ equipment = NoEquipment /\ ~OwnerLocked /\ validate_record(c, done)
    /\ equipment' = [device |-> c, done |-> done]
    /\ UNCHANGED <<revisions, publications, policies, reviews, actions, tab, today>>

update_equipment(c, done) ==
    /\ equipment # NoEquipment /\ ~OwnerLocked /\ validate_record(c, done)
    /\ equipment' = [device |-> c, done |-> reset_model_evidence(c, done)]
    /\ UNCHANGED <<revisions, publications, policies, reviews, actions, tab, today>>

\* The actions go with the record.
delete_equipment ==
    /\ equipment # NoEquipment /\ ~OwnerLocked
    /\ equipment' = NoEquipment /\ actions' = {}
    /\ UNCHANGED <<revisions, publications, policies, reviews, tab, today>>

-----------------------------------------------------------------------------
(* The household's notices, and what it did about them.                    *)

Enter(t, at) == tab' = [tab EXCEPT ![t].at = at]

LatestPolicy == IF policies = << >> THEN Unknown ELSE policies[Len(policies)]

ReviewsOf(n) == {i \in DOMAIN reviews : reviews[i].policy = n}

Health == catalog_health(LatestPolicy, ReviewsOf(Len(policies)), today)

\* The page shows all that is published and fits the device.
get_equipment_advisories(t) ==
    /\ tab[t] = Resting /\ equipment # NoEquipment /\ ~OwnerLocked
    /\ \E a \in Advisories : \E r \in publications[a] :
          /\ match_advisory(equipment.device, revisions[a][r]) # "no_identity_match"
          /\ tab' = [tab EXCEPT ![t] =
                [at |-> "seen", advisory |-> a, revision |-> r, device |-> equipment.device]]
    /\ UNCHANGED <<revisions, publications, policies, reviews, equipment, actions, today>>

LockOwner(t) ==
    /\ tab[t].at = "seen" /\ ~OwnerLocked
    /\ IF equipment = NoEquipment THEN tab' = [tab EXCEPT ![t] = Resting]
       ELSE tab' = [tab EXCEPT ![t].at = "owner", ![t].device = [seen |-> @, now |-> equipment.device]]
    /\ UNCHANGED <<revisions, publications, policies, reviews, equipment, actions, today>>

LockPolicies(t) ==
    /\ tab[t].at = "owner" /\ Enter(t, "policies")
    /\ UNCHANGED <<revisions, publications, policies, reviews, equipment, actions, today>>

ShareCatalog(t) ==
    /\ tab[t].at = "policies" /\ Enter(t, "catalog")
    /\ UNCHANGED <<revisions, publications, policies, reviews, equipment, actions, today>>

\* _published, and the revisions it has superseded
_published(t) == LET a == tab[t].advisory r == tab[t].revision IN
    /\ tab[t].at = "catalog"
    /\ tab' = [tab EXCEPT ![t] = [at |-> "read", advisory |-> a, revision |-> r, device |-> @.device,
                                  newest |-> r = Max(publications[a])]]
    /\ UNCHANGED <<revisions, publications, policies, reviews, equipment, actions, today>>

\* _health of _policy, and assess_catalog
Assess(t) == LET a == tab[t].advisory r == tab[t].revision IN
    /\ tab[t].at = "read"
    /\ IF action_allowed(tab[t].device.now, revisions[a][r], tab[t].newest, LatestPolicy, Health)
       THEN tab' = [tab EXCEPT ![t] = [at |-> "judged", advisory |-> a, revision |-> r,
                                       device |-> @.device, day |-> today]]
       ELSE tab' = [tab EXCEPT ![t] = Resting]
    /\ UNCHANGED <<revisions, publications, policies, reviews, equipment, actions, today>>

\* Whether the notice stands when the action is committed
Stands(a, r, c, day) ==
    /\ equipment # NoEquipment /\ equipment.device = c /\ r = Max(publications[a])
    /\ action_allowed(c, revisions[a][r], TRUE, LatestPolicy,
                      catalog_health(LatestPolicy, ReviewsOf(Len(policies)), day))

\* The household says what it did about the device it has seen.
validate_owner_action(device) == device.seen = device.now

record_equipment_advisory_action(t) == LET a == tab[t].advisory r == tab[t].revision c == tab[t].device.seen IN
    /\ tab[t].at = "judged"
    /\ actions' =
          IF ~validate_owner_action(tab[t].device) THEN actions
          ELSE {x \in actions : <<x.advisory, x.revision, x.device>> # <<a, r, c>>}
               \cup {[advisory |-> a, revision |-> r, device |-> c, stood |-> Stands(a, r, c, tab[t].day)]}
    /\ tab' = [tab EXCEPT ![t] = Resting]
    /\ UNCHANGED <<revisions, publications, policies, reviews, equipment, today>>

AdvisoryNext ==
    \/ \E a \in Advisories :
          \/ \E e \in Contents : create_advisory(a, e) \/ append_advisory_revision(a, e)
          \/ publish_advisory_revision(a)
    \/ \E p \in Policies : set_advisory_source_policy(p)
    \/ \E outcome \in {"success", "failure"}, day \in 0 .. today : record_advisory_source_review(outcome, day)
    \/ DayPasses
    \/ \E c \in Contexts, done \in BOOLEAN : create_equipment(c, done) \/ update_equipment(c, done)
    \/ delete_equipment
    \/ \E t \in Tabs :
          \/ get_equipment_advisories(t) \/ LockOwner(t) \/ LockPolicies(t) \/ ShareCatalog(t)
          \/ _published(t) \/ Assess(t) \/ record_equipment_advisory_action(t)

AdvisorySpec == AdvisoryInit /\ [][AdvisoryNext]_advisoryVars

-----------------------------------------------------------------------------

\* What a household says it did is about the device it has, and about a notice
\* that stands when it is recorded: not superseded, not withdrawn, and of sources
\* that have been looked through in time, whatever reviewers and other windows of
\* the household do meanwhile (store/advisories.py record_equipment_advisory_action).
ActionsStood == \A x \in actions : x.stood
=============================================================================
