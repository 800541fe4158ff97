---------------------------- MODULE LegRegistry ----------------------------
(***************************************************************************)
(* The public registry of LEGs: anybody submits an entry, a moderator      *)
(* publishes or rejects it, and a cron job asks the contact of a published *)
(* entry from time to time to confirm it by a mailed link                  *)
(* (registry_intake.py, leg_registry.py, store/registry.py, app.py).       *)
(***************************************************************************)
EXTENDS Naturals, FiniteSets, FiniteSetsExt

CONSTANTS
    Listings,       \* leg_registry.id
    Submitters, Crons, Confirmers,    \* requests of submitters, job runs, browsers of contacts
    MaxRequests,    \* bound: verification tokens given out
    NoListing

ASSUME RegistryAssumption ==
    IsFiniteSet(Listings) /\ NoListing \notin Listings /\ MaxRequests \in Nat

VARIABLES
    listing,        \* leg_registry: slug by its suffix, moderation, verification
    submission,     \* a submitter's suffix under trial
    nudge,          \* a run's candidates still to be asked, and the one it is at
    confirming,     \* a visitor's entry between lookup and update
    requests,       \* tokens given out so far
    letters,        \* mails with a verification link
    confirmed       \* entries confirmed: which, and by which token

registryVars == <<listing, submission, nudge, confirming, requests, letters, confirmed>>

-----------------------------------------------------------------------------

Entry == [slug : 1 .. Cardinality(Listings), state : {"pending", "published", "rejected"},
          fresh : BOOLEAN, token : 0 .. MaxRequests, live : BOOLEAN]

\* A run: who is to be asked, and who is being asked with which token.
CronRun == [open : SUBSET Listings, of : Listings \cup {NoListing}, token : 0 .. MaxRequests]

ASSUME NoListingAssumption == NoListing \notin Entry

RegistryTypeOK ==
    /\ listing \in [Listings -> Entry \cup {NoListing}]
    /\ submission \in [Submitters -> 0 .. Cardinality(Listings) + 1]
    /\ nudge \in [Crons -> CronRun]
    /\ confirming \in [Confirmers -> [of : Listings, token : 0 .. MaxRequests] \cup {NoListing}]
    /\ requests \in 0 .. MaxRequests
    /\ letters \subseteq [token : 1 .. MaxRequests, of : Listings]

RegistryInit ==
    /\ listing = [e \in Listings |-> NoListing]
    /\ submission = [s \in Submitters |-> 0]
    /\ nudge = [c \in Crons |-> [open |-> {}, of |-> NoListing, token |-> 0]]
    /\ confirming = [v \in Confirmers |-> NoListing]
    /\ requests = 0 /\ letters = {} /\ confirmed = {}

Taken(slug) == \E e \in Listings : listing[e] # NoListing /\ listing[e].slug = slug

-----------------------------------------------------------------------------

\* One name for all, which is the worst case: the suffix counts up past the
\* slugs that are there, one lookup after the other.
_unique_slug(s) ==
    /\ submission[s] = 0 \/ Taken(submission[s])
    /\ submission[s] <= Cardinality(Listings)
    /\ submission' = [submission EXCEPT ![s] = @ + 1]
    /\ UNCHANGED <<listing, nudge, confirming, requests, letters, confirmed>>

\* The slug is unique: of two requests that found it free, one is refused.
Saved(e, slug) ==
    listing' = IF Taken(slug) THEN listing
               ELSE [listing EXCEPT ![e] = [slug |-> slug, state |-> "pending", fresh |-> FALSE, token |-> 0, live |-> FALSE]]

save_registry_entry(s, e) ==
    /\ submission[s] # 0 /\ listing[e] = NoListing
    /\ submission[s] <= Cardinality(Listings)
    /\ Saved(e, submission[s])
    /\ submission' = [submission EXCEPT ![s] = 0]
    /\ UNCHANGED <<nudge, confirming, requests, letters, confirmed>>

update_registry_entry_moderation(e, state) ==
    /\ listing[e] # NoListing
    /\ listing' = [listing EXCEPT ![e].state = state]
    /\ UNCHANGED <<submission, nudge, confirming, requests, letters, confirmed>>

\* 90 days after a confirmation, and 14 days after a mail
GoStale(e) ==
    /\ listing[e] # NoListing /\ (listing[e].fresh \/ listing[e].live)
    /\ \E fresh \in {FALSE, listing[e].fresh}, live \in {FALSE, listing[e].live} :
          listing' = [listing EXCEPT ![e].fresh = fresh, ![e].live = live]
    /\ UNCHANGED <<submission, nudge, confirming, requests, letters, confirmed>>

-----------------------------------------------------------------------------

get_registry_entries_needing_verification ==
    {e \in Listings : listing[e] # NoListing /\ listing[e].state = "published" /\ ~listing[e].fresh /\ ~listing[e].live}

StartRun(c) ==
    /\ nudge[c].open = {} /\ nudge[c].of = NoListing
    /\ get_registry_entries_needing_verification # {}
    /\ nudge' = [nudge EXCEPT ![c].open = get_registry_entries_needing_verification]
    /\ UNCHANGED <<listing, submission, confirming, requests, letters, confirmed>>

set_registry_verification_token(c) ==
    /\ nudge[c].of = NoListing /\ requests < MaxRequests
    /\ \E e \in nudge[c].open :
          /\ listing' = [listing EXCEPT ![e].token = requests + 1, ![e].live = TRUE]
          /\ nudge' = [nudge EXCEPT ![c] = [open |-> @.open \ {e}, of |-> e, token |-> requests + 1]]
    /\ requests' = requests + 1
    /\ UNCHANGED <<submission, confirming, letters, confirmed>>

send_verification_nudges(c) ==
    /\ nudge[c].of # NoListing
    /\ letters' = letters \cup {[token |-> nudge[c].token, of |-> nudge[c].of]}
    /\ nudge' = [nudge EXCEPT ![c].of = NoListing, ![c].token = 0]
    /\ UNCHANGED <<listing, submission, confirming, requests, confirmed>>

\* The run dies; who was given a token and no mail is asked again when it expires.
AbortRun(c) ==
    /\ nudge[c].open # {} \/ nudge[c].of # NoListing
    /\ nudge' = [nudge EXCEPT ![c] = [open |-> {}, of |-> NoListing, token |-> 0]]
    /\ UNCHANGED <<listing, submission, confirming, requests, letters, confirmed>>

-----------------------------------------------------------------------------

\* The link is that of the last mail, and not expired.
FollowedBy(e) == listing[e].live /\ \E l \in letters : l.of = e /\ l.token = listing[e].token

get_registry_entry_by_verification_token(v, e) ==
    /\ confirming[v] = NoListing /\ listing[e] # NoListing /\ FollowedBy(e)
    /\ confirming' = [confirming EXCEPT ![v] = [of |-> e, token |-> listing[e].token]]
    /\ UNCHANGED <<listing, submission, nudge, requests, letters, confirmed>>

\* By the id of the entry: it confirms although the token was replaced meanwhile,
\* and takes the newer one away.
mark_registry_entry_verified(v) ==
    /\ confirming[v] # NoListing
    /\ listing' = [listing EXCEPT ![confirming[v].of].fresh = TRUE, ![confirming[v].of].token = 0,
                                  ![confirming[v].of].live = FALSE]
    /\ confirmed' = confirmed \cup {confirming[v]}
    /\ confirming' = [confirming EXCEPT ![v] = NoListing]
    /\ UNCHANGED <<submission, nudge, requests, letters>>

RegistryNext ==
    \/ \E s \in Submitters : _unique_slug(s) \/ \E e \in Listings : save_registry_entry(s, e)
    \/ \E e \in Listings : GoStale(e) \/ \E state \in {"published", "rejected"} : update_registry_entry_moderation(e, state)
    \/ \E c \in Crons :
          StartRun(c) \/ set_registry_verification_token(c) \/ send_verification_nudges(c) \/ AbortRun(c)
    \/ \E v \in Confirmers :
          \/ \E e \in Listings : get_registry_entry_by_verification_token(v, e)
          \/ mark_registry_entry_verified(v)

RegistrySpec == RegistryInit /\ [][RegistryNext]_registryVars

-----------------------------------------------------------------------------

\* Two entries never share a slug, however many are submitted under one name at
\* once (registry_intake.py _unique_slug, the unique column).
SlugsAreUnique ==
    \A d, e \in Listings :
        d # e /\ listing[d] # NoListing /\ listing[e] # NoListing => listing[d].slug # listing[e].slug

\* Whoever keeps an entry fresh followed a link that was mailed to its contact, and
\* only entries that were moderated are asked about (app.py verify_registry_entry).
FreshIsConfirmed ==
    /\ \A e \in Listings : listing[e] # NoListing /\ listing[e].fresh => \E x \in confirmed : x.of = e
    /\ \A x \in confirmed : x \in {[of |-> l.of, token |-> l.token] : l \in letters}
    /\ \A l \in letters : listing[l.of] # NoListing /\ listing[l.of].state # "pending"

\* Public addresses are unique, and what is shown as fresh was confirmed.
RegistryHolds == SlugsAreUnique /\ FreshIsConfirmed
=============================================================================
