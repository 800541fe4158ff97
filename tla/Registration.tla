---------------------------- MODULE Registration ----------------------------
(***************************************************************************)
(* Registrations, coverage requests and the links mailed for them:         *)
(* registration.py, interest_intake.py, store/building.py, store/token.py, *)
(* store/interest.py, access_token.py, store/access_token.py and their     *)
(* routes in app.py and dashboard_routes.py.                               *)
(*                                                                         *)
(* A registration names a mailbox and is verified by the link mailed to    *)
(* it.  An unverified registration may be entered again for another        *)
(* mailbox, which raises its revision.  Login and deletion links are made  *)
(* in two steps: the profiles of a mailbox are looked up, then each gets   *)
(* its link in a transaction of its own.  Two mailboxes that differ in     *)
(* case are one mailbox (LOWER).  A deleted profile takes its links along. *)
(***************************************************************************)
EXTENDS Naturals, Sequences, FiniteSets

CONSTANTS
    Profiles,       \* building ids
    CoverageIds,    \* ids of coverage requests
    Mailboxes,
    Administrators, \* profiles that administer a community
    Browsers,
    MaxLinks,       \* bound on links ever made
    Absent,         \* no such row
    SignedOut       \* a browser without a session

ASSUME RegistrationAssumption ==
    /\ Administrators \subseteq Profiles /\ Profiles \cap CoverageIds = {}
    /\ MaxLinks \in Nat

VARIABLES
    profile,        \* buildings
    coverage,       \* coverage_requests
    links,          \* tokens and dashboard_access_tokens, with the mailbox they were sent to
    found,          \* profiles looked up for a mailbox that have no link yet
    session         \* the dashboard session of a browser

regVars == <<profile, coverage, links, found, session>>

-----------------------------------------------------------------------------

\* "aged": older than the 30 days an unverified entry is kept
Profile == [mail : Mailboxes, verified : BOOLEAN, revision : Nat, aged : BOOLEAN]

ASSUME AbsentAssumption == Absent \notin Profile

Coverage == [mail : Mailboxes, verified : BOOLEAN, aged : BOOLEAN]

Kinds == {"verification", "unsubscribe", "dashboard"}

Link == [kind : Kinds, of : Profiles \cup CoverageIds, revision : Nat, to : Mailboxes,
         state : {"live", "used", "expired", "revoked", "gone"}]

RegTypeOK ==
    /\ profile \in [Profiles -> Profile \cup {Absent}]
    /\ coverage \in [CoverageIds -> Coverage \cup {Absent}]
    /\ links \in Seq(Link) /\ Len(links) <= MaxLinks
    /\ found \in SUBSET [kind : Kinds, of : Profiles, to : Mailboxes]
    /\ session \in [Browsers -> Profiles \cup {SignedOut}]

RegInit ==
    /\ profile = [b \in Profiles |-> Absent]
    /\ coverage = [r \in CoverageIds |-> Absent]
    /\ links = << >>
    /\ found = {}
    /\ session = [x \in Browsers |-> SignedOut]

-----------------------------------------------------------------------------

NewLink(kind, of, revision, to) ==
    /\ Len(links) < MaxLinks
    /\ links' = Append(links, [kind |-> kind, of |-> of, revision |-> revision,
                               to |-> to, state |-> "live"])

SetLinks(kinds, of, from, state) ==
    [k \in DOMAIN links |->
        IF links[k].of = of /\ links[k].kind \in kinds /\ links[k].state \in from
        THEN [links[k] EXCEPT !.state = state] ELSE links[k]]

\* ON DELETE CASCADE
Cascade(of) == SetLinks(Kinds, of, {"live", "used", "expired", "revoked"}, "gone")

Exists(b) == profile[b] # Absent

Revision_kept(b, m) == IF Exists(b) THEN profile[b].revision ELSE 0

\* another mailbox: older links stop verifying
Revision(b, m) == IF Exists(b)
                  THEN profile[b].revision + (IF profile[b].mail = m THEN 0 ELSE 1)
                  ELSE 0

\* A verified profile is refused for another mailbox and stays verified for
\* its own.
save_building(b, m) ==
    /\ Exists(b) => ~profile[b].verified \/ profile[b].mail = m
    /\ profile' = [profile EXCEPT ![b] =
           [mail |-> m, verified |-> Exists(b) /\ profile[b].verified,
            revision |-> Revision(b, m), aged |-> FALSE]]
    /\ NewLink("verification", b, Revision(b, m), m)
    /\ UNCHANGED <<coverage, found, session>>

\* register: what is valid is saved, and its link mailed.
register(b, m) == save_building(b, m)

\* confirm_building_interest: the link must be live and of the current
\* revision of its profile.
confirm_building_interest(k) == LET l == links[k] IN
    /\ l.kind = "verification" /\ l.state = "live"
    /\ Exists(l.of) /\ l.revision = profile[l.of].revision
    /\ links' = [links EXCEPT ![k].state = "used"]
    /\ profile' = [profile EXCEPT ![l.of].verified = TRUE]
    /\ UNCHANGED <<coverage, found, session>>

\* Its link is a column of the row.
save_coverage_request(r, m) ==
    /\ coverage[r] = Absent
    /\ coverage' = [coverage EXCEPT ![r] = [mail |-> m, verified |-> FALSE, aged |-> FALSE]]
    /\ UNCHANGED <<profile, links, found, session>>

submit(r, m) == save_coverage_request(r, m)

\* verify_coverage_request: the link lives exactly as long as an unverified
\* request is kept, and the retention of a verified one starts anew.
verify_coverage_request(r) ==
    /\ coverage[r] # Absent /\ ~coverage[r].verified /\ ~coverage[r].aged
    /\ coverage' = [coverage EXCEPT ![r].verified = TRUE]
    /\ UNCHANGED <<profile, links, found, session>>

\* unsubscribe_page and dashboard_access_request look the mailbox up ...
get_building_by_email(kind, m) ==
    /\ found' = found \cup {[kind |-> kind, of |-> b, to |-> m] :
                            b \in {p \in Profiles : Exists(p) /\ profile[p].mail = m}}
    /\ found' # found
    /\ UNCHANGED <<profile, coverage, links, session>>

unsubscribe_page(m) == get_building_by_email("unsubscribe", m)
dashboard_access_request(m) == get_building_by_email("dashboard", m)

\* ... and make and mail one link per profile, if it still exists (save_token,
\* issue).  A request that dies in between mails nothing.
IssueLink(f) ==
    /\ found' = found \ {f}
    /\ \/ Exists(f.of) /\ NewLink(f.kind, f.of, 0, f.to)
       \/ UNCHANGED links
    /\ UNCHANGED <<profile, coverage, session>>

\* create_coverage_deletion_tokens reads and inserts under the row locks.
create_coverage_deletion_tokens(r) ==
    /\ coverage[r] # Absent
    /\ NewLink("unsubscribe", r, 0, coverage[r].mail)
    /\ UNCHANGED <<profile, coverage, found, session>>

\* confirm_profile_deletion; a failing preparation rolls everything back.
confirm_profile_deletion(k) == LET l == links[k] IN
    /\ l.kind = "unsubscribe" /\ l.state = "live"
    /\ links' = Cascade(l.of)
    /\ IF l.of \in CoverageIds
       THEN coverage' = [coverage EXCEPT ![l.of] = Absent] /\ UNCHANGED profile
       ELSE profile' = [profile EXCEPT ![l.of] = Absent] /\ UNCHANGED coverage
    /\ UNCHANGED <<found, session>>

unsubscribe_token(k) == confirm_profile_deletion(k)

\* A login link is marked used in the statement that finds it live.
consume(k) ==
    /\ links[k].kind = "dashboard" /\ links[k].state = "live"
    /\ links' = [links EXCEPT ![k].state = "used"]

dashboard_access_exchange(k, x) ==
    /\ consume(k)
    /\ session' = [session EXCEPT ![x] = links[k].of]
    /\ UNCHANGED <<profile, coverage, found>>

revoke_dashboard_access_tokens(b) ==
    links' = SetLinks({"dashboard"}, b, {"live"}, "revoked")

dashboard_logout(x) ==
    /\ session[x] # SignedOut
    /\ revoke_dashboard_access_tokens(session[x])
    /\ session' = [session EXCEPT ![x] = SignedOut]
    /\ UNCHANGED <<profile, coverage, found>>

-----------------------------------------------------------------------------
(* Time.                                                                   *)

ExpireLink(k) ==
    /\ links[k].state = "live"
    /\ links' = [links EXCEPT ![k].state = "expired"]
    /\ UNCHANGED <<profile, coverage, found, session>>

\* Verification links live as long as an unverified profile is kept since
\* its last request, so they are all expired once it is aged.
AgeProfile(b) ==
    /\ Exists(b) /\ ~profile[b].aged
    /\ \A k \in DOMAIN links : links[k].of = b /\ links[k].kind = "verification"
                                   => links[k].state # "live"
    /\ profile' = [profile EXCEPT ![b].aged = TRUE]
    /\ UNCHANGED <<coverage, links, found, session>>

\* 30 days unverified, 12 months verified
AgeCoverage(r) ==
    /\ coverage[r] # Absent /\ ~coverage[r].aged
    /\ coverage' = [coverage EXCEPT ![r].aged = TRUE]
    /\ UNCHANGED <<profile, links, found, session>>

\* cleanup_expired_interest; the administrator of a community is kept.
Expired(b) == Exists(b) /\ ~profile[b].verified /\ profile[b].aged /\ b \notin Administrators

cleanup_unverified_only == {r \in CoverageIds :
    coverage[r] # Absent /\ coverage[r].aged /\ ~coverage[r].verified}

ExpiredCoverage == {r \in CoverageIds : coverage[r] # Absent /\ coverage[r].aged}

cleanup_expired_interest ==
    LET b == {p \in Profiles : Expired(p)}
        dead == b \cup ExpiredCoverage
    IN  /\ dead # {}
        /\ profile' = [p \in Profiles |-> IF p \in b THEN Absent ELSE profile[p]]
        /\ coverage' = [r \in CoverageIds |->
               IF r \in ExpiredCoverage THEN Absent ELSE coverage[r]]
        /\ links' = [k \in DOMAIN links |-> IF links[k].of \in dead
                         THEN [links[k] EXCEPT !.state = "gone"] ELSE links[k]]
        /\ UNCHANGED <<found, session>>

-----------------------------------------------------------------------------

RegNext ==
    \/ \E b \in Profiles, m \in Mailboxes : register(b, m)
    \/ \E r \in CoverageIds :
        \/ \E m \in Mailboxes : submit(r, m)
        \/ verify_coverage_request(r)
        \/ create_coverage_deletion_tokens(r)
        \/ AgeCoverage(r)
    \/ \E m \in Mailboxes : unsubscribe_page(m) \/ dashboard_access_request(m)
    \/ \E f \in found : IssueLink(f)
    \/ \E k \in DOMAIN links :
        \/ confirm_building_interest(k)
        \/ unsubscribe_token(k)
        \/ \E x \in Browsers : dashboard_access_exchange(k, x)
        \/ ExpireLink(k)
    \/ \E x \in Browsers : dashboard_logout(x)
    \/ \E b \in Profiles : AgeProfile(b)
    \/ cleanup_expired_interest

RegSpec == RegInit /\ [][RegNext]_regVars

\* Time passes, and the cleanup route is called again and again.
RegFairness ==
    /\ WF_regVars(cleanup_expired_interest)
    /\ \A b \in Profiles : WF_regVars(AgeProfile(b))
    /\ \A r \in CoverageIds : WF_regVars(AgeCoverage(r))
    /\ \A k \in 1..MaxLinks : WF_regVars(k \in DOMAIN links /\ ExpireLink(k))

-----------------------------------------------------------------------------

\* A verified profile was confirmed with a link mailed to the very mailbox it
\* names: whoever enters another mailbox for an unconfirmed profile, confirms
\* an older link, deletes the profile and enters it again, in any order.
VerifiedByItsMailbox ==
    \A b \in Profiles : Exists(b) /\ profile[b].verified =>
        \E k \in DOMAIN links :
            /\ links[k].kind = "verification" /\ links[k].state = "used"
            /\ links[k].of = b /\ links[k].to = profile[b].mail

\* Personal data of interest nobody confirmed is forgotten, and a coverage
\* request in any case, whatever else is requested in the meantime.
InterestIsForgotten ==
    /\ \A b \in Profiles \ Administrators :
           (Exists(b) /\ ~profile[b].verified) ~> (~Exists(b) \/ profile[b].verified)
    /\ \A r \in CoverageIds : (coverage[r] # Absent) ~> (coverage[r] = Absent)

=============================================================================
