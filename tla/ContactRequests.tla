--------------------------- MODULE ContactRequests ---------------------------
(***************************************************************************)
(* Contact grants between neighbours (store/contact_request.py): a         *)
(* household asks a neighbour, the neighbour accepts with the contact data *)
(* it approves, and each sees the other's approved data for as long as     *)
(* both profiles stay exactly as they were when the request was made.      *)
(* There is one row for a pair of households, for good.                    *)
(***************************************************************************)
EXTENDS Naturals

CONSTANTS
    Neighbours,       \* households of one municipality
    MaxSaves,         \* bound: how often profiles are saved
    NoRow, NoProfile

ASSUME ContactAssumption == NoRow # NoProfile /\ MaxSaves \in Nat

VARIABLES
    household,  \* the joined buildings and consents rows of a household
    grant,      \* the contact_requests row of a pair
    asking,     \* the create request of a household between its reads and its insert
    shown,      \* the latest disclosure on a contacts page, with what backs it
    saves       \* profile saves so far

contactVars == <<household, grant, asking, shown, saves>>

Pairs == {pair \in SUBSET Neighbours : \E h \in pair : \E n \in pair \ {h} : pair = {h, n}}

\* open: verified, placed in the municipality and sharing with neighbours;
\* since: the consent timestamp, renewed by every save.
HouseholdProfiles == [contact : 0 .. 1, open : BOOLEAN, since : 0 .. MaxSaves]

Ended == {"declined", "revoked", "expired"}

\* requester_identity and recipient_identity are digests of whole profiles;
\* fields holds the data each side approved.
Grants ==
    [by : Neighbours, status : {"pending", "accepted"} \cup Ended, late : BOOLEAN,
     identity : [Neighbours -> HouseholdProfiles \cup {NoProfile}],
     fields : [Neighbours -> {0, 1, NoProfile}]]

Asked == [for : Neighbours, left : HouseholdProfiles, right : HouseholdProfiles]

ContactTypeOK ==
    /\ household \in [Neighbours -> HouseholdProfiles \cup {NoProfile}]
    /\ grant \in [Pairs -> Grants \cup {NoRow}]
    /\ asking \in [Neighbours -> Asked \cup {NoRow}]
    /\ saves \in 0 .. MaxSaves

ContactInit ==
    /\ household = [h \in Neighbours |-> [contact |-> 0, open |-> TRUE, since |-> 0]]
    /\ grant = [pair \in Pairs |-> NoRow]
    /\ asking = [h \in Neighbours |-> NoRow]
    /\ shown = NoRow
    /\ saves = 0

-----------------------------------------------------------------------------

_eligible(p) == p # NoProfile /\ p.open

\* A version whose digest leaves the consent timestamp out.
_identity_without_consent(p) == [p EXCEPT !.since = 0]

_identity(p) == p

Only(h, value) == [n \in Neighbours |-> IF n = h THEN value ELSE NoProfile]

\* Saving the dashboard profile or registering again renews the consent.
update_building_and_consents(h) ==
    /\ household[h] # NoProfile /\ saves < MaxSaves
    /\ saves' = saves + 1
    /\ \E contact \in 0 .. 1, open \in BOOLEAN :
           household' = [household EXCEPT ![h] = [contact |-> contact, open |-> open,
                                              since |-> saves + 1]]
    /\ UNCHANGED <<grant, asking, shown>>

\* Deleting the profile takes its rows with it.
DeleteHousehold(h) ==
    /\ household[h] # NoProfile /\ saves < MaxSaves
    /\ saves' = saves + 1
    /\ household' = [household EXCEPT ![h] = NoProfile]
    /\ grant' = [pair \in Pairs |-> IF h \in pair THEN NoRow ELSE grant[pair]]
    /\ UNCHANGED <<asking, shown>>

\* _candidates: eligible neighbours with whom there was never a request
_candidates(h) ==
    {n \in Neighbours \ {h} : _eligible(household[n]) /\ grant[{h, n}] = NoRow}

\* create reads both profiles and the candidates ...
ReadCandidate(h, n) ==
    /\ asking[h] = NoRow /\ _eligible(household[h]) /\ n \in _candidates(h)
    /\ asking' = [asking EXCEPT ![h] = [for |-> n, left |-> household[h], right |-> household[n]]]
    /\ UNCHANGED <<household, grant, shown, saves>>

\* ... and inserts, unless the pair has a row by now or a household is gone.
create(h) == LET a == asking[h] IN
    /\ a # NoRow
    /\ asking' = [asking EXCEPT ![h] = NoRow]
    /\ IF grant[{h, a.for}] = NoRow /\ NoProfile \notin {household[h], household[a.for]}
       THEN grant' = [grant EXCEPT ![{h, a.for}] =
                [by |-> h, status |-> "pending", late |-> FALSE,
                 identity |-> [n \in Neighbours |-> CASE n = h -> _identity(a.left)
                                                    [] n = a.for -> _identity(a.right)
                                                    [] OTHER -> NoProfile],
                 fields |-> Only(h, a.left.contact)]]
       ELSE UNCHANGED grant
    /\ UNCHANGED <<household, shown, saves>>

\* expires_at passes
Expire(pair) ==
    /\ grant[pair] # NoRow /\ grant[pair].status = "pending" /\ ~grant[pair].late
    /\ grant' = [grant EXCEPT ![pair].late = TRUE]
    /\ UNCHANGED <<household, asking, shown, saves>>

_end(row, status) == [row EXCEPT !.status = status, !.fields = [n \in Neighbours |-> NoProfile]]

\* _refresh: an open row ends with its time or with the profiles it was for
_refresh(pair) == LET row == grant[pair] IN
    IF row.status \in Ended THEN row
    ELSE IF row.status = "pending" /\ row.late THEN _end(row, "expired")
    ELSE IF \E h \in pair : \/ ~_eligible(household[h])
                            \/ _identity(household[h]) # row.identity[h]
         THEN _end(row, "revoked")
         ELSE row

\* transition, under the row's lock: the refresh is kept even when the
\* answer itself is refused.
transition(h, pair, action) ==
    /\ h \in pair /\ grant[pair] # NoRow
    /\ LET row == _refresh(pair) IN
           grant' = [grant EXCEPT ![pair] =
               CASE action = "accept" /\ row.status = "pending" /\ row.by # h ->
                        [row EXCEPT !.status = "accepted", !.fields[h] = household[h].contact]
                 [] action = "decline" /\ row.status = "pending" /\ row.by # h ->
                        _end(row, "declined")
                 [] action = "revoke" /\ row.status \notin Ended -> _end(row, "revoked")
                 [] OTHER -> row]
    /\ UNCHANGED <<household, asking, shown, saves>>

\* view: every row of the household is refreshed, then the other side's
\* approved data is shown.
view(h) ==
    /\ household[h] # NoProfile
    /\ LET mine == {pair \in Pairs : h \in pair /\ grant[pair] # NoRow} IN
           /\ grant' = [pair \in Pairs |-> IF pair \in mine THEN _refresh(pair) ELSE grant[pair]]
           /\ \/ \E pair \in mine, n \in Neighbours \ {h} :
                     /\ n \in pair /\ grant'[pair].status = "accepted"
                     /\ shown' = [to |-> h, of |-> n, contact |-> grant'[pair].fields[n],
                                  then |-> grant'[pair].identity, now |-> household]
              \/ /\ \A pair \in mine : grant'[pair].status # "accepted"
                 /\ shown' = NoRow
    /\ UNCHANGED <<household, asking, saves>>

ContactNext ==
    \/ \E h \in Neighbours :
        \/ update_building_and_consents(h)
        \/ DeleteHousehold(h)
        \/ \E n \in Neighbours : ReadCandidate(h, n)
        \/ create(h)
        \/ \E pair \in Pairs, action \in {"accept", "decline", "revoke"} :
               transition(h, pair, action)
        \/ view(h)
    \/ \E pair \in Pairs : Expire(pair)

ContactSpec == ContactInit /\ [][ContactNext]_contactVars

-----------------------------------------------------------------------------

(* What a contacts page shows is the other household's present contact     *)
(* data, and neither household touched its consent since the request was   *)
(* made: a withdrawal in between, even one taken back, ends the grant      *)
(* (_identity, _refresh).                                                  *)
ShownUnderUnbrokenConsent ==
    shown # NoRow =>
        /\ shown.contact = shown.now[shown.of].contact
        /\ \A h \in {shown.to, shown.of} :
               shown.now[h].open /\ shown.then[h].since = shown.now[h].since
=============================================================================
