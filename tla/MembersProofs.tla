---------------------------- MODULE MembersProofs ----------------------------
(***************************************************************************)
(* Theorems about the households of a LEG and the LEG they form, for any   *)
(* number of them: what they show each other (ContactRequests), who        *)
(* administers them (CommunityRoles), which mail address a verified        *)
(* profile was verified by (Registration), and what the grid operator is   *)
(* told of their LEG (Formation) and of its changes (VnbMutations).        *)
(***************************************************************************)
EXTENDS ContactRequests, CommunityRoles, Registration, Formation, VnbMutations,
        FiniteSetTheorems, SequenceTheorems, TLAPS

-----------------------------------------------------------------------------
(* Contact grants.  A disclosure copies the fields of an accepted row that  *)
(* has just been compared with both profiles; so the fields of open rows    *)
(* must be those of the profiles the row was made for.                      *)

\* The requester of a row is one of the pair and has approved the data of the
\* profile it asked with, as has, once the row is accepted, everybody.
Approved(pair, r) ==
    /\ r.by \in pair
    /\ r.status \notin Ended => r.fields[r.by] = r.identity[r.by].contact
    /\ r.status = "accepted" => \A h \in pair : r.fields[h] = r.identity[h].contact

\* The fields of every open row are those the two households were asked with.
ApprovedAsIdentified == \A pair \in Pairs : grant[pair] # NoRow => Approved(pair, grant[pair])

\* A household asks another household.
AsksAnother == \A h \in Neighbours : asking[h] # NoRow => asking[h].for # h

\* The inductive invariant behind ShownUnderUnbrokenConsent.
ContactInv == ContactTypeOK /\ AsksAnother /\ ApprovedAsIdentified /\ ShownUnderUnbrokenConsent

\* A pair has two sides.
LEMMA PairSides ==
    ASSUME NEW pair \in Pairs, NEW h \in pair, NEW n \in pair, NEW m \in pair, h # n
    PROVE  m = h \/ m = n
BY DEF Pairs

\* A request is of two different profiles.
LEMMA AskedPair ==
    ASSUME NEW h \in Neighbours, NEW n \in Neighbours, h # n
    PROVE  {h, n} \in Pairs
BY DEF Pairs

\* An ended row keeps its identity and its requester, and forgets the data.
LEMMA EndType ==
    ASSUME NEW r \in Grants, NEW ending \in Ended
    PROVE  _end(r, ending) \in Grants
BY DEF _end, Grants, Ended

\* Ending a grant keeps who gave it.
LEMMA EndKept ==
    ASSUME NEW r \in Grants, NEW ending
    PROVE  _end(r, ending).by = r.by /\ _end(r, ending).status = ending
BY DEF _end, Grants

\* A refreshed row is the row, or the row ended; it is open only if both
\* households are what they were.
LEMMA RefreshCases ==
    ASSUME ContactInv, NEW pair \in Pairs, grant[pair] # NoRow
    PROVE  /\ \/ _refresh(pair) = grant[pair]
              \/ \E ending \in Ended : _refresh(pair) = _end(grant[pair], ending)
           /\ _refresh(pair).status \notin Ended =>
                 /\ _refresh(pair) = grant[pair]
                 /\ \A h \in pair : /\ _eligible(household[h])
                                    /\ household[h] = grant[pair].identity[h]
<1>1. grant[pair] \in Grants
  BY DEF ContactInv, ContactTypeOK
<1>2. _end(grant[pair], "expired").status = "expired" /\ _end(grant[pair], "revoked").status = "revoked"
  BY <1>1 DEF _end, Grants
<1>3. CASE grant[pair].status \in Ended
  BY <1>3 DEF _refresh
<1>4. CASE grant[pair].status \notin Ended /\ grant[pair].status = "pending" /\ grant[pair].late
  BY <1>2, <1>4 DEF _refresh, Ended
<1>5. CASE /\ grant[pair].status \notin Ended
           /\ ~(grant[pair].status = "pending" /\ grant[pair].late)
  BY <1>2, <1>5 DEF _refresh, Ended, _identity
<1> QED
  BY <1>3, <1>4, <1>5

\* A refreshed row is a grant.
LEMMA RefreshType ==
    ASSUME ContactInv, NEW pair \in Pairs, grant[pair] # NoRow
    PROVE  _refresh(pair) \in Grants
BY RefreshCases, EndType DEF ContactInv, ContactTypeOK

\* A row that is as approved stays so when it is refreshed.
LEMMA RefreshApproved ==
    ASSUME ContactInv, NEW pair \in Pairs, grant[pair] # NoRow
    PROVE  Approved(pair, _refresh(pair))
<1>1. grant[pair] \in Grants
  BY DEF ContactInv, ContactTypeOK
<1>2. CASE _refresh(pair) = grant[pair]
  BY <1>2 DEF ContactInv, ApprovedAsIdentified
<1>3. ASSUME NEW ending \in Ended, _refresh(pair) = _end(grant[pair], ending)
      PROVE  _refresh(pair).by = grant[pair].by /\ _refresh(pair).status = ending
  BY <1>1, <1>3 DEF _end, Grants
<1> QED
  BY <1>2, <1>3, RefreshCases DEF ContactInv, ApprovedAsIdentified, Approved, Ended

\* Reading, asking and saving leave the rows as they are.
LEMMA SaveStep ==
    ASSUME ContactInv, NEW h \in Neighbours, update_building_and_consents(h)
    PROVE  ContactInv'
<1>1. PICK contact \in 0 .. 1, open \in BOOLEAN :
          household' = [household EXCEPT ![h] = [contact |-> contact, open |-> open, since |-> saves + 1]]
  BY DEF update_building_and_consents
<1>2. saves + 1 \in 0 .. MaxSaves
  BY ContactAssumption DEF ContactInv, ContactTypeOK, update_building_and_consents
<1>3. [contact |-> contact, open |-> open, since |-> saves + 1] \in HouseholdProfiles
  BY <1>2 DEF HouseholdProfiles
<1>4. ContactTypeOK'
  BY <1>1, <1>2, <1>3 DEF ContactInv, ContactTypeOK, update_building_and_consents
<1> QED
  BY <1>4 DEF ContactInv, update_building_and_consents, AsksAnother,
              ApprovedAsIdentified, ShownUnderUnbrokenConsent

\* Deleting a household keeps the invariant.
LEMMA DeleteStep ==
    ASSUME ContactInv, NEW h \in Neighbours, DeleteHousehold(h)
    PROVE  ContactInv'
<1> USE DEF ContactInv, DeleteHousehold
<1>1. ContactTypeOK'
  BY ContactAssumption DEF ContactTypeOK
<1>2. \A pair \in Pairs : grant'[pair] # NoRow => grant'[pair] = grant[pair]
  BY DEF ContactTypeOK
<1>3. ApprovedAsIdentified'
  BY <1>2 DEF ApprovedAsIdentified
<1> QED
  BY <1>1, <1>3 DEF AsksAnother, ShownUnderUnbrokenConsent

\* Reading a candidate keeps the invariant.
LEMMA ReadStep ==
    ASSUME ContactInv, NEW h \in Neighbours, NEW n \in Neighbours, ReadCandidate(h, n)
    PROVE  ContactInv'
<1> USE DEF ContactInv, ReadCandidate
<1>1. /\ household[h] \in HouseholdProfiles /\ household[n] \in HouseholdProfiles /\ n # h
  BY DEF ContactTypeOK, _candidates, _eligible
<1>2. ContactTypeOK' /\ AsksAnother'
  BY <1>1 DEF ContactTypeOK, AsksAnother, Asked
<1> QED
  BY <1>2 DEF ApprovedAsIdentified, ShownUnderUnbrokenConsent

\* A new row is approved by its requester, with the profile it asked with.
LEMMA CreateStep ==
    ASSUME ContactInv, NEW h \in Neighbours, create(h)
    PROVE  ContactInv'
<1> DEFINE a == asking[h]
           made == [by |-> h, status |-> "pending", late |-> FALSE,
                   identity |-> [n \in Neighbours |-> CASE n = h -> _identity(a.left)
                                                      [] n = a.for -> _identity(a.right)
                                                      [] OTHER -> NoProfile],
                   fields |-> Only(h, a.left.contact)]
<1>1. /\ a \in Asked /\ a.for # h /\ {h, a.for} \in Pairs
  BY AskedPair DEF create, ContactInv, ContactTypeOK, AsksAnother, Asked
<1>2. asking' \in [Neighbours -> Asked \cup {NoRow}] /\ AsksAnother'
  BY DEF create, ContactInv, ContactTypeOK, AsksAnother
<1>3. CASE UNCHANGED grant
  BY <1>2, <1>3 DEF create, ContactInv, ContactTypeOK, ApprovedAsIdentified, ShownUnderUnbrokenConsent
<1>4. CASE grant' = [grant EXCEPT ![{h, a.for}] = made]
  <2>1. made.identity \in [Neighbours -> HouseholdProfiles \cup {NoProfile}]
    BY <1>1 DEF Asked, _identity
  <2>2. made.fields \in [Neighbours -> {0, 1, NoProfile}]
    BY <1>1 DEF Asked, Only, HouseholdProfiles
  <2>3. made \in Grants
    BY <2>1, <2>2 DEF Grants
  <2>4. made.fields[h] = made.identity[h].contact
    BY <1>1 DEF Only, _identity
  <2>5. Approved({h, a.for}, made)
    BY <1>1, <2>4 DEF Approved
  <2> HIDE DEF made
  <2>6. grant' \in [Pairs -> Grants \cup {NoRow}]
    BY <1>1, <1>4, <2>3 DEF ContactInv, ContactTypeOK
  <2>7. ASSUME NEW pair \in Pairs, grant'[pair] # NoRow
        PROVE  Approved(pair, grant'[pair])
    <3>1. CASE pair = {h, a.for}
      BY <1>1, <1>4, <2>5, <3>1 DEF ContactInv, ContactTypeOK
    <3>2. CASE pair # {h, a.for}
      <4>1. grant'[pair] = grant[pair]
        BY <1>4, <3>2 DEF ContactInv, ContactTypeOK
      <4> QED
        BY <2>7, <4>1 DEF ContactInv, ApprovedAsIdentified
    <3> QED
      BY <3>1, <3>2
  <2> QED
    BY <1>2, <2>6, <2>7 DEF create, ContactInv, ContactTypeOK, ApprovedAsIdentified, ShownUnderUnbrokenConsent
<1> QED
  BY <1>3, <1>4 DEF create

\* Rows that are approved may be written.
LEMMA RowsWritten ==
    ASSUME ContactInv, grant' \in [Pairs -> Grants \cup {NoRow}],
           UNCHANGED <<household, asking, saves>>, ShownUnderUnbrokenConsent',
           \A pair \in Pairs : grant'[pair] # NoRow => Approved(pair, grant'[pair])
    PROVE  ContactInv'
BY DEF ContactInv, ContactTypeOK, AsksAnother, ApprovedAsIdentified

\* Writing an approved row keeps the invariant.
LEMMA RowWritten ==
    ASSUME ContactInv, NEW pair \in Pairs, NEW r \in Grants, Approved(pair, r),
           grant' = [grant EXCEPT ![pair] = r], UNCHANGED <<household, asking, shown, saves>>
    PROVE  ContactInv'
<1>1. grant' \in [Pairs -> Grants \cup {NoRow}]
  BY DEF ContactInv, ContactTypeOK
<1>2. ASSUME NEW q \in Pairs, grant'[q] # NoRow
      PROVE  Approved(q, grant'[q])
  <2>1. CASE q = pair
    BY <1>1, <2>1 DEF ContactInv, ContactTypeOK
  <2>2. CASE q # pair
    <3>1. grant'[q] = grant[q]
      BY <2>2 DEF ContactInv, ContactTypeOK
    <3> QED
      BY <1>2, <3>1 DEF ContactInv, ApprovedAsIdentified
  <2> QED
    BY <2>1, <2>2
<1>3. ShownUnderUnbrokenConsent'
  BY DEF ContactInv, ShownUnderUnbrokenConsent
<1> QED
  BY <1>1, <1>2, <1>3, RowsWritten

\* The recipient of a pending row that stood the comparison adds the data of
\* the profile the row was made for: the other side of the pair did so before.
LEMMA TransitionStep ==
    ASSUME ContactInv, NEW h \in Neighbours, NEW pair \in Pairs,
           NEW action \in {"accept", "decline", "revoke"}, transition(h, pair, action)
    PROVE  ContactInv'
<1> DEFINE r == _refresh(pair)
           added == [r EXCEPT !.status = "accepted", !.fields[h] = household[h].contact]
<1>1. /\ h \in pair /\ grant[pair] # NoRow /\ r \in Grants /\ Approved(pair, r)
      /\ r.status \notin Ended => \A m \in pair : _eligible(household[m]) /\ household[m] = r.identity[m]
      /\ UNCHANGED <<household, asking, shown, saves>>
  BY RefreshCases, RefreshType, RefreshApproved DEF transition
<1>2. CASE r.status = "pending" /\ r.by # h /\ grant' = [grant EXCEPT ![pair] = added]
  <2>1. /\ household[h] = r.identity[h] /\ household[h] \in HouseholdProfiles
        /\ r.fields[r.by] = r.identity[r.by].contact
    BY <1>1, <1>2 DEF Ended, _eligible, ContactInv, ContactTypeOK, Approved
  <2>2. household[h].contact \in {0, 1, NoProfile} /\ r.fields \in [Neighbours -> {0, 1, NoProfile}]
    BY <1>1, <2>1 DEF HouseholdProfiles, Grants
  <2>3. [r.fields EXCEPT ![h] = household[h].contact] \in [Neighbours -> {0, 1, NoProfile}]
    BY <2>2
  <2>4. /\ added.by = r.by /\ added.identity = r.identity
        /\ added.fields = [r.fields EXCEPT ![h] = household[h].contact]
    BY <1>1 DEF Grants
  <2>5. added \in Grants
    BY <1>1, <2>3, Zenon DEF Grants
  <2>6. \A m \in pair : m = h \/ m = r.by
    BY <1>1, <1>2, PairSides DEF Approved
  <2> HIDE DEF added
  <2>7. \A m \in pair : added.fields[m] = added.identity[m].contact
    BY <1>2, <2>1, <2>2, <2>4, <2>6
  <2>8. Approved(pair, added)
    BY <1>1, <2>4, <2>7 DEF Approved
  <2> QED
    BY <1>1, <1>2, <2>5, <2>8, RowWritten
<1>3. ASSUME NEW ending \in Ended, grant' = [grant EXCEPT ![pair] = _end(r, ending)]
      PROVE  ContactInv'
  <2>1. _end(r, ending) \in Grants /\ _end(r, ending).by = r.by /\ _end(r, ending).status = ending
    BY <1>1, EndKept, EndType
  <2>2. Approved(pair, _end(r, ending))
    BY <1>1, <2>1 DEF Approved, Ended
  <2> QED
    BY <1>1, <1>3, <2>1, <2>2, RowWritten
<1>4. CASE grant' = [grant EXCEPT ![pair] = r]
  BY <1>1, <1>4, RowWritten
<1>5. /\ "declined" \in Ended /\ "revoked" \in Ended
      /\ \/ r.status = "pending" /\ r.by # h /\ grant' = [grant EXCEPT ![pair] = added]
         \/ grant' = [grant EXCEPT ![pair] = _end(r, "declined")]
         \/ grant' = [grant EXCEPT ![pair] = _end(r, "revoked")]
         \/ grant' = [grant EXCEPT ![pair] = r]
  BY DEF transition, Ended
<1> QED
  BY <1>2, <1>3, <1>4, <1>5

\* The expiry of a grant keeps the invariant.
LEMMA ExpireStep ==
    ASSUME ContactInv, NEW pair \in Pairs, Expire(pair)
    PROVE  ContactInv'
<1> DEFINE r == [grant[pair] EXCEPT !.late = TRUE]
<1>1. grant[pair] \in Grants /\ Approved(pair, grant[pair])
  BY DEF Expire, ContactInv, ContactTypeOK, ApprovedAsIdentified
<1>2. r \in Grants /\ r.by = grant[pair].by /\ r.status = grant[pair].status
      /\ r.fields = grant[pair].fields /\ r.identity = grant[pair].identity
  BY <1>1 DEF Grants
<1>3. grant' = [grant EXCEPT ![pair] = r] /\ UNCHANGED <<household, asking, shown, saves>>
  BY DEF Expire
<1> HIDE DEF r
<1>4. Approved(pair, r)
  BY <1>1, <1>2 DEF Approved
<1> QED
  BY <1>2, <1>3, <1>4, RowWritten

\* What is shown was compared in the same transaction.
LEMMA ViewStep ==
    ASSUME ContactInv, NEW h \in Neighbours, view(h)
    PROVE  ContactInv'
<1> DEFINE mine == {pair \in Pairs : h \in pair /\ grant[pair] # NoRow}
<1>1. /\ grant' = [pair \in Pairs |-> IF pair \in mine THEN _refresh(pair) ELSE grant[pair]]
      /\ UNCHANGED <<household, asking, saves>>
  BY DEF view
<1>2. grant' \in [Pairs -> Grants \cup {NoRow}]
  BY <1>1, RefreshType DEF ContactInv, ContactTypeOK
<1>3. \A pair \in Pairs : grant'[pair] # NoRow => Approved(pair, grant'[pair])
  BY <1>1, RefreshApproved DEF ContactInv, ApprovedAsIdentified
<1>4. ShownUnderUnbrokenConsent'
  <2>1. CASE shown' = NoRow
    BY <2>1 DEF ShownUnderUnbrokenConsent
  <2>2. ASSUME NEW pair \in mine, NEW n \in Neighbours \ {h}, n \in pair,
               grant'[pair].status = "accepted",
               shown' = [to |-> h, of |-> n, contact |-> grant'[pair].fields[n],
                         then |-> grant'[pair].identity, now |-> household]
        PROVE  ShownUnderUnbrokenConsent'
    <3>1. grant'[pair] = _refresh(pair) /\ grant[pair] # NoRow
      BY <1>1, <2>2
    <3>2. /\ grant'[pair] = grant[pair]
          /\ \A m \in pair : _eligible(household[m]) /\ household[m] = grant'[pair].identity[m]
      BY <2>2, <3>1, RefreshCases DEF Ended
    <3>3. grant'[pair].fields[n] = grant'[pair].identity[n].contact
      BY <1>3, <2>2, <3>1, <3>2 DEF Approved
    <3> QED
      BY <2>2, <3>2, <3>3 DEF ShownUnderUnbrokenConsent, _eligible
  <2> QED
    BY <2>1, <2>2 DEF view
<1> QED
  BY <1>1, <1>2, <1>3, <1>4, RowsWritten

\* The inductive invariant holds before the first request.
LEMMA ContactInvInit == ContactInit => ContactInv
BY ContactAssumption DEF ContactInit, ContactInv, ContactTypeOK, AsksAnother, ApprovedAsIdentified,
                         ShownUnderUnbrokenConsent, HouseholdProfiles

\* Every step keeps the inductive invariant.
LEMMA ContactInvStep == ContactInv /\ [ContactNext]_contactVars => ContactInv'
<1> SUFFICES ASSUME ContactInv, [ContactNext]_contactVars
             PROVE  ContactInv'
  OBVIOUS
<1>1. CASE UNCHANGED contactVars
  BY <1>1 DEF contactVars, ContactInv, ContactTypeOK, AsksAnother, ApprovedAsIdentified,
              ShownUnderUnbrokenConsent
<1>2. CASE ContactNext
  BY <1>2, SaveStep, DeleteStep, ReadStep, CreateStep, TransitionStep, ViewStep, ExpireStep DEF ContactNext
<1> QED
  BY <1>1, <1>2

\* What a contacts page shows is current and under a consent neither side
\* touched since the request, for any number of households and profile saves
\* (ContactRequests!ShownUnderUnbrokenConsent).
THEOREM ShownUnderUnbrokenConsentHolds == ContactSpec => []ShownUnderUnbrokenConsent
<1>1. ContactInv => ShownUnderUnbrokenConsent
  BY DEF ContactInv
<1> QED
  BY <1>1, ContactInvInit, ContactInvStep, PTL DEF ContactSpec

-----------------------------------------------------------------------------
(* Roles.  A request decides on rows it has locked, and the founder's row   *)
(* is among the rows of every community: no two requests decide at once,    *)
(* and what one has read still holds when it writes.                        *)

\* The asker is between reading the roles and writing them.
Deciding(q) == deciding[q] # NoAsk /\ deciding[q].kind = "roles"

\* The founder's membership stays confirmed.
FounderStays == row[Founder] = "confirmed"

\* The community row is locked by one decision at a time.
OneDecides == \A q, o \in Askers : Deciding(q) /\ Deciding(o) => q = o

\* What a request that changes roles has decided on still holds.
DecisionStands == \A q \in Askers : LET asked == deciding[q] IN
    Deciding(q) =>
        /\ Founder \in asked.locked /\ asked.target \in asked.locked
        /\ \A g \in asked.locked : IsMember(g)
        /\ \/ ADMIN \in asked.new \/ ~is_administrator(asked.target)
           \/ \E g \in asked.locked \ {asked.target} : ConfirmedAdministrator(g)

\* The inductive invariant behind Administrated and TrailIsTheRoles.
RolesInv == RolesTypeOK /\ FounderStays /\ OneDecides /\ DecisionStands /\ Administrated /\ TrailIsTheRoles

\* A decision locks the founder's row, so there is none beside it.
LEMMA ReadRolesStep ==
    ASSUME RolesInv, NEW q \in Askers, NEW a \in Homes, NEW h \in Homes, NEW new \in RoleSets,
           ReadRoles(q, a, h, new)
    PROVE  RolesInv'
<1> DEFINE asked == [kind |-> "roles", target |-> h, new |-> new, locked |-> {g \in Homes : IsMember(g)}]
<1>1. asked \in Ask /\ deciding[q] = NoAsk /\ deciding' = [deciding EXCEPT ![q] = asked]
  BY DEF ReadRoles, Decided, Ask
<1>2. Founder \in asked.locked /\ h \in asked.locked
  BY RolesAssumption DEF RolesInv, FounderStays, IsMember, ReadRoles, RolesAllowed
<1>3. \A o \in Askers : ~Deciding(o)
  BY <1>2 DEF RolesInv, DecisionStands, ReadRoles, Locked, Deciding
<1>4. \A o \in Askers : Deciding(o)' => o = q /\ deciding'[o] = asked
  BY <1>1, <1>3 DEF Deciding, RolesInv, RolesTypeOK
<1>5. OneDecides'
  BY <1>4 DEF OneDecides
<1>6. DecisionStands'
  <2>1. \/ ADMIN \in new \/ ~is_administrator(h)
        \/ \E g \in asked.locked \ {h} : ConfirmedAdministrator(g)
    BY DEF ReadRoles, RolesAllowed, ConfirmedAdministrator, IsMember
  <2> QED
    BY <1>2, <1>4, <2>1 DEF DecisionStands, ReadRoles, IsMember, is_administrator, ConfirmedAdministrator
<1>7. RolesTypeOK'
  BY <1>1 DEF RolesInv, RolesTypeOK, ReadRoles
<1> QED
  BY <1>5, <1>6, <1>7 DEF RolesInv, ReadRoles, FounderStays, Administrated, TrailIsTheRoles,
                          ConfirmedAdministrator, is_administrator

\* The administrator a decision counted on is locked and so still one.
LEMMA SetRolesStep ==
    ASSUME RolesInv, NEW q \in Askers, set_member_access_roles(q)
    PROVE  RolesInv'
<1> DEFINE asked == deciding[q]
<1>1. /\ Deciding(q) /\ asked \in Ask /\ asked.target \in Homes /\ asked.new \in RoleSets
      /\ asked.new \subseteq Roles
      /\ roles' = [roles EXCEPT ![asked.target] = asked.new] /\ deciding' = [deciding EXCEPT ![q] = NoAsk]
      /\ UNCHANGED <<row, require_dual_control, bereft>>
  BY RolesAssumption DEF set_member_access_roles, Deciding, Answered, RolesInv, RolesTypeOK, Ask, Roles
<1>2. trail' = [trail EXCEPT ![asked.target] = [last |-> asked.new, unbroken |-> TRUE]]
  <2>1. trail[asked.target] = [last |-> roles[asked.target], unbroken |-> TRUE]
    BY <1>1 DEF RolesInv, TrailIsTheRoles
  <2>2. trail[asked.target].unbroken = TRUE /\ trail[asked.target].last = roles[asked.target]
    BY <2>1
  <2>3. trail' = [trail EXCEPT ![asked.target] =
                     [last |-> asked.new,
                      unbroken |-> trail[asked.target].unbroken /\ trail[asked.target].last = roles[asked.target]]]
    BY DEF set_member_access_roles
  <2> HIDE DEF asked
  <2>4. (trail[asked.target].unbroken /\ trail[asked.target].last = roles[asked.target]) = TRUE
    BY <2>2
  <2> QED
    BY <2>3, <2>4, Zenon
<1>3. \A o \in Askers : ~Deciding(o)'
  BY <1>1 DEF RolesInv, RolesTypeOK, OneDecides, Deciding
<1>4. Administrated'
  <2>1. CASE bereft
    BY <1>1, <2>1 DEF Administrated
  <2>2. CASE ADMIN \in asked.new \/ ~is_administrator(asked.target)
    BY <1>1, <2>2 DEF RolesInv, RolesTypeOK, Administrated, ConfirmedAdministrator, is_administrator
  <2>3. ASSUME NEW g \in asked.locked \ {asked.target}, ConfirmedAdministrator(g)
        PROVE  Administrated'
    <3>1. g \in Homes
      BY <1>1 DEF Ask, Deciding
    <3> QED
      BY <1>1, <2>3, <3>1 DEF RolesInv, RolesTypeOK, Administrated, ConfirmedAdministrator, is_administrator
  <2> QED
    BY <1>1, <2>2, <2>3 DEF RolesInv, DecisionStands
<1>5. TrailIsTheRoles'
  BY <1>1, <1>2 DEF RolesInv, RolesTypeOK, TrailIsTheRoles
<1>6. RolesTypeOK'
  BY <1>1, <1>2 DEF RolesInv, RolesTypeOK
<1> QED
  BY <1>1, <1>3, <1>4, <1>5, <1>6 DEF RolesInv, FounderStays, OneDecides, DecisionStands

\* A locked row is neither confirmed nor deleted meanwhile; the founder's is
\* never deleted.
LEMMA RowStep ==
    ASSUME RolesInv, NEW h \in Homes, confirm_membership(h) \/ delete_profile(h)
    PROVE  RolesInv'
<1>1. /\ UNCHANGED <<deciding, require_dual_control>> /\ \A q \in Askers : Deciding(q) => h \notin deciding[q].locked
      /\ h # Founder /\ \A g \in Homes \ {h} : row'[g] = row[g] /\ roles'[g] = roles[g]
  BY RolesAssumption DEF confirm_membership, delete_profile, Locked, Deciding, RolesInv, FounderStays, RolesTypeOK
<1>2. RolesTypeOK'
  <2>1. [last |-> {}, unbroken |-> TRUE] \in [last : SUBSET Roles, unbroken : BOOLEAN]
    OBVIOUS
  <2>2. CASE confirm_membership(h)
    BY <2>2 DEF confirm_membership, RolesInv, RolesTypeOK
  <2>3. CASE delete_profile(h)
    <3>1. bereft' \in BOOLEAN
      BY <2>3, Zenon DEF delete_profile
    <3> QED
      BY <2>1, <2>3, <3>1 DEF delete_profile, RolesInv, RolesTypeOK
  <2> QED
    BY <2>2, <2>3
<1>3. Administrated'
  BY <1>1 DEF confirm_membership, delete_profile, RolesInv, RolesTypeOK, Administrated, ConfirmedAdministrator,
              is_administrator
<1>4. TrailIsTheRoles'
  BY DEF confirm_membership, delete_profile, RolesInv, RolesTypeOK, TrailIsTheRoles
<1>5. FounderStays' /\ OneDecides'
  BY <1>1, RolesAssumption DEF RolesInv, FounderStays, OneDecides, Deciding
<1>6. DecisionStands'
  <2>1. \A q \in Askers : Deciding(q) => \A g \in deciding[q].locked : g \in Homes /\ g # h
    BY <1>1 DEF RolesInv, RolesTypeOK, Deciding, Ask
  <2>2. \A q \in Askers : Deciding(q) => deciding[q].target \in deciding[q].locked
    BY DEF RolesInv, DecisionStands
  <2> QED
    BY <1>1, <2>1, <2>2 DEF RolesInv, DecisionStands, Deciding, IsMember, is_administrator, ConfirmedAdministrator
<1> QED
  BY <1>2, <1>3, <1>4, <1>5, <1>6 DEF RolesInv

\* What else a request does concerns no role and no row of a member.
LEMMA OtherAskStep ==
    ASSUME RolesInv, NEW q \in Askers,
           \/ \E a, h \in Homes : AllowInvite(q, a, h)
           \/ invite_member(q)
           \/ \E a \in Homes, on \in BOOLEAN : ReadAdministrator(q, a, on)
           \/ set_require_dual_control(q)
           \/ AskerDies(q)
    PROVE  RolesInv'
<1>1. RolesTypeOK'
  BY DEF AllowInvite, invite_member, ReadAdministrator, set_require_dual_control, AskerDies, Decided, Answered,
         RolesInv, RolesTypeOK, Ask
<1>2. \A o \in Askers : Deciding(o)' => Deciding(o) /\ deciding'[o] = deciding[o]
  BY DEF AllowInvite, invite_member, ReadAdministrator, set_require_dual_control, AskerDies, Decided, Answered,
         RolesInv, RolesTypeOK, Deciding
<1>3. UNCHANGED <<roles, trail, bereft>> /\ \A h \in Homes : row[h] # "none" => row'[h] = row[h]
  BY DEF AllowInvite, invite_member, ReadAdministrator, set_require_dual_control, AskerDies, RolesInv, RolesTypeOK
<1>4. DecisionStands'
  <2>1. \A o \in Askers : Deciding(o) => \A g \in deciding[o].locked : g \in Homes
    BY DEF RolesInv, RolesTypeOK, Deciding, Ask
  <2> QED
    BY <1>2, <1>3, <2>1 DEF RolesInv, DecisionStands, IsMember, is_administrator, ConfirmedAdministrator
<1>5. FounderStays' /\ OneDecides' /\ TrailIsTheRoles'
  BY <1>2, <1>3, RolesAssumption DEF RolesInv, FounderStays, OneDecides, TrailIsTheRoles
<1>6. Administrated'
  BY <1>3 DEF RolesInv, Administrated, ConfirmedAdministrator, is_administrator
<1> QED
  BY <1>1, <1>4, <1>5, <1>6 DEF RolesInv

\* The inductive invariant holds before the first decision.
LEMMA RolesInvInit == RolesInit => RolesInv
<1> SUFFICES ASSUME RolesInit
             PROVE  RolesInv
  OBVIOUS
<1>1. roles \in [Homes -> SUBSET Roles] /\ ADMIN \in roles[Founder] /\ row[Founder] = "confirmed"
  BY RolesAssumption DEF RolesInit, Roles, ADMIN
<1>2. \A h \in Homes : trail[h] = [last |-> roles[h], unbroken |-> TRUE]
  BY DEF RolesInit
<1>3. \A h \in Homes : [last |-> roles[h], unbroken |-> TRUE] \in [last : SUBSET Roles, unbroken : BOOLEAN]
  BY <1>1
<1>4. trail \in [Homes -> [last : SUBSET Roles, unbroken : BOOLEAN]]
  BY <1>2, <1>3 DEF RolesInit
<1>5. RolesTypeOK
  BY <1>1, <1>4 DEF RolesInit, RolesTypeOK
<1>6. \A q \in Askers : ~Deciding(q)
  BY DEF RolesInit, Deciding
<1> QED
  BY <1>1, <1>2, <1>5, <1>6, RolesAssumption DEF RolesInv, FounderStays, OneDecides, DecisionStands,
     Administrated, ConfirmedAdministrator, is_administrator, TrailIsTheRoles

\* Every step keeps the inductive invariant.
LEMMA RolesInvStep == RolesInv /\ [RolesNext]_rolesVars => RolesInv'
<1> SUFFICES ASSUME RolesInv, [RolesNext]_rolesVars
             PROVE  RolesInv'
  OBVIOUS
<1>1. CASE UNCHANGED rolesVars
  BY <1>1 DEF rolesVars, RolesInv, RolesTypeOK, FounderStays, OneDecides, DecisionStands, Deciding, IsMember,
              Administrated, ConfirmedAdministrator, is_administrator, TrailIsTheRoles
<1>2. ASSUME NEW q \in Askers, AskStep(q)
      PROVE  RolesInv'
  BY <1>2, ReadRolesStep, SetRolesStep, OtherAskStep DEF AskStep
<1>3. ASSUME NEW h \in Homes, confirm_membership(h) \/ delete_profile(h)
      PROVE  RolesInv'
  BY <1>3, RowStep
<1> QED
  BY <1>1, <1>2, <1>3 DEF RolesNext

\* A community keeps a confirmed administrator until one deletes its profile,
\* however many requests change roles at once (CommunityRoles!Administrated).
THEOREM AdministratedHolds == RolesSpec => []Administrated
<1>1. RolesInv => Administrated
  BY DEF RolesInv
<1> QED
  BY <1>1, RolesInvInit, RolesInvStep, PTL DEF RolesSpec

\* The events of a member tell its roles without a gap
\* (CommunityRoles!TrailIsTheRoles).
THEOREM TrailIsTheRolesHolds == RolesSpec => []TrailIsTheRoles
<1>1. RolesInv => TrailIsTheRoles
  BY DEF RolesInv
<1> QED
  BY <1>1, RolesInvInit, RolesInvStep, PTL DEF RolesSpec

-----------------------------------------------------------------------------
(* Registration.  A link that still verifies was mailed to the mailbox the  *)
(* profile names: a new mailbox raises the revision, and a profile that is  *)
(* deleted takes its links along before its revision starts again.          *)

\* A live verification link of the profile's present revision was mailed to its present address.
LiveLinksVerify == \A k \in DOMAIN links : links[k].kind = "verification" /\ links[k].state = "live" =>
    /\ Exists(links[k].of) /\ links[k].revision <= profile[links[k].of].revision
    /\ links[k].revision = profile[links[k].of].revision => links[k].to = profile[links[k].of].mail

\* Every link but the unsubscription is of a profile.
LinksOfProfiles == \A k \in DOMAIN links : links[k].kind # "unsubscribe" => links[k].of \in Profiles

\* The inductive invariant behind VerifiedByItsMailbox.
RegInv == RegTypeOK /\ LinksOfProfiles /\ LiveLinksVerify /\ VerifiedByItsMailbox

\* What is left of the links after a step that makes none.
LinksFewer(after) ==
    /\ after \in Seq(Link) /\ Len(after) = Len(links) /\ DOMAIN after = DOMAIN links
    /\ \A k \in DOMAIN links :
           /\ after[k].kind = links[k].kind /\ after[k].of = links[k].of /\ after[k].to = links[k].to
           /\ after[k].revision = links[k].revision
           /\ after[k].state = "live" => links[k].state = "live"

\* The row of a profile names the mailbox and the revision it named.
SameRow(b) ==
    /\ profile'[b] \in Profile
    /\ profile'[b].mail = profile[b].mail /\ profile'[b].revision = profile[b].revision

\* Links are numbered from one, and each has the fields of a link.
LEMMA LinksOfNobody ==
    ASSUME RegInv, NEW k \in DOMAIN links
    PROVE  links[k] \in Link /\ DOMAIN links = 1..Len(links) /\ Len(links) \in Nat
BY ElementOfSeq, LenProperties DEF RegInv, RegTypeOK

\* Using one link leaves the others as they are.
LEMMA OneLinkGoes ==
    ASSUME RegInv, NEW k \in DOMAIN links, links[k].state = "live", NEW state \in {"used", "expired"},
           links' = [links EXCEPT ![k].state = state]
    PROVE  /\ LinksFewer(links') /\ links'[k].state = state
           /\ \A j \in DOMAIN links : j # k => links'[j] = links[j]
<1> DEFINE l == [links[k] EXCEPT !.state = state]
<1>1. links[k] \in Link /\ links \in Seq(Link)
  BY LinksOfNobody DEF RegInv, RegTypeOK
<1>2. /\ l \in Link /\ l.state = state /\ l.kind = links[k].kind /\ l.of = links[k].of /\ l.to = links[k].to
      /\ l.revision = links[k].revision /\ links' = [links EXCEPT ![k] = l]
  BY <1>1 DEF Link
<1> HIDE DEF l
<1>3. links' \in Seq(Link) /\ Len(links') = Len(links) /\ DOMAIN links' = DOMAIN links
  BY <1>1, <1>2, ExceptSeq, LenProperties
<1> QED
  BY <1>1, <1>2, <1>3 DEF LinksFewer

\* Nobody is verified by a step that leaves the profiles alone.
LEMMA UntouchedProfiles ==
    ASSUME RegInv, UNCHANGED profile
    PROVE  /\ profile' \in [Profiles -> Profile \cup {Absent}]
           /\ \A b \in Profiles : profile'[b] = Absent \/ (Exists(b) /\ SameRow(b))
           /\ \A k \in DOMAIN links : links[k].kind = "verification" /\ links[k].state = "live" =>
                  profile'[links[k].of] # Absent
BY DEF RegInv, RegTypeOK, LinksOfProfiles, LiveLinksVerify, Exists, SameRow

\* A step that makes no link keeps the invariant if profiles keep their rows,
\* those deleted lose all their links, and nobody is verified without one.
LEMMA LinksGoStep ==
    ASSUME RegInv, LinksFewer(links'),
           profile' \in [Profiles -> Profile \cup {Absent}],
           \A b \in Profiles : profile'[b] = Absent \/ (Exists(b) /\ SameRow(b)),
           \A k \in DOMAIN links : links[k].kind = "verification" =>
               /\ links'[k].state = "live" => profile'[links[k].of] # Absent
               /\ links[k].state = "used" => links'[k].state = "used" \/ profile'[links[k].of] = Absent,
           \A b \in Profiles : profile'[b] # Absent /\ profile'[b].verified =>
               \/ profile[b].verified
               \/ \E k \in DOMAIN links : /\ links[k].kind = "verification" /\ links'[k].state = "used"
                                         /\ links[k].of = b /\ links[k].to = profile[b].mail,
           coverage' \in [CoverageIds -> Coverage \cup {Absent}],
           found' \in SUBSET [kind : Kinds, of : Profiles, to : Mailboxes],
           session' \in [Browsers -> Profiles \cup {SignedOut}]
    PROVE  RegInv'
<1>1. RegTypeOK'
  BY DEF RegInv, RegTypeOK, LinksFewer
<1>2. LinksOfProfiles' /\ LiveLinksVerify'
  BY AbsentAssumption DEF RegInv, LinksOfProfiles, LiveLinksVerify, LinksFewer, SameRow, Exists
<1>3. VerifiedByItsMailbox'
  <2> SUFFICES ASSUME NEW b \in Profiles, profile'[b] # Absent, profile'[b].verified
               PROVE  \E k \in DOMAIN links : /\ links'[k].kind = "verification" /\ links'[k].state = "used"
                                             /\ links'[k].of = b /\ links'[k].to = profile'[b].mail
    BY DEF VerifiedByItsMailbox, LinksFewer, Exists
  <2>1. Exists(b) /\ profile'[b].mail = profile[b].mail
    BY DEF SameRow
  <2>2. CASE profile[b].verified
    <3>1. PICK k \in DOMAIN links : /\ links[k].kind = "verification" /\ links[k].state = "used"
                                    /\ links[k].of = b /\ links[k].to = profile[b].mail
      BY <2>1, <2>2 DEF RegInv, VerifiedByItsMailbox
    <3> QED
      BY <2>1, <3>1 DEF LinksFewer
  <2> QED
    BY <2>1, <2>2 DEF LinksFewer
<1> QED
  BY <1>1, <1>2, <1>3 DEF RegInv

\* A link that is no verification link changes nothing that verifies.
LEMMA OtherLinkStep ==
    ASSUME RegInv, NEW kind \in {"unsubscribe", "dashboard"}, NEW of \in Profiles \cup CoverageIds, NEW to \in Mailboxes,
           kind = "dashboard" => of \in Profiles,
           NewLink(kind, of, 0, to), UNCHANGED <<profile, coverage, session>>,
           found' \in SUBSET [kind : Kinds, of : Profiles, to : Mailboxes]
    PROVE  RegInv'
<1> DEFINE l == [kind |-> kind, of |-> of, revision |-> 0, to |-> to, state |-> "live"]
<1>1. l \in Link /\ l.kind = kind /\ l.of = of
  BY DEF Link, Kinds
<1> HIDE DEF l
<1>2. links \in Seq(Link) /\ Len(links) < MaxLinks /\ links' = Append(links, l)
  BY DEF NewLink, RegInv, RegTypeOK, l
<1>3. /\ links' \in Seq(Link) /\ Len(links') = Len(links) + 1 /\ DOMAIN links' = 1..(Len(links) + 1)
      /\ DOMAIN links = 1..Len(links) /\ Len(links) \in Nat
      /\ \A k \in DOMAIN links : links'[k] = links[k]
      /\ links'[Len(links) + 1] = l
  BY <1>1, <1>2, AppendProperties, LenProperties
<1>4. RegTypeOK'
  BY <1>2, <1>3, RegistrationAssumption DEF RegInv, RegTypeOK
<1>5. LinksOfProfiles' /\ LiveLinksVerify' /\ VerifiedByItsMailbox'
  BY <1>1, <1>3 DEF RegInv, LinksOfProfiles, LiveLinksVerify, VerifiedByItsMailbox, Exists
<1> QED
  BY <1>4, <1>5 DEF RegInv

\* Another mailbox is a revision ahead of every link there is.
LEMMA SaveBuildingStep ==
    ASSUME RegInv, NEW b \in Profiles, NEW m \in Mailboxes, save_building(b, m)
    PROVE  RegInv'
<1> DEFINE l == [kind |-> "verification", of |-> b, revision |-> Revision(b, m), to |-> m, state |-> "live"]
           entry == [mail |-> m, verified |-> Exists(b) /\ profile[b].verified, revision |-> Revision(b, m), aged |-> FALSE]
<1>1. /\ Revision(b, m) \in Nat
      /\ Exists(b) => /\ profile[b] \in Profile /\ profile[b].revision \in Nat
                      /\ profile[b].mail = m => Revision(b, m) = profile[b].revision
                      /\ profile[b].mail # m => Revision(b, m) = profile[b].revision + 1
  BY DEF Revision, Exists, RegInv, RegTypeOK, Profile
<1>2. l \in Link /\ l.kind = "verification" /\ l.of = b /\ l.revision = Revision(b, m) /\ l.to = m /\ l.state = "live"
  BY <1>1 DEF Link, Kinds
<1>3. entry \in Profile /\ entry.mail = m /\ entry.revision = Revision(b, m) /\ (entry.verified => Exists(b) /\ profile[b].verified)
  BY <1>1 DEF Profile
<1> HIDE DEF l, entry
<1>4. /\ profile' = [profile EXCEPT ![b] = entry] /\ links' = Append(links, l) /\ Len(links) < MaxLinks
      /\ UNCHANGED <<coverage, found, session>> /\ (Exists(b) => ~profile[b].verified \/ profile[b].mail = m)
  BY DEF save_building, NewLink, l, entry
<1>5. /\ links' \in Seq(Link) /\ Len(links') = Len(links) + 1 /\ DOMAIN links' = 1..(Len(links) + 1)
      /\ DOMAIN links = 1..Len(links) /\ Len(links) \in Nat
      /\ \A k \in DOMAIN links : links'[k] = links[k] /\ links[k] \in Link
      /\ links'[Len(links) + 1] = l
  BY <1>2, <1>4, AppendProperties, LenProperties, ElementOfSeq DEF RegInv, RegTypeOK
<1>6. RegTypeOK'
  BY <1>3, <1>4, <1>5, RegistrationAssumption DEF RegInv, RegTypeOK
<1>7. /\ profile'[b] = entry /\ entry # Absent /\ \A p \in Profiles \ {b} : profile'[p] = profile[p]
  BY <1>3, <1>4, AbsentAssumption DEF RegInv, RegTypeOK
<1>8. LiveLinksVerify' /\ LinksOfProfiles'
  <2> SUFFICES ASSUME NEW k \in DOMAIN links', links'[k].kind # "unsubscribe"
               PROVE  /\ links'[k].of \in Profiles
                      /\ links'[k].kind = "verification" /\ links'[k].state = "live" =>
                           /\ profile'[links'[k].of] # Absent
                           /\ links'[k].revision <= profile'[links'[k].of].revision
                           /\ links'[k].revision = profile'[links'[k].of].revision =>
                                  links'[k].to = profile'[links'[k].of].mail
    BY DEF LiveLinksVerify, LinksOfProfiles, Exists
  <2>1. CASE k = Len(links) + 1
    BY <1>1, <1>2, <1>3, <1>5, <1>7, <2>1
  <2>2. CASE k \in DOMAIN links /\ links[k].of # b
    BY <1>5, <1>7, <2>2 DEF RegInv, LinksOfProfiles, LiveLinksVerify, Exists
  <2>3. CASE k \in DOMAIN links /\ links[k].of = b
    <3>1. links[k].revision \in Nat
      BY <1>5, <2>3 DEF Link
    <3>2. /\ links'[k].of = b /\ links'[k].revision = links[k].revision /\ links'[k].to = links[k].to
          /\ profile'[b].mail = m /\ profile'[b].revision = Revision(b, m) /\ profile'[b] # Absent
      BY <1>3, <1>5, <1>7, <2>3
    <3>3. CASE links'[k].kind = "verification" /\ links'[k].state = "live"
      <4>1. /\ Exists(b) /\ links[k].revision <= profile[b].revision
            /\ links[k].revision = profile[b].revision => links[k].to = profile[b].mail
        BY <1>5, <2>3, <3>3 DEF RegInv, LiveLinksVerify
      <4> QED
        BY <1>1, <3>1, <3>2, <4>1
    <3> QED
      BY <3>2, <3>3
  <2> QED
    BY <1>5, <2>1, <2>2, <2>3
<1>9. VerifiedByItsMailbox'
  <2>1. \A p \in Profiles : Exists(p)' /\ profile'[p].verified =>
            Exists(p) /\ profile[p].verified /\ profile'[p].mail = profile[p].mail
    BY <1>3, <1>4, <1>7 DEF Exists
  <2> QED
    BY <1>5, <2>1 DEF RegInv, VerifiedByItsMailbox
<1> QED
  BY <1>6, <1>8, <1>9 DEF RegInv

\* The link that verifies was mailed to the mailbox its profile names.
LEMMA ConfirmInterestStep ==
    ASSUME RegInv, NEW k \in DOMAIN links, confirm_building_interest(k)
    PROVE  RegInv'
<1> DEFINE l == links[k]
           b == l.of
<1>1. /\ l \in Link /\ l.kind = "verification" /\ l.state = "live" /\ b \in Profiles /\ Exists(b)
      /\ profile[b] \in Profile /\ l.to = profile[b].mail
      /\ links' = [links EXCEPT ![k].state = "used"] /\ profile' = [profile EXCEPT ![b].verified = TRUE]
      /\ UNCHANGED <<coverage, found, session>>
  BY LinksOfNobody DEF confirm_building_interest, RegInv, RegTypeOK, LinksOfProfiles, LiveLinksVerify, Exists
<1>2. LinksFewer(links') /\ links'[k].state = "used" /\ \A j \in DOMAIN links : j # k => links'[j] = links[j]
  BY <1>1, OneLinkGoes
<1>3. [profile[b] EXCEPT !.verified = TRUE] \in Profile
  BY <1>1 DEF Profile
<1>4. profile' \in [Profiles -> Profile \cup {Absent}] /\ SameRow(b) /\ \A p \in Profiles \ {b} : profile'[p] = profile[p]
  BY <1>1, <1>3 DEF RegInv, RegTypeOK, SameRow, Profile
<1>5. \A p \in Profiles : profile'[p] = Absent \/ (Exists(p) /\ SameRow(p))
  BY <1>1, <1>4 DEF SameRow, Exists, RegInv, RegTypeOK
<1>6. profile'[b] # Absent
  BY <1>4, AbsentAssumption DEF SameRow
<1>7. \A j \in DOMAIN links : links[j].kind = "verification" =>
          /\ links'[j].state = "live" => profile'[links[j].of] # Absent
          /\ links[j].state = "used" => links'[j].state = "used"
  BY <1>2, <1>4, <1>6 DEF RegInv, LinksOfProfiles, LiveLinksVerify, Exists, LinksFewer
<1>8. \A p \in Profiles : profile'[p] # Absent /\ profile'[p].verified =>
          \/ profile[p].verified
          \/ \E j \in DOMAIN links : /\ links[j].kind = "verification" /\ links'[j].state = "used"
                                    /\ links[j].of = p /\ links[j].to = profile[p].mail
  BY <1>1, <1>2, <1>4
<1>9. /\ coverage' \in [CoverageIds -> Coverage \cup {Absent}] /\ session' \in [Browsers -> Profiles \cup {SignedOut}]
      /\ found' \in SUBSET [kind : Kinds, of : Profiles, to : Mailboxes]
  BY <1>1 DEF RegInv, RegTypeOK
<1> QED
  BY <1>2, <1>4, <1>5, <1>7, <1>8, <1>9, LinksGoStep

\* A login or an expiry takes one link that is no longer live.
LEMMA LinkStep ==
    ASSUME RegInv, NEW k \in DOMAIN links,
           ExpireLink(k) \/ \E x \in Browsers : dashboard_access_exchange(k, x)
    PROVE  RegInv'
<1>1. PICK state \in {"used", "expired"} :
        /\ links[k].state = "live" /\ links' = [links EXCEPT ![k].state = state]
        /\ state = "used" => links[k].kind = "dashboard"
  BY DEF ExpireLink, dashboard_access_exchange, consume
<1>2. LinksFewer(links') /\ \A j \in DOMAIN links : j # k => links'[j] = links[j]
  BY <1>1, OneLinkGoes
<1>3. /\ UNCHANGED <<profile, coverage, found>> /\ session' \in [Browsers -> Profiles \cup {SignedOut}]
  <2>1. CASE ExpireLink(k)
    BY <2>1 DEF ExpireLink, RegInv, RegTypeOK
  <2>2. ASSUME NEW x \in Browsers, dashboard_access_exchange(k, x)
        PROVE  <1>3!1
    BY <2>2 DEF dashboard_access_exchange, consume, RegInv, RegTypeOK, LinksOfProfiles
  <2> QED
    BY <2>1, <2>2
<1> QED
  BY <1>1, <1>2, <1>3, UntouchedProfiles, LinksGoStep DEF RegInv, RegTypeOK

\* A step that makes no link and leaves them all as they are.
LEMMA LinksStayStep ==
    ASSUME RegInv, UNCHANGED <<profile, links>>,
           coverage' \in [CoverageIds -> Coverage \cup {Absent}],
           found' \in SUBSET [kind : Kinds, of : Profiles, to : Mailboxes],
           session' \in [Browsers -> Profiles \cup {SignedOut}]
    PROVE  RegInv'
BY DEF RegInv, RegTypeOK, LinksOfProfiles, LiveLinksVerify, VerifiedByItsMailbox, Exists

\* The coverage request keeps the invariant.
LEMMA CoverageStep ==
    ASSUME RegInv, NEW r \in CoverageIds,
           \/ \E m \in Mailboxes : submit(r, m)
           \/ verify_coverage_request(r)
           \/ AgeCoverage(r)
    PROVE  RegInv'
<1>1. UNCHANGED <<profile, links, found, session>>
  BY DEF submit, save_coverage_request, verify_coverage_request, AgeCoverage
<1>2. /\ \A m \in Mailboxes : [mail |-> m, verified |-> FALSE, aged |-> FALSE] \in Coverage
      /\ coverage[r] # Absent => [coverage[r] EXCEPT !.verified = TRUE] \in Coverage
                                 /\ [coverage[r] EXCEPT !.aged = TRUE] \in Coverage
  BY DEF RegInv, RegTypeOK, Coverage
<1>3. coverage' \in [CoverageIds -> Coverage \cup {Absent}]
  BY <1>2 DEF submit, save_coverage_request, verify_coverage_request, AgeCoverage, RegInv, RegTypeOK
<1> QED
  BY <1>1, <1>3, LinksStayStep DEF RegInv, RegTypeOK

\* Asking for a link by mail keeps the invariant.
LEMMA LookupStep ==
    ASSUME RegInv, NEW m \in Mailboxes, unsubscribe_page(m) \/ dashboard_access_request(m)
    PROVE  RegInv'
<1>1. UNCHANGED <<profile, coverage, links, session>>
      /\ found' \in SUBSET [kind : Kinds, of : Profiles, to : Mailboxes]
  BY DEF unsubscribe_page, dashboard_access_request, get_building_by_email, RegInv, RegTypeOK, Kinds
<1> QED
  BY <1>1, LinksStayStep DEF RegInv, RegTypeOK

\* The link of a profile that was looked up may come late, but it is none that
\* verifies.
LEMMA IssueStep ==
    ASSUME RegInv, NEW f \in found, IssueLink(f), found \subseteq [kind : {"unsubscribe", "dashboard"}, of : Profiles, to : Mailboxes]
    PROVE  RegInv'
<1>1. /\ UNCHANGED <<profile, coverage, session>> /\ found' \in SUBSET [kind : Kinds, of : Profiles, to : Mailboxes]
      /\ f.kind \in {"unsubscribe", "dashboard"} /\ f.of \in Profiles /\ f.to \in Mailboxes
  BY DEF IssueLink, RegInv, RegTypeOK
<1>2. CASE UNCHANGED links
  BY <1>1, <1>2, LinksStayStep DEF RegInv, RegTypeOK
<1>3. CASE NewLink(f.kind, f.of, 0, f.to)
  BY <1>1, <1>3, OtherLinkStep
<1> QED
  BY <1>2, <1>3 DEF IssueLink

\* Issuing the deletion links of a request keeps the invariant.
LEMMA CoverageLinkStep ==
    ASSUME RegInv, NEW r \in CoverageIds, create_coverage_deletion_tokens(r)
    PROVE  RegInv'
<1>1. coverage[r].mail \in Mailboxes /\ found \in SUBSET [kind : Kinds, of : Profiles, to : Mailboxes]
  BY DEF create_coverage_deletion_tokens, RegInv, RegTypeOK, Coverage
<1> QED
  BY <1>1, OtherLinkStep DEF create_coverage_deletion_tokens

\* Some links go to a state that is not live.
LEMMA LinksRewritten ==
    ASSUME RegInv, NEW S \in SUBSET DOMAIN links, NEW state \in {"gone", "revoked"},
           links' = [k \in DOMAIN links |-> IF k \in S THEN [links[k] EXCEPT !.state = state] ELSE links[k]]
    PROVE  /\ LinksFewer(links')
           /\ \A k \in DOMAIN links : IF k \in S THEN links'[k].state = state ELSE links'[k] = links[k]
<1>1. \A k \in DOMAIN links : links[k] \in Link /\ [links[k] EXCEPT !.state = state] \in Link
  <2>1. \A k \in DOMAIN links : links[k] \in Link
    BY LinksOfNobody
  <2>2. ASSUME NEW l \in Link
        PROVE  [l EXCEPT !.state = state] \in Link
    BY DEF Link
  <2> QED
    BY <2>1, <2>2
<1>2. links' \in Seq(Link) /\ Len(links') = Len(links) /\ DOMAIN links' = DOMAIN links
  <2>1. PICK n \in Nat : Len(links) = n /\ DOMAIN links = 1 .. n
    BY LenProperties DEF RegInv, RegTypeOK
  <2>2. PICK new : new = links'
    OBVIOUS
  <2>3. new = [k \in 1 .. n |-> new[k]] /\ \A k \in 1 .. n : new[k] \in Link
    BY <1>1, <2>1, <2>2
  <2>4. new \in Seq(Link)
    BY <2>3, IsASeq
  <2> QED
    BY <2>1, <2>2, <2>3, <2>4, LenProperties
<1>3. \A k \in DOMAIN links :
          /\ links'[k].kind = links[k].kind /\ links'[k].of = links[k].of /\ links'[k].to = links[k].to
          /\ links'[k].revision = links[k].revision
          /\ IF k \in S THEN links'[k].state = state ELSE links'[k] = links[k]
  BY <1>1 DEF Link
<1> QED
  BY <1>2, <1>3 DEF LinksFewer

\* Logging out keeps the invariant.
LEMMA LogoutStep ==
    ASSUME RegInv, NEW x \in Browsers, dashboard_logout(x)
    PROVE  RegInv'
<1>1. session[x] \in Profiles /\ UNCHANGED <<profile, coverage, found>>
      /\ links' = SetLinks({"dashboard"}, session[x], {"live"}, "revoked")
      /\ session' \in [Browsers -> Profiles \cup {SignedOut}]
  BY DEF dashboard_logout, revoke_dashboard_access_tokens, RegInv, RegTypeOK
<1> DEFINE S == {k \in DOMAIN links : links[k].of = session[x] /\ links[k].kind \in {"dashboard"}
                                          /\ links[k].state \in {"live"}}
<1>2. links' = [k \in DOMAIN links |-> IF k \in S THEN [links[k] EXCEPT !.state = "revoked"] ELSE links[k]]
  BY <1>1 DEF SetLinks
<1>3. \A k \in S : links[k].kind = "dashboard"
  OBVIOUS
<1>4. S \in SUBSET DOMAIN links
  OBVIOUS
<1> HIDE DEF S
<1>5. LinksFewer(links') /\ \A k \in DOMAIN links : links[k].kind = "verification" => links'[k] = links[k]
  BY <1>2, <1>3, <1>4, LinksRewritten
<1> QED
  BY <1>1, <1>5, UntouchedProfiles, LinksGoStep DEF RegInv, RegTypeOK

\* A deleted profile takes all its links along.
LEMMA DeletionStep ==
    ASSUME RegInv, NEW k \in DOMAIN links, unsubscribe_token(k)
    PROVE  RegInv'
<1> DEFINE of == links[k].of
<1>1. /\ links[k] \in Link /\ of \in Profiles \cup CoverageIds /\ UNCHANGED <<found, session>>
      /\ links' = SetLinks(Kinds, of, {"live", "used", "expired", "revoked"}, "gone")
      /\ IF of \in CoverageIds
         THEN coverage' = [coverage EXCEPT ![of] = Absent] /\ UNCHANGED profile
         ELSE profile' = [profile EXCEPT ![of] = Absent] /\ UNCHANGED coverage
  BY LinksOfNobody DEF unsubscribe_token, confirm_profile_deletion, Cascade, Link
<1> DEFINE S == {j \in DOMAIN links : links[j].of = of /\ links[j].state \in {"live", "used", "expired", "revoked"}}
<1>2. /\ LinksFewer(links')
      /\ \A j \in DOMAIN links : /\ links[j].of # of => links'[j] = links[j]
                                 /\ links[j].of = of => links'[j].state = "gone"
  <2>1. \A j \in DOMAIN links : links[j].kind \in Kinds
                                /\ links[j].state \in {"live", "used", "expired", "revoked", "gone"}
    BY LinksOfNobody DEF Link
  <2>2. links' = [j \in DOMAIN links |-> IF j \in S THEN [links[j] EXCEPT !.state = "gone"] ELSE links[j]]
    BY <1>1, <2>1 DEF SetLinks
  <2>3. S \in SUBSET DOMAIN links
    OBVIOUS
  <2> HIDE DEF S
  <2>4. LinksFewer(links') /\ \A j \in DOMAIN links : IF j \in S THEN links'[j].state = "gone" ELSE links'[j] = links[j]
    BY <2>2, <2>3, LinksRewritten
  <2> QED
    BY <2>1, <2>4 DEF S
<1>3. /\ profile' \in [Profiles -> Profile \cup {Absent}] /\ coverage' \in [CoverageIds -> Coverage \cup {Absent}]
      /\ \A b \in Profiles : profile'[b] = profile[b] \/ (b = of /\ profile'[b] = Absent)
      /\ of \in Profiles => profile'[of] = Absent
  BY <1>1, RegistrationAssumption DEF RegInv, RegTypeOK
<1>4. \A b \in Profiles : profile'[b] = Absent \/ (Exists(b) /\ SameRow(b))
  BY <1>3 DEF Exists, SameRow
<1>5. \A j \in DOMAIN links : links[j].kind = "verification" =>
          /\ links'[j].state = "live" => profile'[links[j].of] # Absent
          /\ links[j].state = "used" => links'[j].state = "used" \/ profile'[links[j].of] = Absent
  BY <1>2, <1>3 DEF RegInv, LinksOfProfiles, LiveLinksVerify, Exists, LinksFewer
<1>6. \A b \in Profiles : profile'[b] # Absent /\ profile'[b].verified => profile[b].verified
  BY <1>3
<1>7. session' \in [Browsers -> Profiles \cup {SignedOut}] /\ found' \in SUBSET [kind : Kinds, of : Profiles, to : Mailboxes]
  BY <1>1 DEF RegInv, RegTypeOK
<1> QED
  BY <1>2, <1>3, <1>4, <1>5, <1>6, <1>7, LinksGoStep

\* The ageing of a profile keeps the invariant.
LEMMA AgeStep ==
    ASSUME RegInv, NEW b \in Profiles, AgeProfile(b)
    PROVE  RegInv'
<1>1. /\ profile[b] \in Profile /\ Exists(b) /\ profile' = [profile EXCEPT ![b].aged = TRUE]
      /\ UNCHANGED <<coverage, links, found, session>>
  BY DEF AgeProfile, Exists, RegInv, RegTypeOK
<1>2. /\ [profile[b] EXCEPT !.aged = TRUE] \in Profile /\ [profile[b] EXCEPT !.aged = TRUE].mail = profile[b].mail
      /\ [profile[b] EXCEPT !.aged = TRUE].revision = profile[b].revision
      /\ [profile[b] EXCEPT !.aged = TRUE].verified = profile[b].verified
  BY <1>1 DEF Profile
<1>3. /\ profile' \in [Profiles -> Profile \cup {Absent}]
      /\ \A p \in Profiles : /\ profile'[p] = Absent \/ (Exists(p) /\ SameRow(p))
                             /\ Exists(p) => profile'[p] # Absent /\ profile'[p].verified = profile[p].verified
  BY <1>1, <1>2, AbsentAssumption DEF RegInv, RegTypeOK, SameRow, Exists
<1>4. LinksFewer(links')
  BY <1>1, LinksOfNobody DEF LinksFewer, RegInv, RegTypeOK
<1>5. \A j \in DOMAIN links : links[j].kind = "verification" /\ links'[j].state = "live" => profile'[links[j].of] # Absent
  BY <1>1, <1>3 DEF RegInv, LinksOfProfiles, LiveLinksVerify
<1>6. \A p \in Profiles : profile'[p] # Absent /\ profile'[p].verified => profile[p].verified
  BY <1>1, <1>3 DEF RegInv, RegTypeOK, Exists
<1> QED
  BY <1>1, <1>3, <1>4, <1>5, <1>6, LinksGoStep DEF RegInv, RegTypeOK

\* What nobody confirmed in time goes with all its links.
LEMMA CleanupStep ==
    ASSUME RegInv, cleanup_expired_interest
    PROVE  RegInv'
<1> DEFINE b == {p \in Profiles : Expired(p)}
           dead == b \cup ExpiredCoverage
<1>1. /\ profile' = [p \in Profiles |-> IF p \in b THEN Absent ELSE profile[p]]
      /\ coverage' = [r \in CoverageIds |-> IF r \in ExpiredCoverage THEN Absent ELSE coverage[r]]
      /\ links' = [k \in DOMAIN links |-> IF links[k].of \in dead
                         THEN [links[k] EXCEPT !.state = "gone"] ELSE links[k]]
      /\ UNCHANGED <<found, session>>
  BY DEF cleanup_expired_interest
<1> DEFINE S == {k \in DOMAIN links : links[k].of \in dead}
<1>2. \A k \in DOMAIN links : links[k].kind # "unsubscribe" => (k \in S <=> links[k].of \in b)
  BY RegistrationAssumption DEF RegInv, LinksOfProfiles, ExpiredCoverage
<1>3. links' = [k \in DOMAIN links |-> IF k \in S THEN [links[k] EXCEPT !.state = "gone"] ELSE links[k]]
      /\ S \in SUBSET DOMAIN links
  BY <1>1
<1> HIDE DEF b, dead, S
<1>4. LinksFewer(links') /\ \A k \in DOMAIN links : IF k \in S THEN links'[k].state = "gone" ELSE links'[k] = links[k]
  BY <1>3, LinksRewritten
<1>6. /\ profile' \in [Profiles -> Profile \cup {Absent}] /\ coverage' \in [CoverageIds -> Coverage \cup {Absent}]
      /\ \A p \in Profiles : IF p \in b THEN profile'[p] = Absent ELSE profile'[p] = profile[p]
  BY <1>1 DEF RegInv, RegTypeOK
<1>7. \A p \in Profiles : profile'[p] = Absent \/ (Exists(p) /\ SameRow(p))
  BY <1>6 DEF Exists, SameRow
<1>8. \A k \in DOMAIN links : links[k].kind = "verification" =>
          /\ links'[k].state = "live" => profile'[links[k].of] # Absent
          /\ links[k].state = "used" => links'[k].state = "used" \/ profile'[links[k].of] = Absent
  BY <1>2, <1>4, <1>6 DEF RegInv, LinksOfProfiles, LiveLinksVerify, Exists
<1>9. \A p \in Profiles : profile'[p] # Absent /\ profile'[p].verified => profile[p].verified
  BY <1>6
<1> QED
  BY <1>1, <1>4, <1>6, <1>7, <1>8, <1>9, LinksGoStep DEF RegInv, RegTypeOK

-----------------------------------------------------------------------------

\* Only links that do not verify are waited for.
FoundInv == found \subseteq [kind : {"unsubscribe", "dashboard"}, of : Profiles, to : Mailboxes]

\* Every step keeps what a request found in the rows.
LEMMA FoundStep == FoundInv /\ [RegNext]_regVars => FoundInv'
<1> SUFFICES ASSUME FoundInv, [RegNext]_regVars
             PROVE  FoundInv'
  OBVIOUS
<1>1. CASE UNCHANGED found
  BY <1>1 DEF FoundInv
<1>2. ASSUME NEW m \in Mailboxes, unsubscribe_page(m) \/ dashboard_access_request(m)
      PROVE  FoundInv'
  BY <1>2 DEF unsubscribe_page, dashboard_access_request, get_building_by_email, FoundInv
<1>3. ASSUME NEW f \in found, IssueLink(f)
      PROVE  FoundInv'
  BY <1>3 DEF IssueLink, FoundInv
<1> QED
  BY <1>1, <1>2, <1>3
  DEF RegNext, regVars, register, save_building, submit, save_coverage_request, verify_coverage_request,
      create_coverage_deletion_tokens, AgeCoverage, confirm_building_interest, unsubscribe_token,
      confirm_profile_deletion, dashboard_access_exchange, ExpireLink, dashboard_logout, AgeProfile,
      cleanup_expired_interest

\* The inductive invariant holds before the first registration.
LEMMA RegInvInit == RegInit => RegInv /\ FoundInv
<1> SUFFICES ASSUME RegInit
             PROVE  RegInv /\ FoundInv
  OBVIOUS
<1>1. links \in Seq(Link) /\ Len(links) = 0 /\ DOMAIN links = {}
  BY EmptySeq DEF RegInit
<1> QED
  BY <1>1, RegistrationAssumption DEF RegInit, RegInv, RegTypeOK, LinksOfProfiles, LiveLinksVerify,
     VerifiedByItsMailbox, Exists, FoundInv

\* Every step keeps the inductive invariant.
LEMMA RegInvStep == RegInv /\ FoundInv /\ [RegNext]_regVars => RegInv'
<1> SUFFICES ASSUME RegInv, FoundInv, [RegNext]_regVars
             PROVE  RegInv'
  OBVIOUS
<1>1. CASE UNCHANGED regVars
  BY <1>1, LinksStayStep DEF regVars, RegInv, RegTypeOK
<1>2. ASSUME NEW r \in CoverageIds,
             \/ \E m \in Mailboxes : submit(r, m)
             \/ verify_coverage_request(r) \/ create_coverage_deletion_tokens(r) \/ AgeCoverage(r)
      PROVE  RegInv'
  BY <1>2, CoverageStep, CoverageLinkStep
<1>3. ASSUME NEW k \in DOMAIN links,
             \/ confirm_building_interest(k) \/ unsubscribe_token(k) \/ ExpireLink(k)
             \/ \E x \in Browsers : dashboard_access_exchange(k, x)
      PROVE  RegInv'
  BY <1>3, ConfirmInterestStep, DeletionStep, LinkStep
<1>4. ASSUME NEW b \in Profiles, AgeProfile(b) \/ \E m \in Mailboxes : register(b, m)
      PROVE  RegInv'
  BY <1>4, AgeStep, SaveBuildingStep DEF register
<1>5. ASSUME NEW m \in Mailboxes, unsubscribe_page(m) \/ dashboard_access_request(m)
      PROVE  RegInv'
  BY <1>5, LookupStep
<1>6. ASSUME NEW f \in found, IssueLink(f)
      PROVE  RegInv'
  BY <1>6, IssueStep DEF FoundInv
<1>7. ASSUME NEW x \in Browsers, dashboard_logout(x)
      PROVE  RegInv'
  BY <1>7, LogoutStep
<1>8. CASE cleanup_expired_interest
  BY <1>8, CleanupStep
<1> QED
  BY <1>1, <1>2, <1>3, <1>4, <1>5, <1>6, <1>7, <1>8 DEF RegNext

\* A verified profile was confirmed with a link mailed to the mailbox it names,
\* for any number of profiles, mailboxes and links
\* (Registration!VerifiedByItsMailbox).
THEOREM VerifiedByItsMailboxHolds == RegSpec => []VerifiedByItsMailbox
<1>1. RegInv => VerifiedByItsMailbox
  BY DEF RegInv
<1> QED
  BY <1>1, RegInvInit, RegInvStep, FoundStep, PTL DEF RegSpec

-----------------------------------------------------------------------------
(* The LEG.  The three properties of its formation are not inductive.  They *)
(* rest on this: a receipt names the bundle that was read, there is at most *)
(* one case and its bundle stays signed, a request past its claim works on  *)
(* that case, and what the grid operator received is the bundle of that     *)
(* case.  Of the changes reported afterwards: a request past its claim      *)
(* carries the facts its case records.                                      *)

\* A case, and a submission under way.
Results == {"prepared", "delivered", "acknowledged", "rejected", "lost", "refused"}
\* A row of leg_registration_cases.
CaseRow == [bundle : Nat, adapter : Adapters, state : CaseState, retryable : BOOLEAN]
\* A request on its way to the adapter.
Sending == [at : {"idle", "checked", "claimed", "answered"}, bundle : Nat \cup {None},
            adapter : Adapters \cup {None},
            result : Results \cup {None}]

\* The shapes FormTypeOK leaves open.
FormShape ==
    /\ receipts \subseteq [of : Nat \X SUBSET Households, by : Households, read : Nat]
    /\ reviewed \in [Households -> [bundle : Nat, signers : SUBSET Households] \cup {None}]
    /\ cases \in Seq(CaseRow)
    /\ sending \in [Submitters -> Sending]
    /\ \A q \in Submitters : sending[q].at # "idle" =>
           sending[q].bundle \in DOMAIN bundles /\ sending[q].adapter \in Adapters
    /\ \A q \in Submitters : sending[q].at = "answered" => sending[q].result \in Results

\* A receipt is for the bundle its signer read.
ReceiptsNameTheRead == \A r \in receipts : r.of[1] = r.read

\* The one case is for a signed bundle.
OneCase ==
    /\ Len(cases) <= 1
    /\ \A k \in DOMAIN cases : bundles[cases[k].bundle].signing = "completed"

\* A request past its claim works on the case, and an answer of the grid
\* operator is about a bundle it received.
ClaimedIsTheCase == \A q \in Submitters :
    /\ sending[q].at \in {"claimed", "answered"} =>
           \E k \in DOMAIN cases : cases[k].bundle = sending[q].bundle
    /\ sending[q].at = "answered" /\ sending[q].result \in {"delivered", "acknowledged", "rejected"} =>
           sending[q].bundle \in received

\* What an adapter received is the bundle of a case.
ReceivedIsTheCase == \A b \in received : \E k \in DOMAIN cases : cases[k].bundle = b

\* The inductive invariant behind BundlesHold and StartIsEarned.
FormInv ==
    /\ FormTypeOK
    /\ FormShape
    /\ ReceiptsNameTheRead
    /\ SignedByItsReaders
    /\ OneCase
    /\ ClaimedIsTheCase
    /\ ReceivedIsTheCase
    /\ StartIsEarned

-----------------------------------------------------------------------------
(* Members and their profiles.                                             *)

\* Nobody named by a bundle is somebody else than a household.
LEMMA NamesAreHouseholds ==
    ASSUME FormInv, NEW b \in DOMAIN bundles
    PROVE  Names(bundles[b].manifest) \subseteq Households
<1>1. bundles[b] \in Bundle
  BY ElementOfSeq, LenProperties DEF FormInv, FormTypeOK
<1> QED
  BY <1>1 DEF Bundle, Person, Names

\* A membership that begins or is confirmed changes no document.
LEMMA MemberStep ==
    ASSUME FormInv, NEW h \in Households, insert_invited_member(h) \/ confirm_invited_member(h)
    PROVE  FormInv'
<1>1. /\ member' \in [Households -> {"none", "invited", "confirmed", "left"}]
      /\ \A g \in Households : member[g] = "left" => member'[g] = "left"
  BY DEF insert_invited_member, confirm_invited_member, FormInv, FormTypeOK
<1>2. UNCHANGED <<status, facts, consent, bundles, receipts, drafting, reviewed, caseVars, startVars>>
  BY DEF insert_invited_member, confirm_invited_member
<1>3. SignedByItsReaders'
  BY <1>1, <1>2, NamesAreHouseholds DEF FormInv, SignedByItsReaders
<1> QED
  BY <1>1, <1>2, <1>3 DEF FormInv, FormTypeOK, FormShape, ReceiptsNameTheRead, OneCase, ClaimedIsTheCase,
     ReceivedIsTheCase, StartIsEarned, caseVars, startVars

\* A changed profile changes no document; a deleted one takes its receipts
\* along and is owed none.
LEMMA ProfileStep ==
    ASSUME FormInv, NEW h \in Households, ChangeProfile(h) \/ DeleteProfile(h)
    PROVE  FormInv'
<1>1. UNCHANGED <<status, bundles, drafting, caseVars, confirmation>> /\ changes' \in 0..MaxChanges
  BY FormationAssumption DEF ChangeProfile, DeleteProfile, FormInv, FormTypeOK
<1>2. /\ member' \in [Households -> {"none", "invited", "confirmed", "left"}]
      /\ facts' \in [Households -> Facts] /\ consent' \in [Households -> BOOLEAN]
      /\ reviewed' \in [Households -> [bundle : Nat, signers : SUBSET Households] \cup {None}]
      /\ \A g \in Households : reviewed'[g] = reviewed[g] \/ reviewed'[g] = None
      /\ receipts' \subseteq receipts
  BY DEF ChangeProfile, DeleteProfile, FormInv, FormTypeOK, FormShape
<1>3. \A g \in Households : member'[g] # "left" =>
          member[g] # "left" /\ \A r \in receipts : r.by = g => r \in receipts'
  BY DEF ChangeProfile, DeleteProfile, FormInv, FormTypeOK
<1>4. SignedByItsReaders'
  <2> SUFFICES ASSUME NEW b \in DOMAIN bundles, bundles[b].signing \in {"completed", "superseded"},
                      NEW g \in Names(bundles[b].manifest), member'[g] # "left"
               PROVE  \E r \in receipts' : r.by = g /\ r.read = b
    BY <1>1 DEF SignedByItsReaders
  <2>1. g \in Households
    BY NamesAreHouseholds
  <2> QED
    BY <1>3, <2>1 DEF FormInv, SignedByItsReaders
<1>5. FormTypeOK'
  BY <1>1, <1>2 DEF FormInv, FormTypeOK, caseVars
<1>6. FormShape' /\ ReceiptsNameTheRead'
  BY <1>1, <1>2 DEF FormInv, FormShape, ReceiptsNameTheRead, caseVars
<1> QED
  BY <1>1, <1>4, <1>5, <1>6 DEF FormInv, OneCase, ClaimedIsTheCase, ReceivedIsTheCase, StartIsEarned, caseVars

\* Reading changes what a generation or a signer has seen.
LEMMA ReadingStep ==
    ASSUME FormInv, ReadParticipants \/ \E h \in Households : formation_signature_bundle(h)
    PROVE  FormInv'
<1>1. UNCHANGED <<status, member, facts, consent, bundles, receipts, caseVars, startVars>>
  BY DEF ReadParticipants, formation_signature_bundle
<1>2. participant_manifest \in SUBSET Person /\ Names(participant_manifest) \subseteq Households
  BY DEF participant_manifest, Person, Names, FormInv, FormTypeOK
<1>3. drafting' \in (SUBSET Person) \cup {None}
  BY <1>2 DEF ReadParticipants, formation_signature_bundle, FormInv, FormTypeOK
<1>4. /\ reviewed' \in [Households -> [bundle : Nat, signers : SUBSET Households] \cup {None}]
      /\ \A h \in Households : reviewed'[h] = None \/ reviewed'[h].bundle \in DOMAIN bundles
  <2>1. CASE ReadParticipants
    BY <2>1 DEF ReadParticipants, FormInv, FormTypeOK, FormShape
  <2>2. ASSUME NEW h \in Households, NEW b \in Live,
               reviewed' = [reviewed EXCEPT ![h] = [bundle |-> b, signers |-> Names(participant_manifest)]]
        PROVE  <1>4!1 /\ <1>4!2
    <3>1. b \in DOMAIN bundles /\ b \in Nat
      BY LenProperties DEF Live, FormInv, FormTypeOK
    <3> QED
      BY <1>2, <2>2, <3>1 DEF FormInv, FormTypeOK, FormShape
  <2> QED
    BY <2>1, <2>2 DEF formation_signature_bundle
<1>5. FormTypeOK' /\ FormShape'
  BY <1>1, <1>3, <1>4 DEF FormInv, FormTypeOK, FormShape, caseVars, startVars
<1> QED
  BY <1>1, <1>5 DEF FormInv, ReceiptsNameTheRead, SignedByItsReaders, OneCase, ClaimedIsTheCase,
     ReceivedIsTheCase, StartIsEarned, caseVars, startVars

-----------------------------------------------------------------------------
(* Documents.                                                              *)

\* A signed bundle only gives way while nothing was submitted, and remains
\* known as signed.
LEMMA ReplaceStep ==
    ASSUME FormInv, replace_leg_document_bundle
    PROVE  FormInv'
<1>1. UNCHANGED <<member, facts, consent, receipts, reviewed, caseVars, startVars>> /\ drafting' = None
  BY DEF replace_leg_document_bundle
<1>2. CASE UNCHANGED <<bundles, status>>
  BY <1>1, <1>2 DEF FormInv, FormTypeOK, FormShape, ReceiptsNameTheRead, SignedByItsReaders, OneCase,
     ClaimedIsTheCase, ReceivedIsTheCase, StartIsEarned, caseVars, startVars
<1>3. CASE /\ \A b \in Live : bundles[b].signing = "completed" => Supersedable(b, drafting)
           /\ bundles' = Append(
                   [b \in DOMAIN bundles |->
                       IF b \notin Live THEN bundles[b]
                       ELSE [bundles[b] EXCEPT !.signing =
                               IF @ = "completed" THEN "superseded" ELSE "deleted"]],
                   [manifest |-> drafting, signing |-> "unsigned"])
           /\ status' = "documents_generated"
  <2> DEFINE old == [b \in DOMAIN bundles |->
                       IF b \notin Live THEN bundles[b]
                       ELSE [bundles[b] EXCEPT !.signing =
                               IF @ = "completed" THEN "superseded" ELSE "deleted"]]
             new == [manifest |-> drafting, signing |-> "unsigned"]
  <2>1. \A b \in DOMAIN bundles :
           /\ bundles[b] \in Bundle
           /\ old[b] \in Bundle /\ old[b].manifest = bundles[b].manifest
           /\ b \in Live => old[b].signing = (IF bundles[b].signing = "completed" THEN "superseded" ELSE "deleted")
           /\ b \notin Live => old[b] = bundles[b]
    <3>1. \A b \in DOMAIN bundles : bundles[b] \in Bundle
      BY ElementOfSeq, LenProperties DEF FormInv, FormTypeOK
    <3> QED
      BY <3>1 DEF Bundle
  <2>2. new \in Bundle
    BY DEF FormInv, FormTypeOK, Bundle, replace_leg_document_bundle
  <2>3. old \in Seq(Bundle) /\ Len(old) = Len(bundles)
    BY <2>1, IsASeq, LenProperties DEF FormInv, FormTypeOK
  <2> HIDE DEF old, new
  <2>4. /\ bundles' \in Seq(Bundle) /\ Len(bundles') = Len(bundles) + 1
        /\ \A b \in DOMAIN bundles : b \in DOMAIN bundles' /\ bundles'[b] = old[b]
        /\ \A b \in DOMAIN bundles' : b \in DOMAIN bundles \/ bundles'[b] = new
    <3>1. bundles' = Append(old, new)
      BY <1>3 DEF old, new
    <3> QED
      BY <2>2, <2>3, <3>1, AppendProperties, LenProperties DEF FormInv, FormTypeOK
  <2>5. FormTypeOK'
    <3>1. Len(bundles') <= MaxBundles
      BY <2>4, FormationAssumption, LenProperties DEF replace_leg_document_bundle, FormInv, FormTypeOK
    <3>2. status' \in FormationStatus
      BY <1>3 DEF FormationStatus
    <3> QED
      BY <1>1, <2>4, <3>1, <3>2 DEF FormInv, FormTypeOK, caseVars, startVars
  <2>6. SignedByItsReaders'
    BY <1>1, <2>1, <2>4 DEF FormInv, SignedByItsReaders, new, Live
  <2>7. OneCase'
    <3>1. \A k \in DOMAIN cases : cases[k].bundle \in DOMAIN bundles
      BY DEF FormInv, FormTypeOK
    <3>2. cases # << >> => 1 \in DOMAIN cases
      BY LenProperties, EmptySeq DEF FormInv, FormShape
    <3>3. \A k \in DOMAIN cases : cases[k].bundle \in Live /\ bundles[cases[k].bundle].signing = "completed"
      BY <3>1 DEF FormInv, OneCase, Live
    <3>4. cases = << >>
      BY <1>3, <3>2, <3>3 DEF Supersedable
    <3> QED
      BY <1>1, <3>4 DEF OneCase, caseVars
  <2> QED
    BY <1>1, <1>3, <2>4, <2>5, <2>6, <2>7 DEF FormInv, FormShape, ReceiptsNameTheRead, ClaimedIsTheCase,
       ReceivedIsTheCase, StartIsEarned, caseVars, startVars
<1> QED
  BY <1>2, <1>3 DEF replace_leg_document_bundle

\* The last receipt completes the bundle all its signers have read.
LEMMA SignStep ==
    ASSUME FormInv, NEW h \in Households, record_formation_signature(h)
    PROVE  FormInv'
<1> DEFINE signers == Names(participant_manifest)
<1>1. PICK b \in Live :
        /\ reviewed[h] # None
        /\ locked_signature_bundle(h, b)
        /\ bundle_fingerprint(reviewed[h].bundle, reviewed[h].signers) = bundle_fingerprint(b, signers)
        /\ receipts' = IF h \in SignedBy(b, signers) THEN receipts
                       ELSE receipts \cup {[of |-> bundle_fingerprint(b, signers), by |-> h,
                                            read |-> reviewed[h].bundle]}
        /\ reviewed' = [reviewed EXCEPT ![h] = None]
        /\ IF SignedBy(b, signers) \cup {h} = signers
           THEN /\ bundles' = [bundles EXCEPT ![b].signing = "completed"]
                /\ status' = "signatures_pending"
           ELSE UNCHANGED <<bundles, status>>
        /\ UNCHANGED <<member, facts, consent, drafting, caseVars, startVars>>
  BY DEF record_formation_signature
<1> HIDE DEF signers
<1>2. /\ b \in DOMAIN bundles /\ b \in Nat /\ bundles[b] \in Bundle
      /\ bundles[b].signing \in {"unsigned", "completed"}
      /\ reviewed[h].bundle = b /\ signers \subseteq Households /\ Names(bundles[b].manifest) = signers
  <2>1. b \in DOMAIN bundles /\ b \in Nat /\ bundles[b] \in Bundle
    BY ElementOfSeq, LenProperties DEF Live, FormInv, FormTypeOK
  <2>2. signers \subseteq Households
    BY DEF signers, participant_manifest, Names, FormInv, FormTypeOK
  <2> QED
    BY <1>1, <2>1, <2>2 DEF Live, bundle_fingerprint, locked_signature_bundle, signers
<1>3. /\ receipts' \subseteq [of : Nat \X SUBSET Households, by : Households, read : Nat]
      /\ \A r \in receipts' : r.read \in DOMAIN bundles /\ r.of[1] = r.read
      /\ receipts \subseteq receipts' /\ reviewed' \in [Households -> [bundle : Nat, signers : SUBSET Households] \cup {None}]
      /\ \A g \in Households : reviewed'[g] = reviewed[g] \/ reviewed'[g] = None
      /\ \A g \in SignedBy(b, signers) \cup {h} : \E r \in receipts' : r.by = g /\ r.read = b
  <2> DEFINE mine == [of |-> bundle_fingerprint(b, signers), by |-> h, read |-> reviewed[h].bundle]
  <2>1. /\ mine \in [of : Nat \X SUBSET Households, by : Households, read : Nat]
        /\ mine.of[1] = b /\ mine.read = b /\ mine.by = h
    BY <1>1, <1>2 DEF bundle_fingerprint
  <2>2. receipts' \subseteq receipts \cup {mine} /\ (h \in SignedBy(b, signers) \/ mine \in receipts')
        /\ receipts \subseteq receipts'
    BY <1>1
  <2> HIDE DEF mine
  <2>3. \A g \in SignedBy(b, signers) : \E r \in receipts : r.by = g /\ r.read = b
    BY DEF SignedBy, bundle_fingerprint, FormInv, ReceiptsNameTheRead
  <2>4. reviewed' \in [Households -> [bundle : Nat, signers : SUBSET Households] \cup {None}]
        /\ \A g \in Households : reviewed'[g] = reviewed[g] \/ reviewed'[g] = None
    BY <1>1 DEF FormInv, FormShape
  <2> QED
    BY <1>2, <2>1, <2>2, <2>3, <2>4 DEF FormInv, FormTypeOK, FormShape, ReceiptsNameTheRead
<1>4. /\ bundles' \in Seq(Bundle) /\ Len(bundles') = Len(bundles) /\ DOMAIN bundles' = DOMAIN bundles
      /\ status' \in {status, "signatures_pending"}
      /\ \A c \in DOMAIN bundles :
             /\ bundles'[c].manifest = bundles[c].manifest
             /\ \/ bundles'[c].signing = bundles[c].signing
                \/ /\ c = b /\ bundles'[c].signing = "completed"
                   /\ SignedBy(b, signers) \cup {h} = signers
  <2>1. CASE SignedBy(b, signers) \cup {h} = signers
    <3>1. [bundles[b] EXCEPT !.signing = "completed"] \in Bundle
      BY <1>2 DEF Bundle
    <3>2. bundles' = [bundles EXCEPT ![b] = [bundles[b] EXCEPT !.signing = "completed"]]
      BY <1>1, <2>1
    <3>3. bundles' \in Seq(Bundle) /\ Len(bundles') = Len(bundles) /\ DOMAIN bundles' = DOMAIN bundles
      BY <1>2, <3>1, <3>2, ExceptSeq, LenProperties DEF FormInv, FormTypeOK
    <3> QED
      BY <1>1, <1>2, <2>1, <3>2, <3>3
  <2> QED
    BY <1>1, <2>1 DEF FormInv, FormTypeOK
<1>5. FormTypeOK'
  BY <1>1, <1>3, <1>4 DEF FormInv, FormTypeOK, FormShape, FormationStatus, caseVars, startVars
<1>6. FormShape' /\ ReceiptsNameTheRead'
  BY <1>1, <1>3 DEF FormInv, FormShape, ReceiptsNameTheRead, caseVars
<1>7. SignedByItsReaders'
  <2> SUFFICES ASSUME NEW c \in DOMAIN bundles, bundles'[c].signing \in {"completed", "superseded"},
                      NEW g \in Names(bundles[c].manifest), member[g] # "left"
               PROVE  \E r \in receipts' : r.by = g /\ r.read = c
    BY <1>1, <1>4 DEF SignedByItsReaders, Names
  <2>1. CASE bundles'[c].signing = bundles[c].signing
    BY <1>3, <2>1 DEF FormInv, SignedByItsReaders
  <2>2. CASE c = b /\ SignedBy(b, signers) \cup {h} = signers
    BY <1>2, <1>3, <2>2
  <2> QED
    BY <1>4, <2>1, <2>2
<1>8. OneCase' /\ ClaimedIsTheCase' /\ ReceivedIsTheCase' /\ StartIsEarned'
  BY <1>1, <1>4 DEF FormInv, FormTypeOK, OneCase, ClaimedIsTheCase, ReceivedIsTheCase, StartIsEarned, caseVars, startVars
<1> QED
  BY <1>5, <1>6, <1>7, <1>8 DEF FormInv

-----------------------------------------------------------------------------
(* Submission.                                                             *)

\* The check before a registration keeps the invariant.
LEMMA CheckStep ==
    ASSUME FormInv, NEW q \in Submitters, NEW a \in Managers, CheckSubmission(q, a)
    PROVE  FormInv'
<1>1. PICK b \in Live, x \in Adapters :
        sending' = [sending EXCEPT ![q] = [at |-> "checked", bundle |-> b, adapter |-> x, result |-> None]]
  BY DEF CheckSubmission
<1>2. b \in Nat /\ b \in DOMAIN bundles
  BY LenProperties DEF Live, FormInv, FormTypeOK
<1>3. UNCHANGED <<status, signVars, cases, received, startVars>>
  BY DEF CheckSubmission
<1> QED
  BY <1>1, <1>2, <1>3 DEF FormInv, FormTypeOK, FormShape, ReceiptsNameTheRead, SignedByItsReaders, OneCase,
     ClaimedIsTheCase, ReceivedIsTheCase, StartIsEarned, Sending, signVars, startVars

\* What a request knows of its submission changes, the tables do not.
LEMMA SenderWritten ==
    ASSUME FormInv, NEW q \in Submitters, NEW s \in Sending,
           sending' = [sending EXCEPT ![q] = s],
           s.at # "idle" => s.bundle \in DOMAIN bundles /\ s.adapter \in Adapters,
           s.at = "answered" => s.result \in Results,
           s.at \in {"claimed", "answered"} => \E k \in DOMAIN cases : cases[k].bundle = s.bundle,
           received' = received \/ (received' = received \cup {s.bundle} /\ s.at = "answered"),
           s.at = "answered" /\ s.result \in {"delivered", "acknowledged", "rejected"} => s.bundle \in received',
           UNCHANGED <<status, signVars, cases, startVars>>
    PROVE  FormInv'
<1>1. ReceivedIsTheCase'
  BY DEF FormInv, ReceivedIsTheCase
<1>2. FormTypeOK'
  BY DEF FormInv, FormTypeOK, FormShape, Sending, signVars, startVars
<1>3. FormShape' /\ ReceiptsNameTheRead' /\ SignedByItsReaders' /\ OneCase'
  BY DEF FormInv, FormShape, ReceiptsNameTheRead, SignedByItsReaders, OneCase, signVars
<1>4. ClaimedIsTheCase'
  BY DEF FormInv, FormShape, ClaimedIsTheCase
<1>5. StartIsEarned'
  BY DEF FormInv, StartIsEarned, startVars
<1> QED
  BY <1>1, <1>2, <1>3, <1>4, <1>5 DEF FormInv

\* The registration itself keeps the invariant.
LEMMA SendStep ==
    ASSUME FormInv, NEW q \in Submitters, SendPackage(q) \/ SubmitterDies(q)
    PROVE  FormInv'
<1>1. sending[q] \in Sending
  BY DEF FormInv, FormShape
<1>2. CASE SubmitterDies(q)
  <2>1. sending' = [sending EXCEPT ![q] = NotSubmitting] /\ UNCHANGED <<status, signVars, cases, received, startVars>>
    BY <1>2 DEF SubmitterDies
  <2>2. NotSubmitting.at = "idle" /\ NotSubmitting \in Sending
    BY DEF NotSubmitting, Sending
  <2> QED
    BY <2>1, <2>2, SenderWritten
<1>3. CASE SendPackage(q)
  <2>1. sending[q].at = "claimed" /\ \E k \in DOMAIN cases : cases[k].bundle = sending[q].bundle
    BY <1>3 DEF SendPackage, FormInv, ClaimedIsTheCase
  <2>2. PICK r \in Results :
          /\ sending' = [sending EXCEPT ![q] = [at |-> "answered", bundle |-> sending[q].bundle,
                                                adapter |-> sending[q].adapter, result |-> r]]
          /\ \/ received' = received /\ r \notin {"delivered", "acknowledged", "rejected"}
             \/ received' = received \cup {sending[q].bundle}
    BY <1>3 DEF SendPackage, Results
  <2> DEFINE s == [at |-> "answered", bundle |-> sending[q].bundle, adapter |-> sending[q].adapter, result |-> r]
  <2>3. sending' = [sending EXCEPT ![q] = s]
    BY <2>2
  <2>4. UNCHANGED <<status, signVars, cases, startVars>>
    BY <1>3 DEF SendPackage
  <2>5. /\ s.at = "answered" /\ s.bundle = sending[q].bundle /\ s.result = r
        /\ s \in Sending /\ s.bundle \in DOMAIN bundles /\ s.adapter \in Adapters
    BY <1>1, <2>1 DEF Sending, FormInv, FormShape
  <2> HIDE DEF s
  <2>6. received' = received \/ (received' = received \cup {s.bundle} /\ s.at = "answered")
    BY <2>2, <2>5
  <2>7. s.result \in {"delivered", "acknowledged", "rejected"} => s.bundle \in received'
    BY <2>2, <2>5
  <2> QED
    BY <2>1, <2>3, <2>4, <2>5, <2>6, <2>7, SenderWritten
<1> QED
  BY <1>2, <1>3

\* A case goes to another state.
CaseChanged(k, state) ==
    /\ cases' \in Seq(CaseRow) /\ Len(cases') = Len(cases) /\ DOMAIN cases' = DOMAIN cases
    /\ \A c \in DOMAIN cases :
           /\ cases'[c].bundle = cases[c].bundle
           /\ c # k => cases'[c] = cases[c]
    /\ cases'[k].state = state

\* Steps that leave the cases alone keep what is said of them.
LEMMA CaseKept ==
    ASSUME FormInv, NEW k \in DOMAIN cases, NEW state \in CaseState,
           cases' = [cases EXCEPT ![k].state = state]
    PROVE  CaseChanged(k, state)
<1> DEFINE c == [cases[k] EXCEPT !.state = state]
<1>1. cases \in Seq(CaseRow) /\ cases[k] \in CaseRow
  BY ElementOfSeq, LenProperties DEF FormInv, FormShape
<1>2. c \in CaseRow /\ c.bundle = cases[k].bundle /\ c.state = state /\ cases' = [cases EXCEPT ![k] = c]
  BY <1>1 DEF CaseRow
<1> HIDE DEF c
<1>3. cases' \in Seq(CaseRow) /\ Len(cases') = Len(cases) /\ DOMAIN cases' = DOMAIN cases
  BY <1>1, <1>2, ExceptSeq, LenProperties
<1> QED
  BY <1>1, <1>2, <1>3 DEF CaseChanged

\* What the tables need of a step that changes cases and submissions.
LEMMA CasesWritten ==
    ASSUME FormInv, cases' \in Seq(CaseRow), Len(cases') = Len(cases), DOMAIN cases' = DOMAIN cases,
           \A k \in DOMAIN cases : cases'[k].bundle = cases[k].bundle,
           received \subseteq received',
           \A b \in received' \ received : \E k \in DOMAIN cases : cases[k].bundle = b,
           sending' \in [Submitters -> Sending],
           \A q \in Submitters :
               \/ sending'[q].at = "idle"
               \/ sending'[q] = sending[q]
               \/ /\ sending'[q].at = "claimed"
                  /\ sending'[q].bundle \in DOMAIN bundles /\ sending'[q].adapter \in Adapters
                  /\ \E k \in DOMAIN cases : cases[k].bundle = sending'[q].bundle,
           status' \in FormationStatus, StartIsEarned',
           UNCHANGED <<signVars, startVars>>
    PROVE  FormInv'
<1>1. \A k \in DOMAIN cases' : cases'[k] \in CaseRow
  BY ElementOfSeq, LenProperties
<1>2. FormTypeOK'
  BY <1>1 DEF FormInv, FormTypeOK, CaseRow, Sending, signVars, startVars
<1>3. FormShape'
  BY DEF FormInv, FormShape, signVars
<1>4. ReceiptsNameTheRead' /\ SignedByItsReaders' /\ OneCase'
  BY DEF FormInv, ReceiptsNameTheRead, SignedByItsReaders, OneCase, signVars
<1>5. ClaimedIsTheCase'
  BY DEF FormInv, ClaimedIsTheCase
<1>6. ReceivedIsTheCase'
  BY DEF FormInv, ReceivedIsTheCase
<1> QED
  BY <1>2, <1>3, <1>4, <1>5, <1>6 DEF FormInv

\* The first claim makes the one case, of a bundle that is signed; every later
\* one is about it.
LEMMA ClaimStep ==
    ASSUME FormInv, NEW q \in Submitters, claim(q)
    PROVE  FormInv'
<1> DEFINE s == sending[q]
<1>1. /\ s \in Sending /\ s.at = "checked" /\ cases \in Seq(CaseRow)
      /\ UNCHANGED <<status, signVars, received, startVars>>
  BY DEF claim, FormInv, FormShape
<1>2. NotSubmitting \in Sending /\ NotSubmitting.at = "idle"
      /\ [s EXCEPT !.at = "claimed"] \in Sending /\ [s EXCEPT !.at = "claimed"].at = "claimed"
      /\ [s EXCEPT !.at = "claimed"].bundle = s.bundle /\ [s EXCEPT !.at = "claimed"].adapter = s.adapter
      /\ s.bundle \in DOMAIN bundles /\ s.adapter \in Adapters
  BY <1>1 DEF NotSubmitting, Sending, FormInv, FormShape
<1>3. ASSUME sending' = [sending EXCEPT ![q] = NotSubmitting], UNCHANGED cases
      PROVE  FormInv'
  BY <1>1, <1>2, <1>3, SenderWritten
<1>4. ASSUME NEW k \in Cases(s.bundle, s.adapter),
             sending' = [sending EXCEPT ![q] = [s EXCEPT !.at = "claimed"]], UNCHANGED cases
      PROVE  FormInv'
  <2>1. k \in DOMAIN cases /\ cases[k].bundle = s.bundle
    BY DEF Cases
  <2> HIDE DEF s
  <2> QED
    BY <1>1, <1>2, <1>4, <2>1, SenderWritten
<1>5. ASSUME NEW k \in Cases(s.bundle, s.adapter), cases[k].state = "failed",
             sending' = [sending EXCEPT ![q] = [s EXCEPT !.at = "claimed"]],
             cases' = [cases EXCEPT ![k].state = "claimed"]
      PROVE  FormInv'
  <2>1. k \in DOMAIN cases /\ cases[k].bundle = s.bundle
    BY DEF Cases
  <2>2. "claimed" \in CaseState
    BY DEF CaseState
  <2>3. CaseChanged(k, "claimed")
    BY <1>5, <2>1, <2>2, CaseKept
  <2> HIDE DEF s
  <2>4. /\ sending' \in [Submitters -> Sending]
        /\ \A o \in Submitters :
               \/ sending'[o] = sending[o]
               \/ /\ sending'[o].bundle = s.bundle /\ sending'[o].adapter = s.adapter
                  /\ sending'[o].at = "claimed"
    BY <1>2, <1>5 DEF FormInv, FormShape
  <2>5. StartIsEarned'
    BY <1>1, <1>5, <2>1, <2>3 DEF CaseChanged, FormInv, StartIsEarned, startVars
  <2>6. /\ status' \in FormationStatus
        /\ \A o \in Submitters :
               \/ sending'[o] = sending[o]
               \/ /\ sending'[o].at = "claimed"
                  /\ sending'[o].bundle \in DOMAIN bundles /\ sending'[o].adapter \in Adapters
                  /\ \E d \in DOMAIN cases : cases[d].bundle = sending'[o].bundle
    BY <1>1, <1>2, <2>1, <2>4 DEF FormInv, FormTypeOK
  <2>7. received' = received /\ \A c \in DOMAIN cases : cases'[c].bundle = cases[c].bundle
    BY <1>1, <2>3 DEF CaseChanged
  <2>8. UNCHANGED <<signVars, startVars>> /\ cases' \in Seq(CaseRow) /\ Len(cases') = Len(cases)
        /\ DOMAIN cases' = DOMAIN cases
    BY <1>1, <2>3 DEF CaseChanged
  <2> QED
    BY <2>4, <2>5, <2>6, <2>7, <2>8, CasesWritten
<1>6. ASSUME _guard_current_formation_bundle(s.bundle),
             cases' = Append(cases, [bundle |-> s.bundle, adapter |-> s.adapter,
                                     state |-> "claimed", retryable |-> FALSE]),
             sending' = [sending EXCEPT ![q].at = "claimed"]
      PROVE  FormInv'
  <2> DEFINE c == [bundle |-> s.bundle, adapter |-> s.adapter, state |-> "claimed", retryable |-> FALSE]
  <2>1. /\ cases = << >> /\ s.bundle \in DOMAIN bundles /\ s.bundle \in Nat
        /\ bundles[s.bundle].signing = "completed" /\ status = "signatures_pending"
    BY <1>6, LenProperties DEF _guard_current_formation_bundle, Live, FormInv, FormTypeOK
  <2>2. c \in CaseRow /\ c.bundle = s.bundle
    BY <1>2, <2>1 DEF CaseRow, CaseState
  <2>3. cases' = Append(cases, c)
    BY <1>6
  <2> HIDE DEF c
  <2>4. cases' \in Seq(CaseRow) /\ Len(cases') = 1 /\ DOMAIN cases' = {1} /\ cases'[1] = c /\ DOMAIN cases = {}
    BY <1>1, <2>1, <2>2, <2>3
  <2> HIDE DEF s
  <2>5. sending' \in [Submitters -> Sending]
        /\ \A o \in Submitters : sending'[o] = sending[o] \/ (o = q /\ sending'[o] = [s EXCEPT !.at = "claimed"])
    BY <1>2, <1>6 DEF FormInv, FormShape, s
  <2>6. FormTypeOK'
    BY <1>1, <2>1, <2>2, <2>4, <2>5 DEF FormInv, FormTypeOK, CaseRow, Sending, signVars, startVars
  <2>7. FormShape' /\ ReceiptsNameTheRead' /\ SignedByItsReaders'
    BY <1>1, <1>2, <2>4, <2>5 DEF FormInv, FormShape, ReceiptsNameTheRead, SignedByItsReaders, signVars
  <2>8. OneCase' /\ ReceivedIsTheCase' /\ StartIsEarned'
    BY <1>1, <2>1, <2>2, <2>4 DEF FormInv, OneCase, ReceivedIsTheCase, StartIsEarned, signVars, startVars
  <2>9. ClaimedIsTheCase'
    BY <1>1, <1>2, <2>2, <2>4, <2>5 DEF FormInv, ClaimedIsTheCase
  <2> QED
    BY <2>6, <2>7, <2>8, <2>9 DEF FormInv
<1> QED
  BY <1>1, <1>3, <1>4, <1>5, <1>6 DEF claim

\* An answer moves the community along only if the grid operator has the bundle
\* of its case.
LEMMA OutcomeStep ==
    ASSUME FormInv, NEW q \in Submitters, record_outcome(q)
    PROVE  FormInv'
<1> DEFINE s == sending[q]
           open == {k \in Cases(s.bundle, s.adapter) : cases[k].state = "claimed"}
           state == OutcomeState(s.result)
           answered == [bundle |-> s.bundle, adapter |-> s.adapter, state |-> state,
                        retryable |-> s.result = "lost"]
<1>1. /\ s \in Sending /\ s.at = "answered" /\ sending' = [sending EXCEPT ![q] = NotSubmitting]
      /\ UNCHANGED <<signVars, received, startVars>>
  BY DEF record_outcome, FormInv, FormShape
<1>2. NotSubmitting \in Sending /\ NotSubmitting.at = "idle"
  BY DEF NotSubmitting, Sending
<1>3. /\ sending' \in [Submitters -> Sending]
      /\ \A o \in Submitters : sending'[o].at = "idle" \/ sending'[o] = sending[o]
  BY <1>1, <1>2 DEF FormInv, FormShape
<1>4. CASE UNCHANGED <<cases, status>>
  <2>1. cases' \in Seq(CaseRow) /\ StartIsEarned' /\ status' \in FormationStatus
    BY <1>1, <1>4 DEF FormInv, FormShape, FormTypeOK, StartIsEarned, startVars
  <2> HIDE DEF s
  <2> QED
    BY <1>1, <1>3, <1>4, <2>1, CasesWritten
<1>5. CASE /\ ~(open = {} \/ (Advances(state) /\ status # "signatures_pending"))
           /\ cases' = [k \in DOMAIN cases |-> IF k \notin open THEN cases[k] ELSE answered]
           /\ status' = IF Advances(state) THEN "dso_submitted" ELSE status
  <2>1. /\ s.adapter \in Adapters /\ s.bundle \in Nat /\ state \in CaseState
        /\ (Advances(state) => s.bundle \in received)
    <3>1. s.adapter \in Adapters /\ s.bundle \in DOMAIN bundles /\ s.bundle \in Nat /\ s.result \in Results
      BY <1>1, LenProperties DEF FormInv, FormTypeOK, FormShape
    <3>2. s.result \in {"delivered", "acknowledged", "rejected"} => s.bundle \in received
      BY <1>1 DEF FormInv, ClaimedIsTheCase
    <3> QED
      BY <3>1, <3>2 DEF Results, OutcomeState, CaseState, Advances
  <2>2. cases \in Seq(CaseRow) /\ \A k \in DOMAIN cases : cases[k] \in CaseRow
    BY ElementOfSeq, LenProperties DEF FormInv, FormShape
  <2>3. answered \in CaseRow /\ answered.bundle = s.bundle /\ answered.state = state
    <3>1. (s.result = "lost") \in BOOLEAN
      OBVIOUS
    <3> QED
      BY <2>1, <3>1 DEF CaseRow
  <2>4. \A k \in open : k \in DOMAIN cases /\ cases[k].bundle = s.bundle /\ cases[k].state = "claimed"
    BY DEF Cases
  <2>5. PICK k \in DOMAIN cases : k \in open
    BY <1>5, <2>4
  <2> HIDE DEF open, answered
  <2>6. /\ cases' \in Seq(CaseRow) /\ Len(cases') = Len(cases) /\ DOMAIN cases' = DOMAIN cases
        /\ \A c \in DOMAIN cases : cases'[c] = IF c \in open THEN answered ELSE cases[c]
    BY <1>5, <2>2, <2>3, IsASeq, LenProperties
  <2>7. \A c \in DOMAIN cases : cases'[c].bundle = cases[c].bundle
    BY <2>3, <2>4, <2>6
  <2> HIDE DEF state, s
  <2>8. StartIsEarned'
    <3>1. CASE Advances(state)
      <4>1. cases'[k].state \in {"delivered", "acknowledged"} /\ cases'[k].bundle \in received' /\ k \in DOMAIN cases'
        BY <1>1, <2>1, <2>3, <2>5, <2>6, <3>1 DEF Advances
      <4> QED
        BY <1>5, <3>1, <4>1 DEF StartIsEarned
    <3>2. CASE ~Advances(state)
      BY <1>1, <1>5, <2>4, <2>6, <3>2 DEF FormInv, StartIsEarned, startVars
    <3> QED
      BY <3>1, <3>2
  <2>9. status' \in FormationStatus
    BY <1>5 DEF FormInv, FormTypeOK, FormationStatus
  <2> QED
    BY <1>1, <1>3, <2>6, <2>7, <2>8, <2>9, CasesWritten
<1> QED
  BY <1>4, <1>5 DEF record_outcome

\* A package handed over by hand, and the answer to one that was delivered.
LEMMA DeliveredStep ==
    ASSUME FormInv, NEW k \in DOMAIN cases,
           mark_manual_delivered(k)
             \/ \E state \in {"acknowledged", "rejected"} : record_submission_response(k, state)
    PROVE  FormInv'
<1>1. PICK state \in {"delivered", "acknowledged", "rejected"} :
        /\ cases' = [cases EXCEPT ![k].state = state]
        /\ UNCHANGED <<signVars, sending, startVars>>
        /\ \/ status' = "dso_submitted" /\ received' = received \cup {cases[k].bundle}
           \/ cases[k].state = "delivered" /\ UNCHANGED <<status, received>>
  BY DEF mark_manual_delivered, record_submission_response
<1>2. CaseChanged(k, state)
  BY <1>1, CaseKept DEF CaseState
<1>3. StartIsEarned'
  <2>1. CASE status' = "dso_submitted" /\ received' = received \cup {cases[k].bundle}
    <3>1. k \in DOMAIN cases' /\ cases'[k].state = state /\ cases'[k].bundle \in received'
      BY <1>2, <2>1 DEF CaseChanged
    <3> QED
      BY <2>1, <3>1 DEF StartIsEarned
  <2>2. CASE cases[k].state = "delivered" /\ UNCHANGED <<status, received>>
    BY <1>1, <1>2, <2>2 DEF CaseChanged, FormInv, StartIsEarned, startVars
  <2> QED
    BY <1>1, <2>1, <2>2
<1>4. status' \in FormationStatus /\ received \subseteq received' /\ \A b \in received' \ received : b = cases[k].bundle
  BY <1>1 DEF FormInv, FormTypeOK, FormationStatus
<1>5. sending' \in [Submitters -> Sending] /\ \A q \in Submitters : sending'[q] = sending[q]
  BY <1>1 DEF FormInv, FormShape
<1> QED
  BY <1>1, <1>2, <1>3, <1>4, <1>5, CasesWritten DEF CaseChanged

\* The start of a formation and of the operation.
LEMMA StatusStep ==
    ASSUME FormInv,
           \/ start_formation
           \/ \E date \in {"ahead", "due"} : record_vnb_start_confirmation(date)
           \/ activate_community
           \/ StartDayComes
    PROVE  FormInv'
<1>1. /\ UNCHANGED <<signVars, caseVars, changes>> /\ status' \in FormationStatus
      /\ confirmation' \in {"ahead", "due", None} /\ StartIsEarned'
  BY FormationAssumption DEF start_formation, record_vnb_start_confirmation, activate_community, StartDayComes, FormInv, FormTypeOK,
         FormationStatus, StartIsEarned, caseVars, startVars
<1> QED
  BY <1>1 DEF FormInv, FormTypeOK, FormShape, ReceiptsNameTheRead, SignedByItsReaders, OneCase, ClaimedIsTheCase,
     ReceivedIsTheCase, signVars, caseVars

-----------------------------------------------------------------------------

\* The inductive invariant holds before the first step.
LEMMA FormInvInit == FormInit => FormInv
<1> SUFFICES ASSUME FormInit
             PROVE  FormInv
  OBVIOUS
<1>1. << >> \in Seq(Bundle) /\ << >> \in Seq(CaseRow) /\ Len(bundles) = 0 /\ DOMAIN bundles = {}
      /\ Len(cases) = 0 /\ DOMAIN cases = {}
  BY EmptySeq DEF FormInit
<1>2. \A q \in Submitters : sending[q] \in Sending /\ sending[q].at = "idle"
  BY DEF FormInit, NotSubmitting, Sending
<1>3. FormTypeOK
  BY <1>1, <1>2, FormationAssumption DEF FormInit, FormTypeOK, FormationStatus
<1>4. FormShape
  BY <1>1, <1>2 DEF FormInit, FormShape
<1> QED
  BY <1>1, <1>2, <1>3, <1>4 DEF FormInit, FormInv, ReceiptsNameTheRead, SignedByItsReaders, OneCase, ClaimedIsTheCase,
     ReceivedIsTheCase, StartIsEarned

\* Every step keeps the inductive invariant.
LEMMA FormInvStep == FormInv /\ [FormNext]_formVars => FormInv'
<1> SUFFICES ASSUME FormInv, [FormNext]_formVars
             PROVE  FormInv'
  OBVIOUS
<1>1. CASE UNCHANGED formVars
  BY <1>1 DEF FormInv, FormTypeOK, FormShape, ReceiptsNameTheRead, SignedByItsReaders, OneCase, ClaimedIsTheCase,
     ReceivedIsTheCase, StartIsEarned, formVars, signVars, caseVars, startVars
<1>2. ASSUME NEW h \in Households,
             \/ insert_invited_member(h) \/ confirm_invited_member(h) \/ ChangeProfile(h) \/ DeleteProfile(h)
             \/ formation_signature_bundle(h) \/ record_formation_signature(h)
      PROVE  FormInv'
  BY <1>2, MemberStep, ProfileStep, ReadingStep, SignStep
<1>3. ASSUME NEW q \in Submitters,
             \/ \E a \in Managers : CheckSubmission(q, a)
             \/ claim(q) \/ SendPackage(q) \/ record_outcome(q) \/ SubmitterDies(q)
      PROVE  FormInv'
  BY <1>3, CheckStep, ClaimStep, SendStep, OutcomeStep
<1>4. ASSUME NEW k \in DOMAIN cases,
             \/ mark_manual_delivered(k)
             \/ \E state \in {"acknowledged", "rejected"} : record_submission_response(k, state)
      PROVE  FormInv'
  BY <1>4, DeliveredStep
<1>5. CASE ReadParticipants \/ replace_leg_document_bundle
  BY <1>5, ReadingStep, ReplaceStep
<1>6. CASE \/ start_formation \/ activate_community \/ StartDayComes
           \/ \E date \in {"ahead", "due"} : record_vnb_start_confirmation(date)
  BY <1>6, StatusStep
<1> QED
  BY <1>1, <1>2, <1>3, <1>4, <1>5, <1>6 DEF FormNext

\* The tables of a formation keep their types (Formation!FormTypeOK).
THEOREM FormationTypes == FormSpec => []FormTypeOK
<1>1. FormInv => FormTypeOK
  BY DEF FormInv
<1> QED
  BY <1>1, FormInvInit, FormInvStep, PTL DEF FormSpec

\* A bundle that counts as signed was read and signed by everybody it names who
\* is still there, whatever is drafted, changed or deleted in between; and the
\* grid operator is sent one bundle, and a signed one, however many requests
\* submit, die and submit again (Formation!BundlesHold).
THEOREM BundlesHoldHolds == FormSpec => []BundlesHold
<1>1. ASSUME FormInv
      PROVE  BundlesHold
  <2>1. \A k, c \in DOMAIN cases : k = c
    BY <1>1, LenProperties DEF FormInv, FormShape, OneCase
  <2>2. OneBundleIsSubmitted
    BY <1>1, <2>1 DEF FormInv, OneCase, ReceivedIsTheCase, OneBundleIsSubmitted
  <2> QED
    BY <1>1, <2>2 DEF FormInv, BundlesHold
<1> QED
  BY <1>1, FormInvInit, FormInvStep, PTL DEF FormSpec

\* A community is submitted, approved and active only once the grid operator has
\* its bundle, gave a date and the date has come (Formation!StartIsEarned).
THEOREM StartIsEarnedHolds == FormSpec => []StartIsEarned
<1>1. FormInv => StartIsEarned
  BY DEF FormInv
<1> QED
  BY <1>1, FormInvInit, FormInvStep, PTL DEF FormSpec
-----------------------------------------------------------------------------
(* Changes reported afterwards.                                            *)

\* What the adapter answers to a request.
Outcomes == {"prepared", "delivered", "acknowledged", "rejected", "failed"}
\* A request on its way through submit_membership_mutation.
Asking == [at : {"idle", "read", "checked", "claimed", "answered"}, id : Mutations \cup {NoCase},
           facts : Command \cup {NoCase}, result : Outcomes \cup {NoCase}]

\* The shapes MutTypeOK leaves open.
MutShape ==
    /\ ask \in [Requests -> Asking]
    /\ \A r \in Requests : ask[r].at # "idle" => ask[r].id \in Mutations /\ ask[r].facts \in Command
    /\ \A r \in Requests : ask[r].at = "answered" => ask[r].result \in Outcomes
    /\ deaths \in Nat

\* The id stands for these facts.
Records(m, c) == mutation[m] # NoCase /\ mutation[m].facts = c

\* A request past its claim carries the facts of its case.
ClaimIsRecorded == \A r \in Requests :
    ask[r].at \in {"claimed", "answered"} => Records(ask[r].id, ask[r].facts)

\* The grid operator was told nothing else.
ToldOnlyCases == \A t \in told : Records(t.id, t.facts)

\* Each state reached is in the ledger, and a final one is the state for good.
LedgerFollows == \A m \in Mutations :
    /\ mutation[m] # NoCase /\ mutation[m].state # "claimed" => <<m, mutation[m].state>> \in ledger
    /\ \A s \in Final : <<m, s>> \in ledger => mutation[m] # NoCase /\ mutation[m].state = s

\* The inductive invariant behind ToldIsRecorded.
MutInv ==
    /\ MutTypeOK
    /\ MutShape
    /\ ClaimIsRecorded
    /\ ToldOnlyCases
    /\ LedgerFollows

\* Nothing is asked at first.
LEMMA MutInvInit == MutInit => MutInv
<1> SUFFICES ASSUME MutInit
             PROVE  MutInv
  OBVIOUS
<1>1. MutTypeOK /\ MutShape
  BY MutationAssumption DEF MutInit, MutTypeOK, MutShape, Unasked, Asking, Enrolment
<1> QED
  BY <1>1 DEF MutInit, MutInv, ClaimIsRecorded, ToldOnlyCases, LedgerFollows, Unasked

\* A case that keeps its facts keeps the promises made about them; its new
\* state is in the ledger, and only a case without a final state moves.
LEMMA CaseMoves ==
    ASSUME MutInv, NEW m \in Mutations, NEW state \in CaseStates,
           mutation[m] # NoCase, mutation[m].state \notin Final,
           mutation' = [mutation EXCEPT ![m].state = state],
           ledger' = ledger \cup {<<m, state>>},
           UNCHANGED enrolled
    PROVE  /\ mutation' \in [Mutations -> MutationCase \cup {NoCase}]
           /\ ledger' \subseteq Mutations \X CaseStates
           /\ \A n \in Mutations, c \in Command : Records(n, c) => Records(n, c)'
           /\ LedgerFollows'
<1>1. mutation[m] \in MutationCase /\ mutation \in [Mutations -> MutationCase \cup {NoCase}]
  BY DEF MutInv, MutTypeOK
<1>2. [mutation[m] EXCEPT !.state = state] \in MutationCase
  BY <1>1 DEF MutationCase
<1>3. /\ mutation' \in [Mutations -> MutationCase \cup {NoCase}]
      /\ mutation'[m] \in MutationCase
      /\ mutation'[m].state = state /\ mutation'[m].facts = mutation[m].facts
      /\ \A n \in Mutations \ {m} : mutation'[n] = mutation[n]
  BY <1>1, <1>2 DEF MutationCase
<1>4. mutation'[m] # NoCase
  BY <1>3, NoCaseAssumption
<1>5. LedgerFollows'
  <2> SUFFICES ASSUME NEW n \in Mutations
               PROVE  /\ mutation'[n] # NoCase /\ mutation'[n].state # "claimed" =>
                             <<n, mutation'[n].state>> \in ledger'
                      /\ \A s \in Final : <<n, s>> \in ledger' =>
                             mutation'[n] # NoCase /\ mutation'[n].state = s
    BY DEF LedgerFollows
  <2>1. CASE n = m
    <3>1. \A s \in Final : <<m, s>> \notin ledger
      BY DEF MutInv, LedgerFollows
    <3> QED
      BY <1>3, <1>4, <2>1, <3>1
  <2>2. CASE n # m
    BY <1>3, <2>2 DEF MutInv, LedgerFollows
  <2> QED
    BY <2>1, <2>2
<1> QED
  BY <1>3, <1>4, <1>5 DEF MutInv, MutTypeOK, Records

\* Reading, and finding the id known or the participant free, changes no case.
LEMMA RequestStep ==
    ASSUME MutInv, NEW r \in Requests,
           \/ \E m \in Mutations, kind \in Changes, p \in Participants :
                  submit_membership_mutation(r, m, kind, p)
           \/ CheckClaim(r)
    PROVE  MutInv'
<1>1. /\ ask \in [Requests -> Asking] /\ mutation \in [Mutations -> MutationCase \cup {NoCase}]
      /\ enrolled \in [Participants -> Enrolment]
      /\ UNCHANGED <<enrolled, mutation, ledger, told, deaths>>
  BY DEF MutInv, MutTypeOK, MutShape, submit_membership_mutation, CheckClaim
<1>2. ASSUME NEW m \in Mutations, NEW kind \in Changes, NEW p \in Participants,
             submit_membership_mutation(r, m, kind, p)
      PROVE  \E c \in Command :
                 ask' = [ask EXCEPT ![r] = [at |-> "read", id |-> m, facts |-> c, result |-> NoCase]]
  <2>1. CASE mutation[m] # NoCase
    <3>1. mutation[m].facts \in Command
      BY <1>1, <2>1 DEF MutationCase
    <3>2. ask' = [ask EXCEPT ![r] =
              [at |-> "read", id |-> m, facts |-> mutation[m].facts, result |-> NoCase]]
      BY <1>2, <2>1 DEF submit_membership_mutation, Unasked
    <3> QED
      BY <3>1, <3>2
  <2>2. CASE mutation[m] = NoCase
    <3>1. [kind |-> kind, of |-> p, before |-> enrolled[p]] \in Command
      BY <1>1 DEF Command
    <3>2. ask' = [ask EXCEPT ![r] = [at |-> "read", id |-> m,
              facts |-> [kind |-> kind, of |-> p, before |-> enrolled[p]], result |-> NoCase]]
      BY <1>2, <2>2 DEF submit_membership_mutation, Unasked
    <3> QED
      BY <3>1, <3>2
  <2> QED
    BY <2>1, <2>2
<1>3. ASSUME CheckClaim(r)
      PROVE  /\ ask[r].at = "read"
             /\ \/ ask' = [ask EXCEPT ![r] = Unasked]
                \/ ask' = [ask EXCEPT ![r] = [ask[r] EXCEPT !.at = "checked"]]
                \/ /\ ask' = [ask EXCEPT ![r] = [ask[r] EXCEPT !.at = "claimed"]]
                   /\ Records(ask[r].id, ask[r].facts)
  BY <1>3 DEF CheckClaim, SameCommand, Records
<1>4. /\ ask' \in [Requests -> Asking]
      /\ \A q \in Requests \ {r} : ask'[q] = ask[q]
      /\ ask'[r].at # "idle" => ask'[r].id \in Mutations /\ ask'[r].facts \in Command
      /\ ask'[r].at # "answered"
      /\ ask'[r].at = "claimed" => Records(ask'[r].id, ask'[r].facts)
  <2>1. CASE \E m \in Mutations, kind \in Changes, p \in Participants :
                 submit_membership_mutation(r, m, kind, p)
    BY <1>1, <1>2, <2>1 DEF Asking
  <2>2. CASE CheckClaim(r)
    <3>1. ask[r] \in Asking /\ ask[r].id \in Mutations /\ ask[r].facts \in Command
      BY <1>1, <1>3, <2>2 DEF MutInv, MutShape
    <3> QED
      BY <1>1, <1>3, <2>2, <3>1 DEF Asking, Unasked
  <2> QED
    BY <2>1, <2>2
<1>5. \A n, c : Records(n, c)' <=> Records(n, c)
  BY <1>1 DEF Records
<1>6. MutTypeOK' /\ MutShape'
  BY <1>1, <1>4 DEF MutInv, MutTypeOK, MutShape, Asking
<1>7. ClaimIsRecorded'
  BY <1>1, <1>4, <1>5 DEF MutInv, ClaimIsRecorded, Records
<1>8. ToldOnlyCases' /\ LedgerFollows'
  BY <1>1 DEF MutInv, ToldOnlyCases, LedgerFollows, Records
<1> QED
  BY <1>6, <1>7, <1>8 DEF MutInv

\* Of two requests that found an id free one records its facts, and only that
\* one goes on to the adapter.
LEMMA InsertStep ==
    ASSUME MutInv, NEW r \in Requests, InsertClaim(r)
    PROVE  MutInv'
<1>1. /\ ask \in [Requests -> Asking] /\ mutation \in [Mutations -> MutationCase \cup {NoCase}]
      /\ ask[r].at = "checked" /\ ask[r].id \in Mutations /\ ask[r].facts \in Command
      /\ UNCHANGED <<enrolled, ledger, told, deaths>>
  BY DEF MutInv, MutTypeOK, MutShape, InsertClaim
<1>2. CASE mutation[ask[r].id] = NoCase
  <2> DEFINE kept == [facts |-> ask[r].facts, state |-> "claimed"]
  <2>1. kept \in MutationCase /\ kept # NoCase
    BY <1>1, NoCaseAssumption DEF MutationCase, CaseStates, Open
  <2>2. mutation' = [mutation EXCEPT ![ask[r].id] = kept] /\ ask' = [ask EXCEPT ![r].at = "claimed"]
    BY <1>2 DEF InsertClaim
  <2>3. \A n, c : Records(n, c) /\ n \in Mutations => Records(n, c)'
    BY <1>1, <1>2, <2>1, <2>2 DEF Records
  <2>4. Records(ask[r].id, ask[r].facts)'
    BY <1>1, <2>1, <2>2 DEF Records, Asking
  <2>5. MutTypeOK' /\ MutShape'
    BY <1>1, <2>1, <2>2 DEF MutInv, MutTypeOK, MutShape, Asking
  <2>6. ClaimIsRecorded'
    <3>1. ask'[r].id = ask[r].id /\ ask'[r].facts = ask[r].facts
      BY <1>1, <2>2 DEF Asking
    <3>2. \A q \in Requests \ {r} : ask'[q] = ask[q]
      BY <1>1, <2>2
    <3> SUFFICES ASSUME NEW q \in Requests, ask'[q].at \in {"claimed", "answered"}
                 PROVE  Records(ask[q].id, ask[q].facts)'
      BY DEF ClaimIsRecorded
    <3>3. CASE q = r
      BY <2>4, <3>3
    <3>4. CASE q # r
      <4>1. ask'[q] = ask[q] /\ ask[q].id \in Mutations /\ Records(ask[q].id, ask[q].facts)
        BY <3>2, <3>4 DEF MutInv, MutShape, ClaimIsRecorded
      <4> QED
        BY <2>3, <4>1 DEF Records
    <3> QED
      BY <3>3, <3>4
  <2>7. ToldOnlyCases'
    BY <1>1, <2>3 DEF MutInv, MutTypeOK, ToldOnlyCases
  <2>8. LedgerFollows'
    BY <1>1, <1>2, <2>1, <2>2 DEF MutInv, LedgerFollows
  <2> QED
    BY <2>5, <2>6, <2>7, <2>8 DEF MutInv
<1>3. CASE mutation[ask[r].id] # NoCase
  <2>1. ask' = [ask EXCEPT ![r] = Unasked] /\ UNCHANGED mutation
    BY <1>3 DEF InsertClaim
  <2> QED
    BY <1>1, <2>1 DEF MutInv, MutTypeOK, MutShape, ClaimIsRecorded, ToldOnlyCases, LedgerFollows,
       Records, Asking, Unasked
<1> QED
  BY <1>2, <1>3

\* The adapter tells what the request carries.
LEMMA DeliverStep ==
    ASSUME MutInv, NEW r \in Requests, DeliverMutation(r)
    PROVE  MutInv'
<1>1. /\ ask \in [Requests -> Asking] /\ ask[r].at = "claimed"
      /\ ask[r].id \in Mutations /\ ask[r].facts \in Command
      /\ Records(ask[r].id, ask[r].facts)
      /\ UNCHANGED <<enrolled, mutation, ledger, deaths>>
  BY DEF MutInv, MutShape, DeliverMutation, ClaimIsRecorded
<1>2. PICK result \in Outcomes : ask' = [ask EXCEPT ![r].at = "answered", ![r].result = result]
  BY DEF DeliverMutation, Outcomes
<1>3. told' \subseteq told \cup {[id |-> ask[r].id, facts |-> ask[r].facts]}
  BY DEF DeliverMutation
<1>4. \A n, c : Records(n, c)' <=> Records(n, c)
  BY <1>1 DEF Records
<1>5. /\ ask' \in [Requests -> Asking]
      /\ \A q \in Requests \ {r} : ask'[q] = ask[q]
      /\ ask'[r].id = ask[r].id /\ ask'[r].facts = ask[r].facts
      /\ ask'[r].at = "answered" /\ ask'[r].result = result
  BY <1>1, <1>2 DEF Asking
<1>6. MutTypeOK' /\ MutShape'
  BY <1>1, <1>3, <1>5 DEF MutInv, MutTypeOK, MutShape, Asking
<1>7. ToldOnlyCases'
  BY <1>1, <1>3, <1>4 DEF MutInv, ToldOnlyCases, Records
<1>8. ClaimIsRecorded'
  BY <1>1, <1>5 DEF MutInv, ClaimIsRecorded, Records
<1>9. LedgerFollows'
  BY <1>1 DEF MutInv, LedgerFollows
<1> QED
  BY <1>6, <1>7, <1>8, <1>9 DEF MutInv

\* An outcome moves its case if nothing else did before.
LEMMA RecordStep ==
    ASSUME MutInv, NEW r \in Requests, record_mutation_outcome(r)
    PROVE  MutInv'
<1>1. /\ ask \in [Requests -> Asking] /\ ask[r].at = "answered" /\ ask[r].id \in Mutations
      /\ ask[r].result \in Outcomes /\ Records(ask[r].id, ask[r].facts)
      /\ ask' = [ask EXCEPT ![r] = Unasked]
      /\ UNCHANGED <<enrolled, told, deaths>>
  BY DEF MutInv, MutShape, record_mutation_outcome, ClaimIsRecorded
<1>2. /\ MutShape'
      /\ \A q \in Requests : ask'[q].at # "idle" => q # r /\ ask'[q] = ask[q]
  BY <1>1 DEF MutInv, MutShape, Asking, Unasked
<1>3. CASE mutation[ask[r].id].state = "claimed"
  <2>1. /\ mutation' = [mutation EXCEPT ![ask[r].id].state = ask[r].result]
        /\ ledger' = ledger \cup {<<ask[r].id, ask[r].result>>}
    BY <1>3 DEF record_mutation_outcome
  <2>2. ask[r].result \in CaseStates /\ mutation[ask[r].id].state \notin Final
    BY <1>1, <1>3 DEF CaseStates, Open, Final, Outcomes
  <2>3. /\ mutation' \in [Mutations -> MutationCase \cup {NoCase}]
        /\ ledger' \subseteq Mutations \X CaseStates
        /\ \A n \in Mutations, c \in Command : Records(n, c) => Records(n, c)'
        /\ LedgerFollows'
    BY <1>1, <2>1, <2>2, CaseMoves DEF Records
  <2>4. MutTypeOK'
    BY <1>1, <1>2, <2>3 DEF MutInv, MutTypeOK, MutShape, Asking
  <2>5. ClaimIsRecorded'
    BY <1>2, <2>3 DEF MutInv, MutShape, ClaimIsRecorded, Records
  <2>6. ToldOnlyCases'
    BY <1>1, <2>3 DEF MutInv, MutTypeOK, ToldOnlyCases
  <2> QED
    BY <1>2, <2>3, <2>4, <2>5, <2>6 DEF MutInv
<1>4. CASE mutation[ask[r].id].state # "claimed"
  <2>1. UNCHANGED <<mutation, ledger>>
    BY <1>4 DEF record_mutation_outcome
  <2>2. MutTypeOK'
    BY <1>1, <1>2, <2>1 DEF MutInv, MutTypeOK, MutShape, Asking
  <2> QED
    BY <1>1, <1>2, <2>1, <2>2 DEF MutInv, ClaimIsRecorded, ToldOnlyCases, LedgerFollows, Records
<1> QED
  BY <1>3, <1>4

\* An operator hands a prepared case over, or an answer arrives.
LEMMA AnswerStep ==
    ASSUME MutInv, NEW m \in Mutations,
           \/ mark_mutation_manual_delivered(m)
           \/ \E state \in Final \cup {"failed"} : record_mutation_response(m, state)
    PROVE  MutInv'
<1>1. PICK state \in CaseStates :
          /\ mutation[m] # NoCase /\ mutation[m].state \notin Final
          /\ mutation' = [mutation EXCEPT ![m].state = state]
          /\ ledger' = ledger \cup {<<m, state>>}
          /\ UNCHANGED <<enrolled, ask, deaths>>
          /\ told' \subseteq told \cup {[id |-> m, facts |-> mutation[m].facts]}
  BY DEF mark_mutation_manual_delivered, record_mutation_response, CaseStates, Open, Final
<1>2. /\ mutation' \in [Mutations -> MutationCase \cup {NoCase}]
      /\ ledger' \subseteq Mutations \X CaseStates
      /\ \A n \in Mutations, c \in Command : Records(n, c) => Records(n, c)'
      /\ LedgerFollows'
  BY <1>1, CaseMoves
<1>3. mutation[m].facts \in Command
  BY <1>1 DEF MutInv, MutTypeOK, MutationCase
<1>4. MutTypeOK' /\ MutShape'
  BY <1>1, <1>2, <1>3 DEF MutInv, MutTypeOK, MutShape
<1>5. ClaimIsRecorded'
  BY <1>1, <1>2 DEF MutInv, MutShape, ClaimIsRecorded, Records
<1>6. ToldOnlyCases'
  <2>1. Records(m, mutation[m].facts)
    BY <1>1 DEF Records
  <2> SUFFICES ASSUME NEW t \in told'
               PROVE  Records(t.id, t.facts)'
    BY DEF ToldOnlyCases, Records
  <2>2. t.id \in Mutations /\ t.facts \in Command /\ Records(t.id, t.facts)
    BY <1>1, <1>3, <2>1 DEF MutInv, MutTypeOK, ToldOnlyCases
  <2> QED
    BY <1>2, <2>2
<1> QED
  BY <1>2, <1>4, <1>5, <1>6 DEF MutInv

\* Every step keeps it.
LEMMA MutInvStep == MutInv /\ [MutNext]_mutVars => MutInv'
<1> SUFFICES ASSUME MutInv, [MutNext]_mutVars
             PROVE  MutInv'
  OBVIOUS
<1>1. CASE UNCHANGED mutVars
  BY <1>1 DEF mutVars, MutInv, MutTypeOK, MutShape, ClaimIsRecorded, ToldOnlyCases, LedgerFollows, Records
<1>2. ASSUME NEW p \in Participants, Confirm(p)
      PROVE  MutInv'
  <2>1. enrolled' \in [Participants -> Enrolment] /\ UNCHANGED <<mutation, ledger, ask, told, deaths>>
    BY <1>2 DEF MutInv, MutTypeOK, Confirm, Enrolment
  <2> QED
    BY <2>1 DEF MutInv, MutTypeOK, MutShape, ClaimIsRecorded, ToldOnlyCases, LedgerFollows, Records
<1>3. ASSUME NEW r \in Requests, RequestDies(r)
      PROVE  MutInv'
  <2>1. /\ ask' = [ask EXCEPT ![r] = Unasked] /\ deaths' \in Nat
        /\ UNCHANGED <<enrolled, mutation, ledger, told>>
    BY <1>3 DEF MutInv, MutShape, RequestDies
  <2> QED
    BY <2>1 DEF MutInv, MutTypeOK, MutShape, ClaimIsRecorded, ToldOnlyCases, LedgerFollows, Records,
       Asking, Unasked
<1>4. ASSUME NEW r \in Requests,
             \/ \E m \in Mutations, kind \in Changes, p \in Participants :
                    submit_membership_mutation(r, m, kind, p)
             \/ CheckClaim(r) \/ InsertClaim(r) \/ DeliverMutation(r) \/ record_mutation_outcome(r)
      PROVE  MutInv'
  BY <1>4, RequestStep, InsertStep, DeliverStep, RecordStep
<1>5. ASSUME NEW m \in Mutations,
             \/ mark_mutation_manual_delivered(m)
             \/ \E state \in Final \cup {"failed"} : record_mutation_response(m, state)
      PROVE  MutInv'
  BY <1>5, AnswerStep
<1> QED
  BY <1>1, <1>2, <1>3, <1>4, <1>5 DEF MutNext

\* The tables of the mutations keep their types (VnbMutations!MutTypeOK).
THEOREM MutationTypes == MutSpec => []MutTypeOK
<1>1. MutInv => MutTypeOK
  BY DEF MutInv
<1> QED
  BY <1>1, MutInvInit, MutInvStep, PTL DEF MutSpec

\* What the grid operator was told under an id is what its case records, whichever
\* request, retry or handover told it, and a case has one final answer
\* (VnbMutations!ToldIsRecorded).
THEOREM ToldIsRecordedHolds == MutSpec => []ToldIsRecorded
<1>1. ASSUME MutInv
      PROVE  ToldIsRecorded
  <2>1. \A t \in told : mutation[t.id] # NoCase /\ mutation[t.id].facts = t.facts
    BY <1>1 DEF MutInv, ToldOnlyCases, Records
  <2>2. ASSUME NEW m \in Mutations
        PROVE  Cardinality({s \in Final : <<m, s>> \in ledger}) <= 1
    <3> DEFINE finals == {s \in Final : <<m, s>> \in ledger}
    <3>1. \A s, t \in finals : s = t
      BY <1>1 DEF MutInv, LedgerFollows
    <3>2. ASSUME NEW s \in finals
          PROVE  finals = {s}
      BY <3>1
    <3> HIDE DEF finals
    <3>3. Cardinality(finals) <= 1
      <4>1. CASE finals = {}
        BY <4>1, FS_EmptySet
      <4>2. ASSUME NEW s \in finals
            PROVE  Cardinality(finals) = 1
        BY <3>2, FS_Singleton
      <4> QED
        BY <4>1, <4>2
    <3> QED
      BY <3>3 DEF finals
  <2> QED
    BY <1>1, <2>1, <2>2 DEF MutInv, LedgerFollows, ToldIsRecorded
<1> QED
  BY <1>1, MutInvInit, MutInvStep, PTL DEF MutSpec
==============================================================================
