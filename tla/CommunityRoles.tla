---------------------------- MODULE CommunityRoles ----------------------------
(***************************************************************************)
(* Who administers a LEG: store/formation.py and community_access.py, for  *)
(* one community.  A household is invited, confirms, is given roles and    *)
(* taken roles by others, and may delete its profile at any time.          *)
(*                                                                         *)
(* A change of roles locks every row of the community (FOR UPDATE), reads  *)
(* and decides, and writes the row and an event at COMMIT; rows inserted   *)
(* meanwhile are not locked.  An invitation and the setting of dual        *)
(* control check the actor in a statement of their own, without a lock,    *)
(* and write in a later one.                                               *)
(***************************************************************************)
EXTENDS Naturals, FiniteSets

CONSTANTS
    Homes,          \* households
    Founder,        \* whose community it is: communities.admin_building_id
    RoleSets,       \* the sets of roles that are asked for
    Askers,         \* requests of the dashboard
    NoAsk

ADMIN == "admin"
MEMBERSHIP == "membership"

ASSUME RolesAssumption ==
    /\ Founder \in Homes
    /\ \A R \in RoleSets : R \subseteq {ADMIN, MEMBERSHIP, "auditor"}

VARIABLES
    row,            \* community_members.status, "none" without a row, "gone" for good
    roles,          \* roles_for: access_roles and the legacy role in one
    trail,          \* community_role_events: the roles the latest one left, and
                    \* whether each event began where the one before it ended
    require_dual_control,
    bereft,         \* an administrator's profile was deleted
    deciding          \* per request: what it has decided to write

rolesVars == <<row, roles, trail, require_dual_control, bereft, deciding>>

-----------------------------------------------------------------------------

Roles == {ADMIN, MEMBERSHIP, "auditor"}

Ask == [kind : {"roles"}, target : Homes, new : RoleSets, locked : SUBSET Homes]
       \cup [kind : {"invite"}, target : Homes]
       \cup [kind : {"dual"}, on : BOOLEAN]

RolesTypeOK ==
    /\ row \in [Homes -> {"none", "invited", "confirmed", "gone"}]
    /\ roles \in [Homes -> SUBSET Roles]
    /\ trail \in [Homes -> [last : SUBSET Roles, unbroken : BOOLEAN]]
    /\ require_dual_control \in BOOLEAN /\ bereft \in BOOLEAN
    /\ deciding \in [Askers -> Ask \cup {NoAsk}]

\* create_community_record
RolesInit ==
    /\ row = [h \in Homes |-> IF h = Founder THEN "confirmed" ELSE "none"]
    /\ roles = [h \in Homes |-> IF h = Founder THEN {ADMIN} ELSE {}]
    /\ trail = [h \in Homes |-> [last |-> roles[h], unbroken |-> TRUE]]
    /\ require_dual_control = FALSE
    /\ bereft = FALSE
    /\ deciding = [q \in Askers |-> NoAsk]

IsMember(h) == row[h] \in {"invited", "confirmed"}
is_administrator(h) == ADMIN \in roles[h]
ConfirmedAdministrator(h) == row[h] = "confirmed" /\ is_administrator(h)

\* allows(member, MANAGE_MEMBERS)
MayManage(h) == row[h] = "confirmed" /\ roles[h] \cap {ADMIN, MEMBERSHIP} # {}

Locked(h) == \E q \in Askers : /\ deciding[q] # NoAsk /\ deciding[q].kind = "roles"
                               /\ h \in deciding[q].locked

Decided(q, ask) == deciding[q] = NoAsk /\ deciding' = [deciding EXCEPT ![q] = ask]
Answered(q) == deciding' = [deciding EXCEPT ![q] = NoAsk]

\* The actor's own roles, which the last administrator may not give up, and the
\* administrator's role, which only a confirmed administrator gives and takes.
RolesAllowed(a, h, new) ==
    /\ MayManage(a) /\ IsMember(h)
    /\ (is_administrator(h) <=> ADMIN \in new) \/ ConfirmedAdministrator(a)
    /\ ADMIN \in new \/ ~is_administrator(h) \/ \E g \in Homes \ {h} : ConfirmedAdministrator(g)

\* set_member_access_roles, up to its decision
ReadRoles(q, a, h, new) ==
    /\ \A g \in Homes : IsMember(g) => ~Locked(g)
    /\ RolesAllowed(a, h, new)
    /\ Decided(q, [kind |-> "roles", target |-> h, new |-> new,
                   locked |-> {g \in Homes : IsMember(g)}])
    /\ UNCHANGED <<row, roles, trail, require_dual_control, bereft>>

\* ... and its UPDATE and INSERT INTO community_role_events
set_member_access_roles(q) ==
    LET ask == deciding[q] IN
    /\ ask # NoAsk /\ ask.kind = "roles"
    /\ roles' = [roles EXCEPT ![ask.target] = ask.new]
    /\ trail' = [trail EXCEPT ![ask.target] =
                    [last |-> ask.new,
                     unbroken |-> @.unbroken /\ @.last = roles[ask.target]]]
    /\ Answered(q)
    /\ UNCHANGED <<row, require_dual_control, bereft>>

\* leg_invite_by_email asks _require_capability, then inserts.
AllowInvite(q, a, h) ==
    /\ MayManage(a) /\ row[h] = "none"
    /\ Decided(q, [kind |-> "invite", target |-> h])
    /\ UNCHANGED <<row, roles, trail, require_dual_control, bereft>>

\* UNIQUE (community_id, building_id): who is a member already stays as he is.
invite_member(q) ==
    LET ask == deciding[q] IN
    /\ ask # NoAsk /\ ask.kind = "invite"
    /\ row' = IF row[ask.target] = "none" THEN [row EXCEPT ![ask.target] = "invited"] ELSE row
    /\ Answered(q)
    /\ UNCHANGED <<roles, trail, require_dual_control, bereft>>

confirm_membership(h) ==
    /\ row[h] = "invited" /\ ~Locked(h)
    /\ row' = [row EXCEPT ![h] = "confirmed"]
    /\ UNCHANGED <<roles, trail, require_dual_control, bereft, deciding>>

\* The actor is read, not locked.
ReadAdministrator(q, a, on) ==
    /\ ConfirmedAdministrator(a)
    /\ Decided(q, [kind |-> "dual", on |-> on])
    /\ UNCHANGED <<row, roles, trail, require_dual_control, bereft>>

set_require_dual_control(q) ==
    /\ deciding[q] # NoAsk /\ deciding[q].kind = "dual"
    /\ require_dual_control' = deciding[q].on
    /\ Answered(q)
    /\ UNCHANGED <<row, roles, trail, bereft>>

\* The community's foreign key refuses to delete its founder; rows and events
\* of anybody else go with the profile.
delete_profile(h) ==
    /\ h # Founder /\ row[h] # "gone" /\ ~Locked(h)
    /\ row' = [row EXCEPT ![h] = "gone"]
    /\ roles' = [roles EXCEPT ![h] = {}]
    /\ trail' = [trail EXCEPT ![h] = [last |-> {}, unbroken |-> TRUE]]
    /\ bereft' = (bereft \/ ConfirmedAdministrator(h))
    /\ UNCHANGED <<require_dual_control, deciding>>

\* A request dies or fails: its transaction is rolled back.
AskerDies(q) ==
    /\ deciding[q] # NoAsk
    /\ Answered(q)
    /\ UNCHANGED <<row, roles, trail, require_dual_control, bereft>>

AskStep(q) ==
    \/ \E a, h \in Homes, new \in RoleSets : ReadRoles(q, a, h, new)
    \/ set_member_access_roles(q)
    \/ \E a, h \in Homes : AllowInvite(q, a, h)
    \/ invite_member(q)
    \/ \E a \in Homes, on \in BOOLEAN : ReadAdministrator(q, a, on)
    \/ set_require_dual_control(q)
    \/ AskerDies(q)

RolesNext ==
    \/ \E q \in Askers : AskStep(q)
    \/ \E h \in Homes : confirm_membership(h) \/ delete_profile(h)

RolesSpec == RolesInit /\ [][RolesNext]_rolesVars

-----------------------------------------------------------------------------
(* Properties.                                                             *)

\* However requests to change roles interleave, also two administrators who
\* demote each other, a confirmed administrator remains; only one who deletes
\* its profile can leave a community without (set_member_access_roles).
Administrated == bereft \/ \E h \in Homes : ConfirmedAdministrator(h)

\* A member's roles are what the latest event says, and every event began with
\* what the one before it left (community_role_events).
TrailIsTheRoles == \A h \in Homes : trail[h] = [last |-> roles[h], unbroken |-> TRUE]
=============================================================================
