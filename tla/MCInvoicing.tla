---------------------------- MODULE MCInvoicing ----------------------------
(* An issued invoice until it is paid, cancelled or replaced, the mail     *)
(* queue, and the roles by which members may do either.  They share no     *)
(* state; part says which one a behaviour is about, and in the initial     *)
(* states no fair action of the others is enabled.                         *)
(*                                                                         *)
(* Two invoices of one household, one sent by e-mail and one by portal     *)
(* download, so that either can replace the other, and two concurrent      *)
(* requests; one registration and two overlapping senders; a founder, two  *)
(* more households and two requests.                                       *)
EXTENDS InvoiceLifecycle, EmailQueue, CommunityRoles

CONSTANTS i1, i2, h1

VARIABLE part

MCParticipant == [i \in Invoices |-> h1]
MCMethod == [i \in Invoices |-> IF i = i1 THEN "email" ELSE "download"]
MCTemplates == <<"day_0", "day_3">>

MCRoleSets == {{}, {ADMIN}, {MEMBERSHIP}}

MCInit ==
    /\ part \in {"invoices", "mails", "roles"}
    /\ Init /\ MailInit /\ RolesInit

\* The mail queue may come to rest within its bounds, and so may a community
\* everybody but its founder has left; a request may not.
MCNext ==
    \/ part = "invoices" /\ Next /\ UNCHANGED <<mailVars, rolesVars, part>>
    \/ part = "mails" /\ MailNext /\ UNCHANGED <<vars, rolesVars, part>>
    \/ part = "roles" /\ RolesNext /\ UNCHANGED <<vars, mailVars, part>>
    \/ part # "invoices" /\ UNCHANGED <<vars, mailVars, rolesVars, part>>

MCSpec ==
    /\ MCInit /\ [][MCNext]_<<vars, mailVars, rolesVars, part>>
    /\ \A p \in Procs : SF_vars(Continue(p))
    /\ MailFairness

TypesOK == TypeOK /\ MailTypeOK /\ RolesTypeOK

\* The tables keep their types, a replaced invoice is on record as such on both
\* sides (record_invoice_transition, correct), and a community keeps an
\* administrator and the trail of its roles (set_member_access_roles).
RecordsOK == TypesOK /\ CorrectionsAudited /\ Administrated /\ TrailIsTheRoles
=============================================================================
