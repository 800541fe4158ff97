------------------------------ MODULE Formation ------------------------------
(***************************************************************************)
(* The formation of one LEG, from the first invitation to the active       *)
(* community: formation_wizard.py, formation_documents.py,                 *)
(* store/formation*.py, vnb_exchange.py and store/vnb_exchange.py.         *)
(*                                                                         *)
(* Documents are written from members read earlier; members, consents and  *)
(* profiles go on changing while signatures are collected.  A signature    *)
(* names the bundle its signer reviewed.  The signed bundle is submitted   *)
(* to the grid operator in steps: check, claim of a case, delivery,        *)
(* outcome; a request may die between them and another may start.          *)
(*                                                                         *)
(* Members are verified profiles; Managers hold every capability (how      *)
(* roles change is CommunityRoles).  A profile is reduced to the version   *)
(* of its facts (mail, address, producer or not).                          *)
(***************************************************************************)
EXTENDS Naturals, Sequences, FiniteSets

CONSTANTS
    Households,
    Managers,       \* households that may manage members and documents
    Facts,          \* versions of a profile
    Adapters,       \* adapters a community may be configured with
    Manual,         \* the adapter without a transport
    Submitters,     \* requests that submit
    MinSize,        \* min_community_size
    MaxBundles,     \* bound on bundles ever generated
    MaxChanges,     \* bound on changed and deleted profiles
    None

ASSUME FormationAssumption ==
    /\ Managers \subseteq Households /\ Managers # {} /\ Facts # {}
    /\ Manual \in Adapters /\ None \notin {"ahead", "due"}
    /\ MinSize \in Nat \ {0} /\ MaxBundles \in Nat /\ MaxChanges \in Nat

VARIABLES
    status,         \* communities.status
    member,         \* community_members.status, "left" when the profile is gone
    facts, consent, \* the profiles
    bundles,        \* leg_documents, one record per generated bundle
    receipts,       \* leg_signature_receipts
    drafting,       \* the participants a generation has read
    reviewed,       \* per household: the bundle it has on its screen
    cases,          \* vnb_submission_cases
    sending,         \* per request: how far its submission is
    received,       \* what the grid operator was sent
    confirmation,   \* vnb_start_confirmation: its start date has come or not
    changes

signVars == <<member, facts, consent, bundles, receipts, drafting, reviewed>>
caseVars == <<cases, sending, received>>
startVars == <<confirmation, changes>>
formVars == <<status, signVars, caseVars, startVars>>

-----------------------------------------------------------------------------

FormationStatus == {"interested", "formation_started", "documents_generated",
                    "signatures_pending", "dso_submitted", "dso_approved", "active"}

Person == [who : Households, facts : Facts]

Bundle == [manifest : SUBSET Person,
           signing : {"unsigned", "completed", "superseded", "deleted"}]

CaseState == {"claimed", "prepared", "delivered", "acknowledged", "rejected", "failed"}

FormTypeOK ==
    /\ status \in FormationStatus
    /\ member \in [Households -> {"none", "invited", "confirmed", "left"}]
    /\ facts \in [Households -> Facts] /\ consent \in [Households -> BOOLEAN]
    /\ bundles \in Seq(Bundle) /\ Len(bundles) <= MaxBundles
    /\ \A r \in receipts : r.by \in Households /\ r.read \in DOMAIN bundles
    /\ drafting \in (SUBSET Person) \cup {None}
    /\ \A h \in Households : reviewed[h] = None \/ reviewed[h].bundle \in DOMAIN bundles
    /\ \A k \in DOMAIN cases : /\ cases[k].bundle \in DOMAIN bundles
                               /\ cases[k].adapter \in Adapters
                               /\ cases[k].state \in CaseState
                               /\ cases[k].retryable \in BOOLEAN
    /\ \A q \in Submitters : sending[q].at \in {"idle", "checked", "claimed", "answered"}
    /\ confirmation \in {"ahead", "due", None} /\ changes \in 0..MaxChanges

NotSubmitting == [at |-> "idle", bundle |-> None, adapter |-> None, result |-> None]

\* create_community_record: its creator is the first confirmed member.
FormInit ==
    /\ status = "interested"
    /\ \E a \in Managers :
           member = [h \in Households |-> IF h = a THEN "confirmed" ELSE "none"]
    /\ facts \in [Households -> {CHOOSE f \in Facts : TRUE}]
    /\ consent = [h \in Households |-> TRUE]
    /\ bundles = << >> /\ receipts = {}
    /\ drafting = None
    /\ reviewed = [h \in Households |-> None]
    /\ cases = << >>
    /\ sending = [q \in Submitters |-> NotSubmitting]
    /\ received = {}
    /\ confirmation = None /\ changes = 0

-----------------------------------------------------------------------------
(* Members and their profiles.                                             *)

ConfirmedManager(a) == a \in Managers /\ member[a] = "confirmed"

insert_invited_member(h) ==
    /\ \E a \in Managers : ConfirmedManager(a)
    /\ member[h] = "none"
    /\ member' = [member EXCEPT ![h] = "invited"]
    /\ UNCHANGED <<status, facts, consent, bundles, receipts, drafting, reviewed,
                   caseVars, startVars>>

confirm_invited_member(h) ==
    /\ member[h] = "invited"
    /\ member' = [member EXCEPT ![h] = "confirmed"]
    /\ UNCHANGED <<status, facts, consent, bundles, receipts, drafting, reviewed,
                   caseVars, startVars>>

ChangeProfile(h) ==
    /\ member[h] # "left" /\ changes < MaxChanges
    /\ changes' = changes + 1
    /\ \/ facts' \in {[facts EXCEPT ![h] = f] : f \in Facts \ {facts[h]}}
          /\ UNCHANGED consent
       \/ consent' = [consent EXCEPT ![h] = ~@] /\ UNCHANGED facts
    /\ UNCHANGED <<status, member, bundles, receipts, drafting, reviewed,
                   caseVars, confirmation>>

\* A deleted profile takes its membership and its receipts along.
DeleteProfile(h) ==
    /\ member[h] # "left" /\ changes < MaxChanges
    /\ changes' = changes + 1
    /\ member' = [member EXCEPT ![h] = "left"]
    /\ receipts' = {r \in receipts : r.by # h}
    /\ reviewed' = [reviewed EXCEPT ![h] = None]
    /\ UNCHANGED <<status, facts, consent, bundles, drafting, caseVars, confirmation>>

\* start_formation counts the confirmed members; it does not look at the
\* status it replaces.
start_formation ==
    /\ \E a \in Managers : ConfirmedManager(a)
    /\ Cardinality({h \in Households : member[h] = "confirmed"}) >= MinSize
    /\ status' = "formation_started"
    /\ UNCHANGED <<signVars, caseVars, startVars>>

-----------------------------------------------------------------------------
(* Documents.                                                              *)

\* participant_manifest: the confirmed members who consent to be seen
participant_manifest ==
    {[who |-> h, facts |-> facts[h]] :
        h \in {m \in Households : member[m] = "confirmed" /\ consent[m]}}

Names(manifest) == {p.who : p \in manifest}

Live == {b \in DOMAIN bundles : bundles[b].signing \in {"unsigned", "completed"}}

bundle_fingerprint(b, signers) == <<b, signers>>

SignedBy(b, signers) ==
    {r.by : r \in {x \in receipts : x.of = bundle_fingerprint(b, signers)}}

\* generate reads the participants ...
ReadParticipants ==
    /\ \E a \in Managers : ConfirmedManager(a)
    /\ drafting = None
    /\ drafting' = participant_manifest
    /\ UNCHANGED <<status, member, facts, consent, bundles, receipts, reviewed,
                   caseVars, startVars>>

\* A signed bundle gives way only to the drafts of a changed community, and
\* only while all its receipts are there and nothing was submitted.
Supersedable(b, new) == LET original == bundles[b].manifest IN
    /\ status = "signatures_pending" /\ cases = << >>
    /\ original # {} /\ new # {}
    /\ original # participant_manifest /\ new = participant_manifest
    /\ SignedBy(b, Names(original)) = Names(original)

\* ... and replace_leg_document_bundle stores what was written from them.
replace_leg_document_bundle ==
    /\ drafting # None
    /\ Len(bundles) < MaxBundles
    /\ drafting' = None
    /\ IF \A b \in Live : bundles[b].signing = "completed" => Supersedable(b, drafting)
       THEN /\ bundles' = Append(
                   [b \in DOMAIN bundles |->
                       IF b \notin Live THEN bundles[b]
                       ELSE [bundles[b] EXCEPT !.signing =
                               IF @ = "completed" THEN "superseded" ELSE "deleted"]],
                   [manifest |-> drafting, signing |-> "unsigned"])
            /\ status' = "documents_generated"
       ELSE UNCHANGED <<bundles, status>>
    /\ UNCHANGED <<member, facts, consent, receipts, reviewed, caseVars, startVars>>

\* locked_signature_bundle: a live bundle that names exactly the participants
\* of this moment, signed by all of them once the signatures are complete.
locked_signature_bundle(h, b) == LET signers == Names(participant_manifest) IN
    /\ h \in signers
    /\ status \in {"documents_generated", "signatures_pending"}
    /\ Cardinality(signers) >= MinSize
    /\ b \in Live /\ bundles[b].manifest = participant_manifest
    /\ status = "signatures_pending" => SignedBy(b, signers) = signers

formation_signature_bundle(h) == \E b \in Live :
    /\ locked_signature_bundle(h, b)
    /\ reviewed' = [reviewed EXCEPT
           ![h] = [bundle |-> b, signers |-> Names(participant_manifest)]]
    /\ reviewed' # reviewed
    /\ UNCHANGED <<status, member, facts, consent, bundles, receipts, drafting,
                   caseVars, startVars>>

\* The signer names the bundle it reviewed; the last receipt completes it.
record_formation_signature(h) == \E b \in Live :
    LET signers == Names(participant_manifest)
        current == bundle_fingerprint(b, signers)
        signed  == SignedBy(b, signers) \cup {h}
    IN  /\ reviewed[h] # None
        /\ locked_signature_bundle(h, b)
        /\ bundle_fingerprint(reviewed[h].bundle, reviewed[h].signers) = current
        /\ receipts' = IF h \in SignedBy(b, signers) THEN receipts
                       ELSE receipts \cup {[of |-> current, by |-> h,
                                            read |-> reviewed[h].bundle]}
        /\ reviewed' = [reviewed EXCEPT ![h] = None]
        /\ IF signed = signers
           THEN /\ bundles' = [bundles EXCEPT ![b].signing = "completed"]
                /\ status' = "signatures_pending"
           ELSE UNCHANGED <<bundles, status>>
        /\ UNCHANGED <<member, facts, consent, drafting, caseVars, startVars>>

-----------------------------------------------------------------------------
(* Submission to the grid operator.                                        *)

\* submit_formation: the actor consents to be seen, the documents are signed
\* and the receipts are those of the current participants.
CheckSubmission(q, a) == \E b \in Live, x \in Adapters :
    /\ sending[q] = NotSubmitting
    /\ ConfirmedManager(a) /\ consent[a]
    /\ status = "signatures_pending" /\ bundles[b].signing = "completed"
    /\ receipts # {} => locked_signature_bundle(a, b)
    /\ sending' = [sending EXCEPT
           ![q] = [at |-> "checked", bundle |-> b, adapter |-> x, result |-> None]]
    /\ UNCHANGED <<status, signVars, cases, received, startVars>>

Cases(b, x) == {k \in DOMAIN cases : cases[k].bundle = b /\ cases[k].adapter = x}

\* _guard_current_formation_bundle as if the first checks still held
_guard_trusts(b) == b \in DOMAIN bundles

\* no other case of the community, and the checks once more under its lock
_guard_current_formation_bundle(b) ==
    /\ cases = << >>
    /\ status = "signatures_pending"
    /\ b \in Live /\ bundles[b].signing = "completed"
    /\ \E a \in Managers :
           /\ ConfirmedManager(a)
           /\ receipts # {} => locked_signature_bundle(a, b)

\* claim: a new case, a retry of a failed one, or the answer of a known one;
\* a claim that died before its outcome is handed to the next request.
claim(q) == LET s == sending[q] IN
    /\ s.at = "checked"
    /\ IF Cases(s.bundle, s.adapter) # {}
       THEN \E k \in Cases(s.bundle, s.adapter) :
              LET again == cases[k].state = "failed" /\ cases[k].retryable IN
              /\ cases' = IF again THEN [cases EXCEPT ![k].state = "claimed"] ELSE cases
              /\ sending' = [sending EXCEPT ![q] =
                     IF again \/ cases[k].state = "claimed" THEN [s EXCEPT !.at = "claimed"]
                     ELSE NotSubmitting]
       ELSE IF _guard_current_formation_bundle(s.bundle)
       THEN /\ cases' = Append(cases, [bundle |-> s.bundle, adapter |-> s.adapter,
                                       state |-> "claimed", retryable |-> FALSE])
            /\ sending' = [sending EXCEPT ![q].at = "claimed"]
       ELSE sending' = [sending EXCEPT ![q] = NotSubmitting] /\ UNCHANGED cases
    /\ UNCHANGED <<status, signVars, received, startVars>>

\* submit_package: without a transport the package is only prepared.  A
\* transport error may hide a package that arrived.
SendPackage(q) ==
    LET s == sending[q]
        answer(r) == [at |-> "answered", bundle |-> s.bundle, adapter |-> s.adapter, result |-> r]
    IN
    /\ s.at = "claimed"
    /\ \/ /\ s.adapter = Manual
          /\ sending' = [sending EXCEPT ![q] = answer("prepared")]
          /\ UNCHANGED received
       \/ /\ s.adapter # Manual
          /\ \/ \E r \in {"delivered", "acknowledged", "rejected", "lost"} :
                  /\ sending' = [sending EXCEPT ![q] = answer(r)]
                  /\ received' = received \cup {s.bundle}
             \/ \E r \in {"lost", "refused"} :
                  /\ sending' = [sending EXCEPT ![q] = answer(r)]
                  /\ UNCHANGED received
    /\ UNCHANGED <<status, signVars, cases, startVars>>

OutcomeState(r) == IF r \in {"lost", "refused"} THEN "failed" ELSE r

\* the outcomes that move the community along, and a version with one too many
Advances_any(state) == state \in {"delivered", "acknowledged", "failed"}

Advances(state) == state \in {"delivered", "acknowledged"}

\* record_outcome: only a claimed case takes it, and an accepted package only
\* while the community still waits for its submission.
record_outcome(q) == LET s == sending[q] IN
    /\ s.at = "answered"
    /\ sending' = [sending EXCEPT ![q] = NotSubmitting]
    /\ LET open == {k \in Cases(s.bundle, s.adapter) : cases[k].state = "claimed"}
           state == OutcomeState(s.result)
           answered == [bundle |-> s.bundle, adapter |-> s.adapter, state |-> state,
                        retryable |-> s.result = "lost"]
       IN  IF open = {} \/ (Advances(state) /\ status # "signatures_pending")
           THEN UNCHANGED <<cases, status>>
           ELSE /\ cases' = [k \in DOMAIN cases |->
                       IF k \notin open THEN cases[k] ELSE answered]
                /\ status' = IF Advances(state) THEN "dso_submitted" ELSE status
    /\ UNCHANGED <<signVars, received, startVars>>

SubmitterDies(q) ==
    /\ sending[q].at # "idle"
    /\ sending' = [sending EXCEPT ![q] = NotSubmitting]
    /\ UNCHANGED <<status, signVars, cases, received, startVars>>

\* The package of a prepared case was handed over by somebody.
mark_manual_delivered(k) ==
    /\ \E a \in Managers : ConfirmedManager(a) /\ consent[a]
    /\ cases[k].state = "prepared" /\ status = "signatures_pending"
    /\ cases' = [cases EXCEPT ![k].state = "delivered"]
    /\ status' = "dso_submitted"
    /\ received' = received \cup {cases[k].bundle}
    /\ UNCHANGED <<signVars, sending, startVars>>

record_submission_response(k, state) ==
    /\ cases[k].state = "delivered"
    /\ cases' = [cases EXCEPT ![k].state = state]
    /\ UNCHANGED <<status, signVars, sending, received, startVars>>

-----------------------------------------------------------------------------
(* Start of operation.                                                     *)

\* An incoming document with the date; a second, different one is refused.
record_vnb_start_confirmation(date) ==
    /\ \E a \in Managers : ConfirmedManager(a)
    /\ confirmation = None /\ status = "dso_submitted"
    /\ confirmation' = date
    /\ status' = "dso_approved"
    /\ UNCHANGED <<signVars, caseVars, changes>>

activate_community ==
    /\ \E a \in Managers : ConfirmedManager(a)
    /\ confirmation = "due" /\ status = "dso_approved"
    /\ status' = "active"
    /\ UNCHANGED <<signVars, caseVars, startVars>>

StartDayComes ==
    /\ confirmation = "ahead"
    /\ confirmation' = "due"
    /\ UNCHANGED <<status, signVars, caseVars, changes>>

-----------------------------------------------------------------------------

FormNext ==
    \/ \E h \in Households :
        \/ insert_invited_member(h)
        \/ confirm_invited_member(h)
        \/ ChangeProfile(h)
        \/ DeleteProfile(h)
        \/ formation_signature_bundle(h)
        \/ record_formation_signature(h)
    \/ start_formation
    \/ ReadParticipants
    \/ replace_leg_document_bundle
    \/ \E q \in Submitters :
        \/ \E a \in Managers : CheckSubmission(q, a)
        \/ claim(q)
        \/ SendPackage(q)
        \/ record_outcome(q)
        \/ SubmitterDies(q)
    \/ \E k \in DOMAIN cases :
        \/ mark_manual_delivered(k)
        \/ \E state \in {"acknowledged", "rejected"} : record_submission_response(k, state)
    \/ \E date \in {"ahead", "due"} : record_vnb_start_confirmation(date)
    \/ activate_community
    \/ StartDayComes

FormSpec == FormInit /\ [][FormNext]_formVars

-----------------------------------------------------------------------------

\* A bundle that counts as signed was reviewed, document for document, and
\* signed by every household it names that is still there: no draft written
\* from other facts, regenerated or superseded in between borrows a receipt.
SignedByItsReaders ==
    \A b \in DOMAIN bundles : bundles[b].signing \in {"completed", "superseded"} =>
        \A h \in Names(bundles[b].manifest) : member[h] # "left" =>
            \E r \in receipts : r.by = h /\ r.read = b

\* However often a submission dies, fails or is repeated by two managers and
\* with two adapters, the grid operator is sent one bundle, and a signed one.
OneBundleIsSubmitted ==
    /\ \A b, c \in received : b = c
    /\ \A b \in received : bundles[b].signing = "completed"

\* A bundle's signatures are of those who read it, and at most one bundle is
\* submitted (store/formation_signatures.py, store/vnb_exchange.py).
BundlesHold == SignedByItsReaders /\ OneBundleIsSubmitted

\* A community counts as submitted, approved or active only if a case of it
\* reached the grid operator, approved only with the operator's start date
\* and active only from that day on.
StartIsEarned ==
    /\ status \in {"dso_submitted", "dso_approved", "active"} =>
           \E k \in DOMAIN cases : /\ cases[k].state \in {"delivered", "acknowledged", "rejected"}
                                   /\ cases[k].bundle \in received
    /\ status \in {"dso_approved", "active"} => confirmation # None
    /\ status = "active" => confirmation = "due"

=============================================================================
