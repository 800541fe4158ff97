---------------------------- MODULE MCCommunity ----------------------------
(* Members and their money: registrations, contacts between neighbours,    *)
(* the formation of a LEG and its submission, the changes reported to the  *)
(* grid operator afterwards, the files accepted as evidence of a month,    *)
(* the payments of its invoices, the archive of its records, and the       *)
(* programs that read them for operators.  They share no state; part says  *)
(* which one a behaviour is about.                                         *)
(*                                                                         *)
(* Two invoices of 2 CHF.  Statement s1 holds the same payment twice, s2   *)
(* the booking of s1 exported again, an exact payment with an unknown      *)
(* reference, a reversal and one without a reference; s3 a part payment,   *)
(* an overpayment and an exact one.                                        *)
EXTENDS BankReconciliation, Registration, Formation, VnbMutations, ContactRequests,
        CommunityArchive, SourceEvidence, OperatorAccess, TLC

CONSTANTS i1, i2, h1, s1, s2, s3, q1, q2, r1, r2, m1, m2, b1, j1, j2, e1, e2, e3, e4, p1, p2

VARIABLE part

MCParticipant == [i \in Invoices |-> h1]
MCMethod == [i \in Invoices |-> "download"]
MCGross == [i \in Invoices |-> 2]
MCNumber == [i \in Invoices |-> IF i = i1 THEN "n1" ELSE "n2"]

Credit(ref, amount) == [ref |-> ref, amount |-> amount, credit |-> TRUE, reversal |-> FALSE]
Back(ref, amount) == [ref |-> ref, amount |-> amount, credit |-> TRUE, reversal |-> TRUE]

MCContent ==
    [s \in Statements |->
        CASE s = s1 -> <<Credit("n1", 2), Credit("n1", 2)>>
          [] s = s2 -> <<Credit("n1", 2), Credit("typo", 2), Back("n1", 2),
                         Credit(NoReference, 2)>>
          [] s = s3 -> <<Credit("n2", 1), Credit("n2", 3), Credit("n2", 2)>>]

MCBookingKeys ==
    {BankKey(<<s, k>>) : s \in Statements, k \in 1 .. 4} \cup {OperatorKey(k) : k \in OperatorKeys}

KeySymmetry == Permutations(OperatorKeys)

\* The first link ever mailed goes to b1: the mailboxes only differ in their name.
InterestScope == links = << >> => \A k \in DOMAIN links' : links'[k].to = b1

\* The second restore begins beside the first.
ArchiveScope ==
    restoring'[j2] # Resting /\ restoring[j2] = Resting => restoring[j1] # Resting

\* Requests that only differ in their name begin in one order.  Two submissions,
\* or one without a transport, meet no changed profile.  A change and a join are
\* reported, the join by hand; "superseded" is handled as "rejected" is, and
\* "exit" as "join".
FormationScope ==
    /\ sending'[q2] # NotSubmitting /\ sending[q2] = NotSubmitting => sending[q1] # NotSubmitting
    /\ \A q \in Submitters : sending'[q].adapter = Manual \/ sending'[q2].at # "idle" => changes' = 0

MutationScope ==
    /\ ask'[r2] # Unasked /\ ask[r2] = Unasked => ask[r1] # Unasked
    /\ \A r \in Requests : ask'[r] # Unasked =>
           ask'[r].facts.kind = IF ask'[r].id = m1 THEN "change" ELSE "join"
    /\ deaths' = deaths \/ \E r \in Requests : ask[r] = Unasked
    /\ \A m \in Mutations : <<m, "superseded">> \notin ledger'

\* Two files with one document id, a correction, and one that lacks a channel; a consumer's point, that may
\* become the other house's or a prosumer's, and a producer's.
MCPointOrder == (p1 :> 1 @@ p2 :> 2)
MCIdOf == [s \in Sources |-> IF s = e3 THEN "d2" ELSE "d1"]
MCStatusOf == [s \in Sources |-> IF s = e3 THEN "5" ELSE "9"]
MCBlocksOf ==
    [s \in Sources |-> {b \in [point : {p1, p2}, flow : {"consumption", "production"}, leg : {"leg"},
                                channel : {"total", "community", "grid"}, whole : {TRUE}] :
                           b.flow = (IF b.point = p1 THEN "consumption" ELSE "production")
                           /\ (s = e4 => b.channel # "grid")}]

Bound(house, flows) == [house |-> house, leg |-> "leg", flows |-> flows]

MCBindings == {Bound("x", {"consumption"}), Bound("y", {"production"}),
               Bound("x", {"consumption", "production"})}

AtFirst == (p1 :> Bound("x", {"consumption"}) @@ p2 :> Bound("y", {"production"}))

\* One point changes hands; the second request begins beside the first.
EvidenceScope ==
    /\ work'[j2] # NoJob /\ work[j2] = NoJob => work[j1] # NoJob
    /\ \A j \in Jobs : work[j] = NoJob /\ work'[j] # NoJob =>
           /\ work'[j].kind = "list" => work'[j].arg.point = p1
           /\ work'[j].kind = "withdraw" => \E d \in accepted : d.file = work'[j].arg.file

\* Rows come and go while one program reads with one token in an hour; the
\* limit of a client is tried by several programs on a list without rows.
Reading == {r \in Readers : reader[r] # NoReading}
AccessScope ==
    \/ tokens <= 1 /\ Cardinality(Reading) <= 1 /\ clockHour = 0
    \/ items = << >> /\ \A r \in Reading : reader[r].filter = Unlimited /\ reader[r].size = 1

MCInit ==
    /\ part \in {"payments", "evidence", "interest", "formation", "mutations", "contacts", "archive", "access"}
    /\ ReconInit /\ RegInit /\ FormInit /\ MutInit /\ ContactInit /\ ArchiveInit /\ AccessInit
    /\ SourceInit /\ binding = AtFirst /\ enrolment["y"] = "confirmed"
    /\ part # "evidence" => (\A p \in Metered : statement[p] = Undated) /\ enrolment["x"] = "invited"

MCNext ==
    /\ UNCHANGED part
    /\ \/ /\ part = "payments" /\ ReconNext
          /\ UNCHANGED <<regVars, formVars, mutVars, contactVars, archiveVars, sourceVars, accessVars>>
       \/ /\ part = "interest" /\ RegNext /\ InterestScope
          /\ UNCHANGED <<reconVars, formVars, mutVars, contactVars, archiveVars, sourceVars, accessVars>>
       \/ /\ part = "formation" /\ FormNext /\ FormationScope
          /\ UNCHANGED <<reconVars, regVars, mutVars, contactVars, archiveVars, sourceVars, accessVars>>
       \/ /\ part = "mutations" /\ MutNext /\ MutationScope
          /\ UNCHANGED <<reconVars, regVars, formVars, contactVars, archiveVars, sourceVars, accessVars>>
       \/ /\ part = "contacts" /\ ContactNext
          /\ UNCHANGED <<reconVars, regVars, formVars, mutVars, archiveVars, sourceVars, accessVars>>
       \/ /\ part = "archive" /\ ArchiveNext /\ ArchiveScope
          /\ UNCHANGED <<reconVars, regVars, formVars, mutVars, contactVars, sourceVars, accessVars>>
       \/ /\ part = "evidence" /\ SourceNext /\ EvidenceScope
          /\ UNCHANGED <<reconVars, regVars, formVars, mutVars, contactVars, archiveVars, accessVars>>
       \/ /\ part = "access" /\ AccessNext /\ AccessScope'
          /\ UNCHANGED <<reconVars, regVars, formVars, mutVars, contactVars, archiveVars, sourceVars>>

MCSpec == MCInit /\ [][MCNext]_<<reconVars, regVars, formVars, mutVars, contactVars, archiveVars,
                             sourceVars, accessVars, part>>

TypesOK == ReconTypeOK /\ RegTypeOK /\ FormTypeOK /\ MutTypeOK /\ ContactTypeOK
           /\ ArchiveTypeOK /\ SourceTypeOK /\ AccessTypeOK

\* The tables keep their types, the grid operator was told nothing that is not
\* on record (store/vnb_exchange.py), restored records hang together
\* (community_archive.py), calls are limited, and lists are read in whole
\* (store/operator_api.py, store/operator_operations.py).
RecordsOK == TypesOK /\ ToldIsRecorded /\ RecordsHangTogether /\ CallsAreServed
=============================================================================
