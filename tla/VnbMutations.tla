---------------------------- MODULE VnbMutations ----------------------------
(***************************************************************************)
(* Changes of participants reported to the grid operator: the mutation     *)
(* half of vnb_exchange.py and store/vnb_exchange.py.                      *)
(*                                                                         *)
(* A request reads the membership and an earlier command of the same id,   *)
(* claims a case, delivers it and records the outcome, each in a           *)
(* transaction of its own; it may die between them and be sent again, by   *)
(* the same client or another, while the membership goes on changing.      *)
(* Responses arrive late, twice or contradictory.                          *)
(***************************************************************************)
EXTENDS Naturals, FiniteSets

CONSTANTS
    Mutations,      \* mutation ids
    Participants,
    Requests,       \* requests that submit a mutation
    Automated,      \* kinds of change the adapter can deliver
    MaxDeaths,      \* bound on requests that die
    NoCase

Changes == {"join", "exit", "change"}

ASSUME MutationAssumption == Automated \subseteq Changes /\ MaxDeaths \in Nat

VARIABLES
    enrolled,       \* community_members.status
    mutation,       \* vnb_mutation_cases, by mutation id
    ledger,         \* vnb_mutation_events
    ask,            \* per request: how far it is
    told,           \* what the grid operator was told
    deaths

mutVars == <<enrolled, mutation, ledger, ask, told, deaths>>

-----------------------------------------------------------------------------

Enrolment == {"invited", "confirmed"}

Command == [kind : Changes, of : Participants, before : Enrolment]

Open == {"claimed", "prepared", "delivered"}
Final == {"acknowledged", "rejected", "superseded"}
CaseStates == Open \cup Final \cup {"failed"}

MutationCase == [facts : Command, state : CaseStates]

ASSUME NoCaseAssumption == NoCase \notin MutationCase

MutTypeOK ==
    /\ enrolled \in [Participants -> Enrolment]
    /\ mutation \in [Mutations -> MutationCase \cup {NoCase}]
    /\ ledger \subseteq Mutations \X CaseStates
    /\ \A r \in Requests : ask[r].at \in {"idle", "read", "checked", "claimed", "answered"}
    /\ told \subseteq [id : Mutations, facts : Command]

Unasked == [at |-> "idle", id |-> NoCase, facts |-> NoCase, result |-> NoCase]

MutInit ==
    /\ enrolled = [p \in Participants |-> "invited"]
    /\ mutation = [m \in Mutations |-> NoCase]
    /\ ledger = {} /\ told = {}
    /\ ask = [r \in Requests |-> Unasked]
    /\ deaths = 0

-----------------------------------------------------------------------------

\* The member confirms the invitation by itself.
Confirm(p) ==
    /\ enrolled[p] = "invited"
    /\ enrolled' = [enrolled EXCEPT ![p] = "confirmed"]
    /\ UNCHANGED <<mutation, ledger, ask, told, deaths>>

\* A change of the role or the status is admitted for whoever is a member.
Admissible(kind, p) ==
    /\ kind = "join" => enrolled[p] = "invited"
    /\ kind = "exit" => enrolled[p] = "confirmed"

\* submit_membership_mutation: a known id must mean the same change; while
\* its case is only claimed, the recorded facts are sent once more.  A new
\* one takes the facts of this moment.
submit_membership_mutation(r, m, kind, p) ==
    /\ ask[r] = Unasked
    /\ IF mutation[m] # NoCase
       THEN /\ mutation[m].facts.kind = kind /\ mutation[m].facts.of = p
            /\ mutation[m].state = "claimed"
            /\ ask' = [ask EXCEPT ![r] =
                   [Unasked EXCEPT !.at = "read", !.id = m, !.facts = mutation[m].facts]]
       ELSE /\ Admissible(kind, p)
            /\ ask' = [ask EXCEPT ![r] = [Unasked EXCEPT !.at = "read", !.id = m,
                   !.facts = [kind |-> kind, of |-> p, before |-> enrolled[p]]]]
    /\ UNCHANGED <<enrolled, mutation, ledger, told, deaths>>

SameCommand_by_kind(c, facts) == c.facts.kind = facts.kind /\ c.facts.of = facts.of

\* the fingerprint covers the facts before and after
SameCommand(c, facts) == c.facts = facts

\* claim_mutation, its statements before the insert: a known id answers, and
\* an open mutation of the participant is a conflict.
CheckClaim(r) == LET s == ask[r] IN
    /\ s.at = "read"
    /\ ask' = [ask EXCEPT ![r] =
           IF mutation[s.id] # NoCase
           THEN IF SameCommand(mutation[s.id], s.facts) /\ mutation[s.id].state = "claimed"
                THEN [s EXCEPT !.at = "claimed"] ELSE Unasked
           ELSE IF \E m \in Mutations : /\ mutation[m] # NoCase
                                        /\ mutation[m].facts.of = s.facts.of
                                        /\ mutation[m].state \in Open
                THEN Unasked ELSE [s EXCEPT !.at = "checked"]]
    /\ UNCHANGED <<enrolled, mutation, ledger, told, deaths>>

\* ... and the insert, which only the mutation id makes unique
InsertClaim(r) == LET s == ask[r] IN
    /\ s.at = "checked"
    /\ IF mutation[s.id] = NoCase
       THEN /\ mutation' = [mutation EXCEPT ![s.id] = [facts |-> s.facts, state |-> "claimed"]]
            /\ ask' = [ask EXCEPT ![r].at = "claimed"]
       ELSE ask' = [ask EXCEPT ![r] = Unasked] /\ UNCHANGED mutation
    /\ UNCHANGED <<enrolled, ledger, told, deaths>>

\* submit_participant_mutation: a transport error may hide an arrival.
DeliverMutation(r) == LET s == ask[r] IN
    /\ s.at = "claimed"
    /\ \E result \in IF s.facts.kind \in Automated
                     THEN {"delivered", "acknowledged", "rejected", "failed"}
                     ELSE {"prepared"} :
           /\ ask' = [ask EXCEPT ![r].at = "answered", ![r].result = result]
           /\ \/ /\ s.facts.kind \in Automated
                 /\ told' = told \cup {[id |-> s.id, facts |-> s.facts]}
              \/ result \in {"prepared", "failed"} /\ UNCHANGED told
    /\ UNCHANGED <<enrolled, mutation, ledger, deaths>>

\* record_mutation_outcome: the ledger and the case, if it is still claimed
record_mutation_outcome(r) == LET s == ask[r] IN
    /\ s.at = "answered"
    /\ ask' = [ask EXCEPT ![r] = Unasked]
    /\ IF mutation[s.id].state = "claimed"
       THEN /\ mutation' = [mutation EXCEPT ![s.id].state = s.result]
            /\ ledger' = ledger \cup {<<s.id, s.result>>}
       ELSE UNCHANGED <<mutation, ledger>>
    /\ UNCHANGED <<enrolled, told, deaths>>

RequestDies(r) ==
    /\ ask[r] # Unasked /\ deaths < MaxDeaths
    /\ ask' = [ask EXCEPT ![r] = Unasked]
    /\ deaths' = deaths + 1
    /\ UNCHANGED <<enrolled, mutation, ledger, told>>

mark_mutation_manual_delivered(m) ==
    /\ mutation[m] # NoCase /\ mutation[m].state = "prepared"
    /\ mutation' = [mutation EXCEPT ![m].state = "delivered"]
    /\ ledger' = ledger \cup {<<m, "delivered">>}
    /\ told' = told \cup {[id |-> m, facts |-> mutation[m].facts]}
    /\ UNCHANGED <<enrolled, ask, deaths>>

\* A final answer stays; before it, any response moves the case.
record_mutation_response(m, state) ==
    /\ mutation[m] # NoCase /\ mutation[m].state \notin Final
    /\ mutation' = [mutation EXCEPT ![m].state = state]
    /\ ledger' = ledger \cup {<<m, state>>}
    /\ UNCHANGED <<enrolled, ask, told, deaths>>

-----------------------------------------------------------------------------

MutNext ==
    \/ \E p \in Participants : Confirm(p)
    \/ \E r \in Requests :
        \/ \E m \in Mutations, kind \in Changes, p \in Participants :
               submit_membership_mutation(r, m, kind, p)
        \/ CheckClaim(r)
        \/ InsertClaim(r)
        \/ DeliverMutation(r)
        \/ record_mutation_outcome(r)
        \/ RequestDies(r)
    \/ \E m \in Mutations :
        \/ mark_mutation_manual_delivered(m)
        \/ \E state \in Final \cup {"failed"} : record_mutation_response(m, state)

MutSpec == MutInit /\ [][MutNext]_mutVars

-----------------------------------------------------------------------------

\* What the grid operator is told under an id is what its case records,
\* whichever request, retry or handover told it and however the membership
\* changed since; and every state of a case has its evidence in the ledger,
\* a final one as the only final one.
ToldIsRecorded ==
    /\ \A t \in told : mutation[t.id] # NoCase /\ mutation[t.id].facts = t.facts
    /\ \A m \in Mutations : mutation[m] # NoCase /\ mutation[m].state # "claimed" =>
           /\ <<m, mutation[m].state>> \in ledger
           /\ Cardinality({s \in Final : <<m, s>> \in ledger}) <= 1

\* docs/vnb-exchange.md: a second pending mutation for the same participant
\* is rejected.  Two claims that check before either inserts are not.
OneOpenMutation ==
    \A p \in Participants :
        Cardinality({m \in Mutations : /\ mutation[m] # NoCase
                                       /\ mutation[m].facts.of = p
                                       /\ mutation[m].state \in Open}) <= 1

=============================================================================
