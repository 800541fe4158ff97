------------------------------ MODULE MCBilling ------------------------------
(* Billing of one community: the gate its readings pass, the life of its   *)
(* periods under concurrent requests, the money of one period, and the     *)
(* audit of one delivered interval.  part says which one a behaviour is    *)
(* about; the periods are looked at twice, for what deliveries do to one   *)
(* month ("evidence") and for what approval does to two ("approval").      *)
EXTENDS MCBillingPeriods, BillingArithmetic, SourceAudit, MeteringRegister

CONSTANTS pa, pb, pc, hx, hy

VARIABLE part

\* A consumer and a producer, then a household with both that nobody has
\* assigned; one document with every defect, one under another LEG's name.
Reading(p, f, t, e) == [point |-> p, flow |-> f, at |-> t, shared |-> e, sound |-> TRUE]

MCRowsOf ==
    "first" :> <<Reading(pa, "consumption", 1, 1), Reading(pa, "consumption", 2, 1),
                 Reading(pb, "production", 1, 2), Reading(pb, "production", 2, 0)>>
    @@ "prosumer" :> [i \in 1 .. 4 |-> Reading(pc, IF i < 3 THEN "consumption" ELSE "production",
                                               IF i \in {1, 3} THEN 1 ELSE 2, 1)]
    @@ "defective" :> <<[Reading(pa, "consumption", 1, 1) EXCEPT !.sound = FALSE],
                        Reading(pa, "consumption", 1, Unset), Reading(pb, "production", 3, 1)>>
    @@ "corrected" :> <<Reading(pa, "consumption", 1, 2), Reading(pb, "production", 1, 3)>>

MCLegOf == [d \in Documents |-> IF d = "corrected" THEN "leg2" ELSE "leg"]

MCEntriesOf ==
    "members" :> {[point |-> pa, ours |-> TRUE, house |-> hx, flows |-> {"consumption"}],
                  [point |-> pb, ours |-> TRUE, house |-> hy, flows |-> {"production"}]}
    @@ "newcomer" :> {[point |-> pc, ours |-> TRUE, house |-> hx, flows |-> Unset]}
    @@ "series" :> {[point |-> pc, ours |-> Unset, house |-> Unset, flows |-> Flows],
                    [point |-> pa, ours |-> TRUE, house |-> hy, flows |-> {"consumption", "typo"}]}

\* one that fits, one that does not balance, one that knows another circle
MCCalculated ==
    {[consumption |-> (hx :> 2), production |-> (hy :> 2)],
     [consumption |-> (hx :> 2), production |-> (hx :> 1 @@ hy :> 2)],
     [consumption |-> (hx :> 2), production |-> (hx :> 2)]}

\* One of three members may share its surplus as the battery; it uses or feeds
\* enough to fill the others' need in whole, in part or not at all.
FirstQuarter ==
    {r \in [Members -> [made : {0, 1, 3}, used : {0, 1, 2}]] :
        r[1].made # 3 /\ r[2].made # 1 /\ r[3].used # 2}

SecondQuarter(feed) ==
    [p \in Members |-> [made |-> IF p = 3 THEN feed ELSE 0, used |-> IF p = 3 THEN 0 ELSE p]]

MCReadings == {<<r, SecondQuarter(feed)>> : r \in FirstQuarter, feed \in {1, 3}}

MCBatteries == {NoBattery, [of |-> 3, capacity |-> 4]}

AMonth == CHOOSE m \in BilledMonths : TRUE

AnInterval == CHOOSE i \in Intervals : TRUE

MCInit ==
    /\ Init /\ verdict = NoWitness /\ GateInit
    /\ \/ /\ part \in {"evidence", "approval", "gate"}
          /\ month = AMonth /\ interval = AnInterval /\ source = << >>
       \/ /\ part = "money"
          /\ month \in BilledMonths /\ interval = AnInterval /\ source = << >>
       \/ /\ part = "audit"
          /\ month = AMonth /\ interval \in Intervals /\ source \in Sources(interval)
    /\ IF part = "gate" THEN membership[hy] = "confirmed"
       ELSE membership = [h \in Houses |-> "invited"]
    /\ MoneyStart

AdminsSeen ==
    {periods[i].preparer : i \in DOMAIN periods}
    \cup {proc[p].admin : p \in {q \in Procs : "admin" \in DOMAIN proc[q]}}

\* Three overlapping deliveries of the first month; one administrator acts,
\* nothing else changes.
EvidenceScope ==
    /\ Cardinality(AdminsSeen \ {Nobody}) <= 1
    /\ ledger[february] = "none"
    /\ <<inputs, registration, dual>> = <<0, 0, FALSE>>
    /\ \A p \in Procs : proc[p] # Idle =>
          /\ proc[p].pc # "submitting" \/ proc[p].file # february
          /\ "draft" \notin DOMAIN proc[p] \/ proc[p].draft.window \in FirstMonth

\* One delivery of each month; the inputs or a registration change, while
\* one administrator is enough.
ApprovalScope ==
    /\ inputs + registration <= 1 /\ (inputs + registration = 1 => ~dual)
    /\ \A p \in Procs : proc[p] # Idle /\ proc[p].pc = "submitting" =>
           proc[p].file \in {january, february}

\* Three of the four documents arrive; imports take turns, each between its two
\* transactions; one change between the queries of a run.
Changed(new, old) == IF new = old THEN 0 ELSE 1

ChangedSince(s) ==
    Changed(metering_points', s.register) + Changed(meter', s.meter)
    + Changed(imported', s.imported) + Changed(membership', s.membership)

GateScope ==
    /\ Cardinality(saved') <= 3 /\ Cardinality(saved' \ imported') <= 1
    /\ meter' # meter => saved' # imported'
    /\ \A r \in Runs : billingRun'[r].at \in {"points", "readings", "loaded"} =>
           ChangedSince(billingRun'[r].began) <= 1

PeriodStep ==
    /\ Next
    /\ part = "evidence" => EvidenceScope'
    /\ part = "approval" => ApprovalScope'

MCNext ==
    /\ UNCHANGED part
    /\ \/ /\ part \in {"evidence", "approval"} /\ PeriodStep
          /\ UNCHANGED <<moneyVars, auditVars, gateVars>>
       \/ part = "money" /\ MoneyNext /\ UNCHANGED <<vars, auditVars, gateVars>>
       \/ part = "audit" /\ AuditNext /\ UNCHANGED <<vars, moneyVars, gateVars>>
       \/ part = "gate" /\ GateNext /\ GateScope /\ UNCHANGED <<vars, moneyVars, auditVars>>

MCSpec == MCInit /\ [][MCNext]_<<vars, moneyVars, auditVars, gateVars, part>>

\* The money of one period alone.
MCMoneySpec == MCSpec /\ part = "money"

BillingSymmetry == Permutations(Procs) \cup Permutations(Admins)

TypesOK == TypeOK /\ MoneyTypeOK /\ (part = "audit" => AuditTypeOK) /\ GateTypeOK

\* The tables keep their types, and a month has one live period however many
\* runs were started for it, its invoices numbered on (store/billing.py
\* save_billing_period, issue_invoices).
RecordsOK == TypesOK /\ OneLivePeriodPerWindow /\ NumbersRunOn

\* The lines of a draft are approved as the engine drafted them: each check of
\* approval about lines, audit and battery cost agrees with the engine on every
\* month, and none lets altered lines pass (billing_engine.py,
\* billing_approval.py).
DraftsAndApprovalAgree == LinesAreApprovable /\ ApprovalPinsTheLines
=============================================================================
