-------------------------- MODULE MeteringRegister --------------------------
(***************************************************************************)
(* Which metering points belong to a community, what the grid operator     *)
(* delivered for them, and the gate a month of it has to pass before it is *)
(* billed: the register of store/metering.py, filled by the participant    *)
(* list (scripts/import_metering_points.py) and by the deliveries, and     *)
(* load_period_frames of billing_readings.py.                              *)
(*                                                                         *)
(* A list is one transaction, a delivery two: its readings and stubs, then *)
(* its row in the ledger, which a failed import leaves out or a later one  *)
(* brings.  A billing run makes three queries, in one REPEATABLE READ      *)
(* transaction; lists, deliveries and confirmed memberships go on between  *)
(* them.  How deliveries come to be imported is MeteringImport's subject,  *)
(* what is billed from the frames is BillingArithmetic's.                  *)
(***************************************************************************)
EXTENDS Naturals, Sequences, FiniteSets, FiniteSetsExt

CONSTANTS
    MeterIds,       \* metering points
    Houses,         \* buildings
    Grid,           \* the quarter hours of the month
    Documents,     \* documents of the grid operator
    RowsOf,         \* RowsOf[d]: the readings of document d
    LegOf,          \* LegOf[d]: the LEG the grid operator names in d
    Lists,          \* participant lists
    EntriesOf,      \* EntriesOf[l]: the points of list l
    Calculated,     \* the accepted deliveries of calculated values
    Runs,           \* billing runs of the month
    Unset           \* NULL

Flows == {"consumption", "production"}

ASSUME RegisterAssumption ==
    /\ IsFiniteSet(Houses)
    /\ LegOf \in [Documents -> {LegOf[d] : d \in Documents}]
    /\ \A d \in Documents : DOMAIN RowsOf[d] = 1 .. Len(RowsOf[d]) /\ Len(RowsOf[d]) \in Nat
    /\ \A d \in Documents : \A i \in DOMAIN RowsOf[d] :
           /\ RowsOf[d][i].point \in MeterIds
           /\ RowsOf[d][i].flow \in Flows
           /\ RowsOf[d][i].shared \in Nat \cup {Unset}
    /\ \A l \in Lists : \A e \in EntriesOf[l] :
           /\ e.point \in MeterIds /\ e.ours \in {TRUE, Unset}
           /\ e.house \in Houses \cup {Unset} /\ (e.flows = Unset \/ e.flows # {})

VARIABLES
    metering_points,       \* metering_points, the active ones
    meter,          \* metering_point_readings
    saved,          \* documents whose readings some import has committed
    imported,       \* sdat_imports
    membership,     \* community_members.status, by building
    billingRun      \* per run: how far it is, and what it has read

gateVars == <<metering_points, meter, saved, imported, membership, billingRun>>

-----------------------------------------------------------------------------

Stub == [ours |-> Unset, house |-> Unset, flows |-> Unset]

NoRun == [at |-> "idle"]

GateTypeOK ==
    /\ \A p \in DOMAIN metering_points : p \in MeterIds /\ DOMAIN metering_points[p] = DOMAIN Stub
    /\ \A r \in meter : r.point \in DOMAIN metering_points /\ r.document \in saved
    /\ imported \subseteq saved /\ saved \subseteq Documents
    /\ membership \in [Houses -> {"invited", "confirmed"}]
    /\ \A r \in Runs : billingRun[r].at \in {"idle", "points", "readings", "refused", "loaded"}

GateInit ==
    /\ metering_points = << >> /\ meter = {} /\ saved = {} /\ imported = {}
    /\ membership \in [Houses -> {"invited", "confirmed"}]
    /\ billingRun = [r \in Runs |-> NoRun]

-----------------------------------------------------------------------------

Coalesce(new, old) == IF new = Unset THEN old ELSE new

\* An empty field never empties the register.
Enriched(old, e) ==
    [ours |-> Coalesce(e.ours, old.ours), house |-> Coalesce(e.house, old.house),
     flows |-> Coalesce(e.flows, old.flows)]

EntryOf(p) == IF p \in DOMAIN metering_points THEN metering_points[p] ELSE Stub

\* _read_points: an entry with an unknown direction is left out whole.
_read_points(l) == {e \in EntriesOf[l] : e.flows = Unset \/ e.flows \subseteq Flows}

\* One statement: a list that names a point twice is not written at all.
upsert_metering_points(l) == LET entries == _read_points(l) IN
    /\ \A e, f \in entries : e.point = f.point => e = f
    /\ metering_points' = [p \in DOMAIN metering_points \cup {e.point : e \in entries} |->
           IF \E e \in entries : e.point = p
           THEN Enriched(EntryOf(p), CHOOSE e \in entries : e.point = p)
           ELSE EntryOf(p)]
    /\ UNCHANGED <<meter, saved, imported, membership, billingRun>>

ReadingKey(r) == <<r.point, r.flow, r.at>>

\* of rows with one key the last counts
_dedupe(rows) ==
    {rows[i] : i \in {i \in DOMAIN rows :
        \A j \in DOMAIN rows : ReadingKey(rows[j]) = ReadingKey(rows[i]) => j <= i}}

\* what a document leaves in the table
RowsSaved == [d \in Documents |->
    {[document |-> d, point |-> r.point, flow |-> r.flow, at |-> r.at,
      shared |-> r.shared, sound |-> r.sound] : r \in _dedupe(RowsOf[d])}]

\* save_metering_point_readings: unknown points get a stub, known readings the
\* newer values and their document.  A file is saved again after its ledger row
\* failed, by an overlapping import, or with --force.
save_metering_point_readings(d) == LET rows == RowsSaved[d] IN
    /\ saved' = saved \cup {d}
    /\ metering_points' = [p \in DOMAIN metering_points \cup {r.point : r \in rows} |-> EntryOf(p)]
    /\ meter' = {r \in meter : \A new \in rows : ReadingKey(new) # ReadingKey(r)} \cup rows
    /\ UNCHANGED <<imported, membership, billingRun>>

\* A transaction of its own; one that fails leaves readings without a ledger row.
record_sdat_import(d) ==
    /\ d \in saved \ imported
    /\ imported' = imported \cup {d}
    /\ UNCHANGED <<metering_points, meter, saved, membership, billingRun>>

ConfirmMembership(h) ==
    /\ membership[h] = "invited"
    /\ membership' = [membership EXCEPT ![h] = "confirmed"]
    /\ UNCHANGED <<metering_points, meter, saved, imported, billingRun>>

-----------------------------------------------------------------------------

Stored == [register |-> metering_points, meter |-> meter, imported |-> imported,
           membership |-> membership]

SeenBy_committed(r) == Stored

\* Every query of the transaction sees what the first one saw.
SeenBy(r) == IF billingRun[r] = NoRun THEN Stored ELSE billingRun[r].began

Assigned(s) == {p \in DOMAIN s.register : s.register[p].ours = TRUE}

\* get_community_metering_points, with the membership of the building
PointsOf(s) ==
    [p \in Assigned(s) |-> LET e == s.register[p] IN
        [house |-> e.house, flows |-> e.flows,
         member |-> IF e.house = Unset THEN "missing" ELSE s.membership[e.house]]]

ReadingsOf(s) == {r \in s.meter : r.point \in Assigned(s)}

\* The ledger alone says which LEG a document is of.
LegsOf(s, points) ==
    {LegOf[r.document] : r \in {r \in s.meter : r.point \in points /\ r.document \in s.imported}} \ {Unset}

\* Points without a community whose readings came in documents of the LEG
\* that the community's own points are delivered under, by the ledger.
UnassignedOf(s) ==
    {p \in DOMAIN s.register :
        /\ s.register[p].ours = Unset
        /\ LegsOf(s, {p}) \cap LegsOf(s, Assigned(s)) # {}}

\* load_period_frames up to its first query.  The evidence was looked up by
\* run_billing_period in a transaction of its own.
BeginRun(r, evidence) ==
    /\ billingRun[r] = NoRun
    /\ billingRun' = [billingRun EXCEPT ![r] =
           [at |-> "points", evidence |-> evidence, began |-> Stored, points |-> PointsOf(SeenBy(r))]]
    /\ UNCHANGED <<metering_points, meter, saved, imported, membership>>

ReadReadings(r) == LET run == billingRun[r] IN
    /\ run.at = "points"
    /\ billingRun' = [billingRun EXCEPT ![r] =
           [at |-> "readings", evidence |-> run.evidence, began |-> run.began,
            points |-> run.points, readings |-> ReadingsOf(SeenBy(r))]]
    /\ UNCHANGED <<metering_points, meter, saved, imported, membership>>

-----------------------------------------------------------------------------

\* Who is billed for a point, and which series it must deliver.
Billable(points) == {p \in DOMAIN points : points[p].house # Unset /\ points[p].member = "confirmed"}

Declared(points) == {p \in Billable(points) : points[p].flows # Unset}

_participant_map(points) ==
    {<<"unmapped_point", p>> : p \in {p \in DOMAIN points : points[p].house = Unset}}
    \cup {<<"unconfirmed_member", p>> : p \in {p \in DOMAIN points :
              points[p].house # Unset /\ points[p].member # "confirmed"}}
    \cup {<<"undeclared_direction", p>> : p \in Billable(points) \ Declared(points)}

\* Each declared series covers each quarter hour.
_check_gaps(points, rows) == LET seen == {ReadingKey(r) : r \in rows} IN
    {<<"missing_interval", p>> : p \in {p \in Declared(points) :
        \E f \in points[p].flows, t \in Grid : <<p, f, t>> \notin seen}}

RowDefects(points, r) ==
    IF r.point \notin Billable(points) THEN {"unknown_point"}
    ELSE {kind \in {"unsound", "unexpected_direction", "missing_vnb_allocation", "misaligned_interval"} :
            \/ kind = "unsound" /\ ~r.sound
            \/ /\ kind = "unexpected_direction"
               /\ r.point \in Declared(points) => r.flow \notin points[r.point].flows
            \/ kind = "missing_vnb_allocation" /\ r.shared = Unset
            \/ kind = "misaligned_interval" /\ r.at \notin Grid}

\* sound stands for the resolution, the presence of a total, and finite
\* channels that are not negative; the table admits no duplicate.
_check_rows(points, rows) ==
    (UNION {{<<kind, r.point>> : kind \in RowDefects(points, r)} : r \in rows})
    \cup _check_gaps(points, {r \in rows : r.point \in Billable(points) /\ r.at \in Grid})

SharedBy(rows) == MapThenSumSet(LAMBDA r : r.shared, rows)

\* per direction and building, what the grid operator assigned to it
Delivered(points, rows) ==
    [f \in Flows |-> [h \in {points[p].house : p \in DOMAIN points} |->
        SharedBy({r \in rows : r.flow = f /\ points[r.point].house = h})]]

SumOver(totals) == MapThenSumSet(LAMBDA h : totals[h], DOMAIN totals)

\* _vnb_reference: the two sides must balance exactly.
Balanced(totals) == SumOver(totals["consumption"]) = SumOver(totals["production"])

\* with_calculated_vnb_evidence: every participant in one direction at least;
\* a missing one counts as nothing.
Completed(evidence, houses) ==
    [f \in Flows |-> [h \in houses |-> IF h \in DOMAIN evidence[f] THEN evidence[f][h] ELSE 0]]

with_calculated_vnb_evidence(evidence, houses) ==
    IF DOMAIN evidence["consumption"] \cup DOMAIN evidence["production"] # houses
    THEN Unset
    ELSE Completed(evidence, houses)

VnbTotals(run) == LET houses == {run.points[p].house : p \in DOMAIN run.points} IN
    IF run.evidence = Unset THEN Delivered(run.points, run.readings)
    ELSE with_calculated_vnb_evidence(run.evidence, houses)

Problems(run, unassigned) ==
    _participant_map(run.points)
    \cup {<<"unassigned_point", p>> : p \in unassigned}
    \cup (IF run.readings = {} THEN {<<"no_readings", Unset>>}
          ELSE _check_rows(run.points, run.readings))

\* The last query, and the verdict: the frames or every problem found.
load_period_frames(r) == LET run == billingRun[r] IN
    /\ run.at = "readings"
    /\ billingRun' = [billingRun EXCEPT ![r] =
           IF Problems(run, UnassignedOf(SeenBy(r))) # {} THEN [at |-> "refused"]
           ELSE IF VnbTotals(run) = Unset \/ ~Balanced(VnbTotals(run)) THEN [at |-> "refused"]
           ELSE [at |-> "loaded", began |-> run.began, totals |-> VnbTotals(run),
                 calculated |-> run.evidence # Unset,
                 physical |-> {[point |-> x.point, flow |-> x.flow, at |-> x.at] : x \in run.readings}]]
    /\ UNCHANGED <<metering_points, meter, saved, imported, membership>>

\* the run goes on with its frames, or reports its problems
EndRun(r) ==
    /\ billingRun[r].at \in {"loaded", "refused"}
    /\ billingRun' = [billingRun EXCEPT ![r] = NoRun]
    /\ UNCHANGED <<metering_points, meter, saved, imported, membership>>

GateNext ==
    \/ \E l \in Lists : upsert_metering_points(l)
    \/ \E d \in Documents : save_metering_point_readings(d) \/ record_sdat_import(d)
    \/ \E h \in Houses : ConfirmMembership(h)
    \/ \E r \in Runs : \/ \E evidence \in Calculated \cup {Unset} : BeginRun(r, evidence)
                       \/ ReadReadings(r) \/ load_period_frames(r) \/ EndRun(r)

GateSpec == GateInit /\ [][GateNext]_gateVars

-----------------------------------------------------------------------------

\* the points delivered with the community's own, whoever they are assigned to,
\* as far as the ledger knew their documents when the run began
Belonging(s) == Assigned(s) \cup UnassignedOf(s)

\* What a run that passed the gate owes to the tables it began with.
WholeMonth(run) ==
    LET s == run.began
        of(p) == {x \in s.meter : x.point = p}
    IN
    /\ \A p \in Belonging(s) :
          /\ s.register[p].house # Unset /\ s.membership[s.register[p].house] = "confirmed"
          /\ {ReadingKey(x) : x \in of(p)} = {p} \X s.register[p].flows \X Grid
          /\ \A x \in of(p) : x.sound
    /\ {<<x.point, x.flow, x.at>> : x \in run.physical}
           = {ReadingKey(x) : x \in {x \in s.meter : x.point \in Belonging(s)}}
    /\ Balanced(run.totals)
    /\ ~run.calculated =>
          \A f \in Flows : SumOver(run.totals[f])
              = SharedBy({x \in s.meter : x.point \in Belonging(s) /\ x.flow = f})

\* A month that passes the gate is whole: as the tables stood at one moment,
\* nobody whom the ledger shows delivered with the community is left out (a
\* delivery between its two transactions is not shown), every point is a
\* confirmed member's and has each declared series in every quarter hour, and
\* the members are billed all that was delivered and no more, balanced
\* (billing_readings.py load_period_frames, store/metering.py
\* get_billable_period_snapshot).
MonthIsWhole == \A r \in Runs : billingRun[r].at = "loaded" => WholeMonth(billingRun[r])
=============================================================================
