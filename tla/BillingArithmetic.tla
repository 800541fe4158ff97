------------------------- MODULE BillingArithmetic -------------------------
(***************************************************************************)
(* The money of one billing period: what the engine allocates and prices   *)
(* (billing_engine.py), the draft a run makes of it (billing_runner.py,    *)
(* billing_readings.py, quartierakku.py) and what approval demands of that *)
(* draft before it issues invoices (billing_approval.py).                  *)
(*                                                                         *)
(* The engine computes in floats and persists six decimals.  Here an       *)
(* energy is a number of grains, Grain of them to a persisted quantum      *)
(* (0.000001 kWh); a reading is a multiple of Step quanta.  A price is     *)
(* Price/PriceUnit money quanta per energy quantum.  Rounding is half up.  *)
(***************************************************************************)
EXTENDS Integers, FiniteSets, FiniteSetsExt

CONSTANTS
    Members,      \* the participants, 1..n in the order of their ids
    Quarters,     \* the 15-minute intervals
    Readings,     \* [Quarters -> [Members -> [made, used]]] in steps
    Grain, Step,
    Prices,       \* internal prices in use
    Fee,          \* the settlement fee, where one is charged
    PriceUnit,
    Cent,         \* money quanta to a cent
    VatPct,
    AnnualShare,  \* battery cost per member and period, in money quanta
    Batteries     \* [of, capacity] of the shared battery, NoBattery among them

ASSUME ArithmeticAssumption ==
    /\ {Grain, Step, PriceUnit, Cent} \subseteq Nat \ {0}
    /\ Prices \subseteq Nat /\ {Fee, VatPct, AnnualShare} \subseteq Nat
    /\ IsFiniteSet(Members) /\ Members \subseteq Nat /\ Cardinality(Members) >= 2
    /\ IsFiniteSet(Quarters)
    /\ \A r \in Readings : \A t \in Quarters, p \in Members : {r[t][p].made, r[t][p].used} \subseteq Nat

VARIABLES
    month,        \* readings, policy, battery and delivery of the period
    delivered,    \* the grid operator's split of it
    stage,        \* "open", "refused", "draft" or "invoiced"
    draft,        \* the persisted draft
    bills         \* per member: the invoice

moneyVars == <<month, delivered, stage, draft, bills>>

-----------------------------------------------------------------------------
(* Quantities.                                                             *)

HalfUp(x, unit) == (2 * x + unit) \div (2 * unit)

Smaller(x, y) == IF x <= y THEN x ELSE y

Abs(x) == IF x < 0 THEN -x ELSE x

Made(m, t) == [p \in Members |-> m.readings[t][p].made * Step * Grain]

Used(m, t) == [p \in Members |-> m.readings[t][p].used * Step * Grain]

SumOf(f) == MapThenSumSet(LAMBDA p : f[p], DOMAIN f)

\* Each consumer's share of what was produced, never more than it used.
Proportional(made, used) ==
    LET all == SumOf(used) IN
    [p \in Members |-> IF all = 0 THEN 0
                       ELSE (used[p] * Smaller(made, all)) \div all]

\* An equal share, capped by use; the rest goes to those with use left over.
FilledUp(first, unfilled, rest, all) ==
    [p \in Members |->
        first[p] + IF rest > Step * Grain /\ all > 0
                   THEN Smaller(unfilled[p], (unfilled[p] * rest) \div all) ELSE 0]

TakenUp(made, used, first) ==
    FilledUp(first, [p \in Members |-> used[p] - first[p]], made - SumOf(first),
             SumOf(used) - SumOf(first))

Einfach(made, used) ==
    TakenUp(made, used,
            [p \in Members |-> Smaller(used[p], made \div Cardinality(Members))])

Allocated(m, made, used) ==
    IF m.model = "proportional" THEN Proportional(made, used) ELSE Einfach(made, used)

allocate_energy(m) == [t \in Quarters |-> Allocated(m, SumOf(Made(m, t)), Used(m, t))]

\* What the producers of an interval are credited of what was allocated: given.
Shared(made, all, taken) ==
    [p \in Members |-> IF all = 0 THEN 0 ELSE (made[p] * taken) \div all]

Credited(m, given) ==
    [t \in Quarters |-> Shared(Made(m, t), SumOf(Made(m, t)), SumOf(given[t]))]

OverSlots(split) == [p \in Members |-> MapThenSumSet(LAMBDA t : split[t][p], Quarters)]

Persisted(f) == [p \in Members |-> HalfUp(f[p], Grain)]

-----------------------------------------------------------------------------
(* The grid operator's split: its own rounding of the model, by step in an *)
(* E66 file and by quantum in a calculated delivery, or one that gives a   *)
(* step of the first consumer to the last.                                 *)

Precision(m) == IF m.format = "e66/1" THEN Step ELSE 1

Reported(m, split) ==
    [t \in Quarters |-> [p \in Members |->
        HalfUp(split[t][p], Grain * Precision(m)) * Precision(m)]]

Moved(m, f) == LET a == Min(Members)
                   b == Max(Members)
               IN  IF m.split = "own" /\ f[a] >= Precision(m)
                   THEN [f EXCEPT ![a] = @ - Precision(m), ![b] = @ + Precision(m)] ELSE f

Delivery(m, given) ==
    [consumption |-> [t \in Quarters |-> Moved(m, Reported(m, given)[t])],
     production |-> Reported(m, Credited(m, given))]

\* _vnb_reference: the members' totals; billed verbatim when they balance.
_vnb_reference ==
    [consumption |-> OverSlots(delivered.consumption),
     production |-> OverSlots(delivered.production)]

VnbImbalance == SumOf(_vnb_reference.consumption) # SumOf(_vnb_reference.production)

-----------------------------------------------------------------------------
(* The battery: a member whose production is discharge and whose use is    *)
(* charging.                                                               *)

Battery(m) == m.battery.of

NoBattery == [of |-> 0, capacity |-> 0]

HasBattery(m) == m.battery # NoBattery

\* Some opening state must explain the whole series within the capacity.
BatteryFits(m) ==
    LET state[t \in Quarters \cup {0}] ==
            IF t = 0 THEN 0
            ELSE state[t - 1] + Used(m, t)[Battery(m)] - Made(m, t)[Battery(m)]
    IN  \A t, u \in DOMAIN state : state[t] - state[u] <= m.battery.capacity * Step * Grain

BatteryIsOneWay(m) ==
    \A t \in Quarters : Used(m, t)[Battery(m)] = 0 \/ Made(m, t)[Battery(m)] = 0

Consuming(m) == Members \ {Battery(m)}

\* Grains of a consumer's allocation that came out of the battery.
FromBattery(m, given) ==
    [p \in Consuming(m) |->
        Smaller(MapThenSumSet(LAMBDA t : Shared(Made(m, t), SumOf(Made(m, t)),
                                                given[t][p])[Battery(m)], Quarters),
                Persisted(OverSlots(given))[p] * Grain)]

\* Who gets one of the quanta that flooring leaves: the largest remainders, then
\* the smallest ids.
Before(raw, p, q) ==
    \/ raw[p] % Grain > raw[q] % Grain
    \/ raw[p] % Grain = raw[q] % Grain /\ p < q

Rank(raw, p) == Cardinality({q \in DOMAIN raw : Before(raw, q, p)})

Apportioned(raw, floors, target) ==
    [p \in DOMAIN raw |->
        floors[p] + IF Rank(raw, p) < target - SumOf(floors) THEN 1 ELSE 0]

AttributionOf(m, used, battery, target) ==
    [battery |-> battery,
     direct |-> [p \in Consuming(m) |-> used[p] - battery[p]],
     allocated |-> target,
     charged |-> Persisted(OverSlots([t \in Quarters |-> Used(m, t)]))[Battery(m)],
     discharged |-> Persisted(OverSlots([t \in Quarters |-> Made(m, t)]))[Battery(m)]]

Attributed(m, given, raw, target) ==
    AttributionOf(m, Persisted(OverSlots(given)),
                  Apportioned(raw, [p \in DOMAIN raw |-> raw[p] \div Grain], target), target)

QuantaFrom(m, given, raw) == Attributed(m, given, raw, HalfUp(SumOf(raw), Grain))

_battery_source_attribution(m, given) == QuantaFrom(m, given, FromBattery(m, given))

-----------------------------------------------------------------------------
(* The lines.                                                              *)

_priced_amount(quantity, price) == HalfUp(quantity * price, PriceUnit)

_currency(amount) == HalfUp(amount, Cent)

Line(p, type, quantity, price, amount) ==
    [of |-> p, type |-> type, quantity |-> quantity, price |-> price, amount |-> amount]

None == -1

Priced(f, type, price, sign) ==
    {Line(p, type, f[p], price, sign * _priced_amount(f[p], price)) : p \in DOMAIN f}

Amounts(lines) == MapThenSumSet(LAMBDA l : l.amount, lines)

EnergyPriced(m, billed) ==
    Priced(billed.consumption, "consumer_charge", m.price, 1)
    \cup Priced(billed.production, "producer_credit", m.price, -1)

RoundingAdjustment(residue) ==
    IF residue = 0 THEN {}
    ELSE {Line(Min(Members), "rounding_adjustment", None, None, -residue)}

\* Charges, credits and the smallest producer's adjustment of their residue;
\* the settlement fee is on top.
WithFee(m, billed, energy) ==
    energy \cup RoundingAdjustment(Amounts(energy))
        \cup (IF m.fee = 0 THEN {}
              ELSE Priced(billed.consumption, "settlement_fee", m.fee, 1))

EnergyLines(m, billed) == WithFee(m, billed, EnergyPriced(m, billed))

BatteryLines(m) ==
    IF HasBattery(m)
    THEN {Line(p, "battery_cost_share", None, None, AnnualShare) : p \in Consuming(m)}
    ELSE {}

\* _generate_billing_summary refuses a battery whose billed split departs
\* from the engine's.
BilledAsAllocated(m, given) ==
    /\ _vnb_reference.consumption = Persisted(OverSlots(given))
    /\ _vnb_reference.production = Persisted(OverSlots(Credited(m, given)))

\* run_billing_period: with a battery every interval must agree, too.
IntervalsAgree(m, given) ==
    \A t \in Quarters :
        /\ delivered.consumption[t] = Persisted(given[t])
        /\ delivered.production[t] = Persisted(Credited(m, given)[t])

\* Certified source quantities are priced as they are; the audit then keeps
\* the model's own.
PrecisionBasis(m) == m.format = "e66/1" /\ ~HasBattery(m)

Entry(vnb, engine) == [vnb |-> vnb, engine |-> engine, difference |-> engine - vnb]

Compared(vnb, ours) ==
    [side \in {"consumption", "production"} |->
        [total |-> Entry(SumOf(vnb[side]), SumOf(ours[side])),
         each |-> [p \in Members |-> Entry(vnb[side][p], ours[side][p])]]]

reconcile_with_vnb(m, given) ==
    Compared(_vnb_reference,
             IF PrecisionBasis(m)
             THEN [consumption |-> Persisted(OverSlots(given)),
                   production |-> Persisted(OverSlots(Credited(m, given)))]
             ELSE _vnb_reference)

Valued(m, source) ==
    [source |-> source,
     value |-> [p \in Consuming(m) |->
                   _currency(_priced_amount(source.battery[p], m.price))]]

BatterySnapshot(m, given) == Valued(m, _battery_source_attribution(m, given))

NoSnapshot == [value |-> << >>]

DraftOf(m, given) ==
    [lines |-> EnergyLines(m, _vnb_reference) \cup BatteryLines(m),
     audit |-> reconcile_with_vnb(m, given),
     battery |-> IF HasBattery(m) THEN BatterySnapshot(m, given) ELSE NoSnapshot]

RunRefuses(m, given) ==
    \/ VnbImbalance
    \/ HasBattery(m) /\ \/ ~IntervalsAgree(m, given)
                        \/ ~BatteryIsOneWay(m)
                        \/ ~BatteryFits(m)
                        \/ ~BilledAsAllocated(m, given)

NoDraft == [lines |-> {}]

\* What else refuses a run: no tariff, no accepted evidence, readings with a
\* gap, no provenance, members without a share of the battery, and for
\* certified pricing a source the audit does not explain.
Gate(m) ==
    {"passed", "billing_tariff_missing", "vnb_evidence_missing",
     "metering_readings_invalid", "billing_provenance_missing"}
    \cup (IF HasBattery(m) THEN {"battery_configuration_invalid"} ELSE {})
    \cup (IF PrecisionBasis(m) THEN {"vnb_allocation_mismatch"} ELSE {})

run_billing_period ==
    /\ stage = "open"
    /\ \E gate \in Gate(month), given \in {allocate_energy(month)} :
          IF gate # "passed" \/ RunRefuses(month, given)
          THEN stage' = "refused" /\ UNCHANGED draft
          ELSE stage' = "draft" /\ draft' = DraftOf(month, given)
    /\ UNCHANGED <<month, delivered, bills>>

-----------------------------------------------------------------------------
(* Approval, from the draft, its frozen policy and the delivery alone.     *)

OfType(lines, type) == {l \in lines : l.type = type}

Quantities(lines, type) ==
    [p \in {l.of : l \in OfType(lines, type)} |->
        MapThenSumSet(LAMBDA l : l.quantity, {l \in OfType(lines, type) : l.of = p})]

\* mutant: a line's amount is taken as it is stored
_validated_line_item_amount_unchecked(m, l) ==
    l.type \in {"consumer_charge", "producer_credit", "settlement_fee"} =>
        /\ l.quantity >= 0
        /\ l.price = (IF l.type = "settlement_fee" THEN m.fee ELSE m.price)

_validated_line_item(m, l) ==
    IF l.type \in {"rounding_adjustment", "battery_cost_share"}
    THEN /\ l.quantity = None /\ l.price = None
         /\ l.type = "battery_cost_share" => l.amount >= 0
    ELSE /\ l.quantity >= 0
         /\ l.price = (IF l.type = "settlement_fee" THEN m.fee ELSE m.price)
         /\ l.amount = (IF l.type = "producer_credit" THEN -1 ELSE 1)
                       * _priced_amount(l.quantity, l.price)

Energy(lines) == OfType(lines, "consumer_charge") \cup OfType(lines, "producer_credit")

Mismatch(lines) == Abs(SumOf(Quantities(lines, "consumer_charge"))
                       - SumOf(Quantities(lines, "producer_credit")))

\* The residue rounding can leave, in halves of a quantum and of a price unit.
_require_rounding_adjustment(m, lines) ==
    LET residue == Amounts(Energy(lines))
        adjustments == OfType(lines, "rounding_adjustment")
    IN  IF residue = 0 THEN adjustments = {}
        ELSE /\ Cardinality(adjustments) = 1
             /\ \A l \in adjustments :
                   /\ l.of = Min(DOMAIN Quantities(lines, "producer_credit"))
                   /\ l.amount = -residue
             /\ 2 * PriceUnit * Abs(residue)
                  <= 2 * Mismatch(lines) * m.price + PriceUnit * Cardinality(Energy(lines))

_require_wellformed_line_items(m, lines) ==
    /\ lines # {}
    /\ \A l \in lines : _validated_line_item(m, l)
    /\ \A l, k \in lines \ OfType(lines, "rounding_adjustment") :
          l.of = k.of /\ l.type = k.type => l = k
    /\ 2 * Mismatch(lines) <= Cardinality(Energy(lines))
    /\ IF m.fee = 0 THEN OfType(lines, "settlement_fee") = {}
       ELSE Quantities(lines, "settlement_fee") = Quantities(lines, "consumer_charge")
    /\ IF OfType(lines, "producer_credit") = {}
       THEN OfType(lines, "rounding_adjustment") = {}
       ELSE _require_rounding_adjustment(m, lines)

_validated_difference(m, e) ==
    /\ e.difference = e.engine - e.vnb
    /\ PrecisionBasis(m) \/ e.difference = 0

Basis(m, e) == IF PrecisionBasis(m) THEN e.vnb ELSE e.engine

_require_canonical_reconciliation(m, audit, lines) ==
    \A side \in {"consumption", "production"} :
        LET billed == Quantities(lines, IF side = "consumption" THEN "consumer_charge"
                                        ELSE "producer_credit")
        IN  /\ _validated_difference(m, audit[side].total)
            /\ DOMAIN billed = DOMAIN audit[side].each
            /\ \A p \in DOMAIN billed : /\ _validated_difference(m, audit[side].each[p])
                                        /\ Basis(m, audit[side].each[p]) = billed[p]
            /\ Basis(m, audit[side].total) = SumOf(billed)

\* what the engine itself makes of the delivery's readings
IndependentAudit(m) == LET given == allocate_energy(m) IN
    Compared(_vnb_reference,
             [consumption |-> Persisted(OverSlots(given)),
              production |-> Persisted(OverSlots(Credited(m, given)))])

\* An E66 delivery's own quantities are what is billed, and the audit is the
\* one the engine makes anew.  The certificate, computed anew from the same
\* delivery and model, is SourceAudit's.
validate_billed_source(m, audit, lines) ==
    m.format = "e66/1" =>
        /\ Quantities(lines, "consumer_charge") = _vnb_reference.consumption
        /\ Quantities(lines, "producer_credit") = _vnb_reference.production
        /\ audit = IndependentAudit(m)

_require_battery_cost_shares(m, lines) ==
    LET shares == OfType(lines, "battery_cost_share") IN
    IF ~HasBattery(m) THEN shares = {}
    ELSE /\ \A l, k \in shares : l.of = k.of => l = k
         /\ {l.of : l \in shares} = {l.of : l \in lines} \ {Battery(m)}
         /\ \A l \in shares : l.amount = AnnualShare

BatteryBalances(m, d, lines) ==
    LET used == Quantities(lines, "consumer_charge")
        source == d.battery.source
    IN  /\ DOMAIN source.battery = DOMAIN used \ {Battery(m)}
        /\ source.discharged >= source.allocated
        /\ \A p \in DOMAIN source.battery : /\ source.direct[p] >= 0
                                            /\ source.direct[p] + source.battery[p] = used[p]
        /\ SumOf(source.battery) = source.allocated
        /\ Quantities(lines, "producer_credit")[Battery(m)] = source.allocated
        /\ Battery(m) \in DOMAIN used /\ used[Battery(m)] <= source.charged

\* The worth of battery energy is rounded to the cent once here.
BatteryValued(m, d) ==
    \A p \in DOMAIN d.battery.value :
        d.battery.value[p] = HalfUp(d.battery.source.battery[p] * m.price, PriceUnit * Cent)

_require_battery_energy_snapshot(m, d, lines) ==
    HasBattery(m) => BatteryBalances(m, d, lines) /\ BatteryValued(m, d)

LinesApprovable(m, d, lines) ==
    /\ _require_wellformed_line_items(m, lines)
    /\ validate_billed_source(m, d.audit, lines)
    /\ _require_canonical_reconciliation(m, d.audit, lines)
    /\ _require_battery_cost_shares(m, lines)

Approvable(m, d, lines) ==
    LinesApprovable(m, d, lines) /\ _require_battery_energy_snapshot(m, d, lines)

\* One invoice per member with a line, rounded to cents.
Cents(x) == IF x < 0 THEN -HalfUp(-x, Cent) ELSE HalfUp(x, Cent)

Snapshots(lines) ==
    [p \in {l.of : l \in lines} |->
        LET net == Cents(Amounts({l \in lines : l.of = p}))
            vat == IF net < 0 THEN -HalfUp(-net * VatPct, 100) ELSE HalfUp(net * VatPct, 100)
        IN  [net |-> net, vat |-> vat, gross |-> net + vat]]

\* A draft that is not approvable stays a draft.
prepare_invoice_snapshots ==
    /\ stage = "draft" /\ Approvable(month, draft, draft.lines)
    /\ stage' = "invoiced" /\ bills' = Snapshots(draft.lines)
    /\ UNCHANGED <<month, delivered, draft>>

NoBills == << >>

BilledMonths ==
    [readings : Readings, model : {"proportional", "einfach"}, price : Prices,
     fee : {0, Fee}, format : {"e66/1", "json/1"}, split : {"model", "own"},
     battery : Batteries]

MoneyStart ==
    /\ delivered = Delivery(month, allocate_energy(month))
    /\ stage = "open" /\ draft = NoDraft /\ bills = NoBills

MoneyNext == run_billing_period \/ prepare_invoice_snapshots

MoneySpec == month \in BilledMonths /\ MoneyStart /\ [][MoneyNext]_moneyVars

MoneyTypeOK ==
    /\ stage \in {"open", "refused", "draft", "invoiced"}
    /\ stage \in {"draft", "invoiced"} <=> draft # NoDraft
    /\ stage = "invoiced" => DOMAIN bills = Members

-----------------------------------------------------------------------------
(* Properties.                                                             *)

\* No rounding and no redistribution of the grid operator's meets a check of
\* approval that does not foresee it, as far as lines, audit and battery cost
\* go; the split of battery energy and its worth are BatteryDraftsAreApprovable.
LinesAreApprovable == stage = "draft" => LinesApprovable(month, draft, draft.lines)

\* One thing different in the lines: an amount, a quantity priced anew, the
\* member, or a line less.
Altered(m, lines) ==
    UNION {LET others == lines \ {l}
               Reprice(q) == [l EXCEPT !.quantity = q,
                   !.amount = (IF l.type = "producer_credit" THEN -1 ELSE 1)
                              * _priced_amount(q, l.price)]
           IN  {others}
               \cup {others \cup {[l EXCEPT !.amount = @ + d]} : d \in {-1, 1}}
               \cup {others \cup {[l EXCEPT !.of = p]} : p \in Members \ {l.of}}
               \cup (IF l.quantity \in {None, 0} THEN {}
                     ELSE {others \cup {Reprice(l.quantity + d)} : d \in {-1, 1}})
           : l \in lines}

\* Approval pins the lines: with the policy, the audit and the delivery given
\* no other line set is approved, so what members pay each other cancels.
ApprovalPinsTheLines ==
    stage = "draft" =>
        /\ \A lines \in Altered(month, draft.lines) : ~LinesApprovable(month, draft, lines)
        /\ Amounts(Energy(draft.lines) \cup OfType(draft.lines, "rounding_adjustment")) = 0

\* tests/test_billing_approval.py: an engine-produced battery draft is
\* approved.  The engine rounds the worth of battery energy twice, and caps what
\* a consumer has from the battery by a use rounded before it adds up.
BatteryDraftsAreApprovable ==
    stage = "draft" => Approvable(month, draft, draft.lines)
=============================================================================
