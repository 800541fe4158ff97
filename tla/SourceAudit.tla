---------------------------- MODULE SourceAudit ----------------------------
(***************************************************************************)
(* The audit of a grid operator's E66 delivery (billing_reconciliation.py).*)
(* Of every metering point an interval reports three channels, the total,  *)
(* the local share and the residual from or to the grid, each rounded half *)
(* up on its own.  The audit looks for one allocation that explains every  *)
(* channel's rounding cell, or refuses the delivery for billing.           *)
(*                                                                         *)
(* Energies are whole numbers of parts, Quantum (even) of them to the      *)
(* 0.001 kWh a channel is rounded to; a ratio is a pair of numerator and   *)
(* denominator.  One interval stands for the delivery, which is refused    *)
(* with the first interval the audit refuses.                              *)
(***************************************************************************)
EXTENDS Integers, FiniteSets, FiniteSetsExt

CONSTANTS
    Quantum,
    MaxSteps,               \* _MAX_STEPS of the search for a ratio
    Consumers, Producers,   \* metering points
    Loads                   \* what a point may use or produce in an interval

ASSUME AuditAssumption ==
    /\ Quantum \in Nat \ {0} /\ Quantum % 2 = 0 /\ MaxSteps \in Nat
    /\ Loads \subseteq Nat
    /\ IsFiniteSet(Consumers) /\ IsFiniteSet(Producers) /\ Consumers \cap Producers = {}

VARIABLES
    interval,      \* the operator's model and what it measured of each point
    source,        \* what it delivers: per point the channels in quanta
    verdict        \* the outcome of the audit

auditVars == <<interval, source, verdict>>

Points == Consumers \cup Producers

Channels == {"total", "local", "residual"}

-----------------------------------------------------------------------------
(* Ratios.                                                                 *)

gcd[b \in Nat] == [a \in Nat |-> IF b = 0 THEN a ELSE gcd[a % b][b]]

GCD(a, b) == gcd[b][a]

Ratio(n, d) == IF n = 0 THEN <<0, 1>> ELSE <<n \div GCD(n, d), d \div GCD(n, d)>>

Less(a, b) == a[1] * b[2] < b[1] * a[2]

Plus(a, b) == Ratio(a[1] * b[2] + b[1] * a[2], a[2] * b[2])

Between(a, b) == LET sum == Plus(a, b) IN Ratio(sum[1], 2 * sum[2])

Times(a, n) == Ratio(a[1] * n, a[2])

Least(S) == CHOOSE a \in S : \A b \in S : ~Less(b, a)

Greatest(S) == CHOOSE a \in S : \A b \in S : ~Less(a, b)

RatioSum(f) == FoldSet(LAMBDA p, sum : Plus(sum, f[p]), <<0, 1>>, DOMAIN f)

Greater(x, y) == IF x >= y THEN x ELSE y

Lesser(x, y) == IF x <= y THEN x ELSE y

SumAt(f, S) == MapThenSumSet(LAMBDA p : f[p], S)

-----------------------------------------------------------------------------
(* The cells.                                                              *)

_cell(value) ==
    [lower |-> Greater(0, value * Quantum - Quantum \div 2),
     upper |-> value * Quantum + Quantum \div 2]

Row(p) == [c \in Channels |-> _cell(source[p][c])]

_intersection(a, b) ==
    [lower |-> Greater(a.lower, b.lower), upper |-> Lesser(a.upper, b.upper)]

Meet(a, b) == LET both == _intersection(a, b) IN both.lower < both.upper

_zero_allocation(fully, unused) ==
    /\ \A p \in fully, c \in Channels : Row(p)[c].lower = 0
    /\ \A p \in unused : Row(p).local.lower = 0 /\ Meet(Row(p).total, Row(p).residual)

UsedUp(points) ==
    /\ points # {}
    /\ \A p \in points : Row(p).residual.lower = 0 /\ Meet(Row(p).total, Row(p).local)

_fully_used(points) ==
    LET each == [p \in points |-> _intersection(Row(p).total, Row(p).local)] IN
    [lower |-> SumAt([p \in points |-> each[p].lower], points),
     upper |-> SumAt([p \in points |-> each[p].upper], points)]

LowerBounds(r) ==
    {Ratio(r.local.lower, r.total.upper),
     Ratio(r.local.lower, r.local.lower + r.residual.upper)}
    \cup (IF r.total.lower > r.residual.upper
          THEN {Ratio(r.total.lower - r.residual.upper, r.total.lower)} ELSE {})

\* mutant: the ratio is not bounded by the reported total
UpperBounds_unbounded(r) ==
    {Ratio(r.local.upper, r.residual.lower + r.local.upper)}

UpperBounds(r) ==
    {Ratio(Greater(r.total.upper - r.residual.lower, 0), r.total.upper),
     Ratio(r.local.upper, r.residual.lower + r.local.upper)}
    \cup (IF r.total.lower > 0 THEN {Ratio(r.local.upper, r.total.lower)} ELSE {})

_ratio_bounds(points) ==
    [lower |-> Greatest({<<0, 1>>} \cup UNION {LowerBounds(Row(p)) : p \in points}),
     upper |-> Least({<<1, 1>>} \cup UNION {UpperBounds(Row(p)) : p \in points})]

-----------------------------------------------------------------------------
(* The proportional witness.                                               *)

\* What the three cells of a point leave open of its allocation at a ratio.
AllocatedAt(ratio, p, bound) ==
    {Times(ratio, Row(p).total[bound]), <<Row(p).local[bound], 1>>,
     Times(Ratio(ratio[1], ratio[2] - ratio[1]), Row(p).residual[bound])}

AtLeast(ratio, p) == Greatest(AllocatedAt(ratio, p, "lower"))

AtMost(ratio, p) == Least(AllocatedAt(ratio, p, "upper"))

TooMuch(ratio, points, available) ==
    ~Less(RatioSum([p \in points |-> AtLeast(ratio, p)]), <<available.upper, 1>>)

TooLittle(ratio, points, available) ==
    ~Less(<<available.lower, 1>>, RatioSum([p \in points |-> AtMost(ratio, p)]))

Resolved(ratio) == [outcome |-> "certified", ratio |-> ratio]

Unresolved == [outcome |-> "unresolved_vnb_rounding_boundary"]

NoWitness == [outcome |-> "none"]

\* Bisection; an accepted midpoint is the witness.
Narrowed(deeper, open, ratio, partly, available) ==
    IF TooMuch(ratio, partly, available) THEN deeper[[open EXCEPT !.upper = ratio]]
    ELSE IF TooLittle(ratio, partly, available) THEN deeper[[open EXCEPT !.lower = ratio]]
    ELSE Resolved(ratio)

Bisected(partly, available, bounds) ==
    LET search[n \in 0..MaxSteps] ==
            [open \in [lower : Nat \X Nat, upper : Nat \X Nat] |->
                IF n = 0 THEN Unresolved
                ELSE CHOOSE found \in {Narrowed(search[n - 1], open, ratio, partly, available) :
                                          ratio \in {Between(open.lower, open.upper)}} : TRUE]
    IN  search[MaxSteps][bounds]

Ratios(bounds) == Less(bounds.lower, bounds.upper)

_partial_allocation(fully, partly) ==
    IF UsedUp(fully) /\ partly # {} /\ Ratios(_ratio_bounds(partly))
    THEN Bisected(partly, _fully_used(fully), _ratio_bounds(partly))
    ELSE NoWitness

Other(side) == IF side = Consumers THEN Producers ELSE Consumers

Witnessed(partial) ==
    IF \E w \in partial : w.outcome = "certified"
    THEN CHOOSE w \in partial : w.outcome = "certified"
    ELSE IF Unresolved \in partial THEN Unresolved
    ELSE [outcome |-> "allocation_disagreement"]

_interval_witness ==
    CASE \E side \in {Producers, Consumers} : _zero_allocation(side, Other(side)) ->
            Resolved(<<0, 1>>)
      [] /\ UsedUp(Consumers) /\ UsedUp(Producers)
         /\ Meet(_fully_used(Consumers), _fully_used(Producers)) -> Resolved(<<1, 1>>)
      [] OTHER -> Witnessed({_partial_allocation(side, Other(side)) :
                                side \in {Producers, Consumers}})

-----------------------------------------------------------------------------
(* The einfach witness: equal shares of the reported totals, what is left  *)
(* shared by the use left over.                                            *)

EqualShares(total) ==
    [p \in Consumers |->
        Least({<<total[p], 1>>, Ratio(SumAt(total, Producers), Cardinality(Points))})]

\* a - b, of a number and a ratio.
Minus(a, b) == Ratio(a * b[2] - b[1], b[2])

Spread(first, free, rest, open) ==
    [p \in Consumers |->
        IF Less(<<Quantum, 1>>, rest) /\ open[1] > 0
        THEN Plus(first[p], Least({free[p], Ratio(rest[1] * free[p][1] * open[2],
                                                  rest[2] * free[p][2] * open[1])}))
        ELSE first[p]]

WithRest(first, free, rest) == Spread(first, free, rest, RatioSum(free))

Topped(total, first) ==
    WithRest(first, [p \in Consumers |-> Minus(total[p], first[p])],
             Minus(SumAt(total, Producers), RatioSum(first)))

Shares(total) == Topped(total, EqualShares(total))

Split(total, shares, made, given) ==
    [p \in Points |-> IF p \in Consumers THEN shares[p]
                      ELSE IF made = 0 THEN <<0, 1>>
                      ELSE Ratio(total[p] * given[1], made * given[2])]

CreditedBy(total, shares) == Split(total, shares, SumAt(total, Producers), RatioSum(shares))

EinfachModel(total) == CreditedBy(total, Shares(total))

Within(x, cell) == ~Less(x, <<cell.lower, 1>>) /\ Less(x, <<cell.upper, 1>>)

Explained(total, model) ==
    \A p \in Points : /\ Within(model[p], Row(p).local)
                      /\ Within(Minus(total[p], model[p]), Row(p).residual)

_einfach_interval_witness ==
    IF \E total \in {[p \in Points |-> source[p].total * Quantum]} :
          \E model \in {EinfachModel(total)} : Explained(total, model)
    THEN Resolved(<<1, 1>>) ELSE [outcome |-> "unresolved_vnb_einfach_rounding"]

-----------------------------------------------------------------------------
(* The operator (outside the program) allocates and rounds.                *)

RoundHalfUp(x) == (2 * x[1] + x[2] * Quantum) \div (2 * x[2] * Quantum)

\* The shorter side is used up; the longer one shares it by its totals.
ProportionalModel(total) ==
    LET shared == Lesser(SumAt(total, Consumers), SumAt(total, Producers))
        Side(p) == SumAt(total, IF p \in Consumers THEN Consumers ELSE Producers)
    IN  [p \in Points |-> IF total[p] = 0 THEN <<0, 1>> ELSE Ratio(total[p] * shared, Side(p))]

Rounded(total, local) ==
    [p \in Points |->
        [total |-> RoundHalfUp(<<total[p], 1>>),
         local |-> RoundHalfUp(local[p]),
         residual |-> RoundHalfUp(Minus(total[p], local[p]))]]

Reports(i) ==
    Rounded(i.total, IF i.model = "einfach" THEN EinfachModel(i.total)
                     ELSE ProportionalModel(i.total))

Off(r, p, c) ==
    {[r EXCEPT ![p][c] = v] : v \in {r[p][c] + 1, r[p][c] - 1} \cap Nat}

\* A delivery follows the model, has one channel off by a quantum, or lacks a
\* point.
Departures(r) ==
    {r} \cup (UNION {Off(r, p, c) : p \in Points, c \in Channels})
        \cup {[q \in Points \ {p} |-> r[q]] : p \in Points}

Sources(i) == Departures(Reports(i))

\* _group_source: exactly the mapped points are reported.
_group_source == DOMAIN source = Points

audit_e66 ==
    /\ verdict = NoWitness
    /\ verdict' = CASE ~_group_source -> [outcome |-> "incomplete_vnb_source"]
                    [] _group_source /\ interval.model = "einfach" -> _einfach_interval_witness
                    [] OTHER -> _interval_witness
    /\ UNCHANGED <<interval, source>>

\* The einfach audit takes reported totals for the measured ones.
Intervals ==
    [model : {"proportional"}, total : [Points -> Loads]]
    \cup [model : {"einfach"}, total : [Points -> {n * Quantum : n \in Loads}]]

AuditInit ==
    /\ interval \in Intervals
    /\ source \in Sources(interval)
    /\ verdict = NoWitness

AuditNext == audit_e66

AuditSpec == AuditInit /\ [][AuditNext]_auditVars

AuditTypeOK ==
    /\ interval \in Intervals
    /\ DOMAIN source \subseteq Points
    /\ verdict.outcome \in {"none", "certified", "unresolved_vnb_rounding_boundary",
            "unresolved_vnb_einfach_rounding", "allocation_disagreement",
            "incomplete_vnb_source"}

-----------------------------------------------------------------------------
(* Properties.                                                             *)

\* A delivery that follows the model is never called a disagreement: whatever
\* its independent roundings, the audit certifies it or leaves it unresolved.
HonestSourcesStand ==
    source = Reports(interval) =>
        verdict.outcome \in {"none", "certified", "unresolved_vnb_rounding_boundary"}

\* A certificate's ratio explains every cell of the side it was found for, and
\* what that side may have got meets what the side used up had to give.
CertificateIsAWitness ==
    verdict.outcome = "certified" /\ interval.model = "proportional"
      /\ verdict.ratio \notin {<<0, 1>>, <<1, 1>>} =>
        \E side \in {Consumers, Producers} :
            /\ UsedUp(Other(side))
            /\ \A p \in side : Less(AtLeast(verdict.ratio, p), AtMost(verdict.ratio, p))
            /\ ~TooMuch(verdict.ratio, side, _fully_used(Other(side)))
            /\ ~TooLittle(verdict.ratio, side, _fully_used(Other(side)))

\* billing_reconciliation.py: "A certificate proves that one supported
\* allocation can explain every source channel's rounding cell", and refusing
\* is not disputing.
AuditIsSound == HonestSourcesStand /\ CertificateIsAWitness
=============================================================================
