--------------------------- MODULE SourceEvidence ---------------------------
(***************************************************************************)
(* The grid operator's file as evidence of a month: dated statements of    *)
(* whose meter a point is, and E66 files accepted on the strength of them  *)
(* (e66_evidence.py, vnb_calculated_values.py, store/calculated_values.py),*)
(* while participant lists change the bindings (store/metering.py), for    *)
(* one community and one month.                                            *)
(*                                                                         *)
(* Every request is one READ COMMITTED transaction that takes advisory     *)
(* locks of points, then the community row, then reads what it decides     *)
(* by, then commits.  A lock that is held makes it wait.                   *)
(***************************************************************************)
EXTENDS Naturals, Sequences, FiniteSets

CONSTANTS
    Metered,        \* metering points of the community
    PointOrder,     \* PointOrder[p]: the place of point p among them, sorted
    Owners,         \* buildings
    Sources,        \* E66 files, by the digest of their content
    IdOf,           \* IdOf[s]: the document id in file s
    StatusOf,       \* StatusOf[s]: "9" original, "5" correction, or another function
    BlocksOf,       \* BlocksOf[s]: one channel of one series each
    Bindings,       \* what a participant list may say of a point
    Jobs,           \* requests under way
    MaxJobs,        \* bound: requests begun
    Undated

ASSUME SourceAssumption ==
    /\ IsFiniteSet(Metered) /\ PointOrder \in [Metered -> 1 .. Cardinality(Metered)]
    /\ \A p, q \in Metered : PointOrder[p] = PointOrder[q] => p = q
    /\ "community" \notin Metered /\ Undated \notin Jobs
    /\ \A s \in Sources : \A b \in BlocksOf[s] : b.point \in Metered /\ b.whole \in BOOLEAN

VARIABLES
    binding,        \* metering_points: whose a point is, its LEG and directions
    statement,      \* its assignment_* columns, with the binding they were made for
    enrolment,      \* community_members.status
    accepted,       \* accepted deliveries: their file and frozen mapping
    withdrawn,      \* files whose delivery was withdrawn
    stored,         \* sdat_imports: document ids, with the file their readings are of
    lock,           \* who holds a point's advisory lock, or the community row
    work,            \* per request: what it does, and how far it is
    begun

sourceVars == <<binding, statement, enrolment, accepted, withdrawn, stored, lock, work, begun>>

-----------------------------------------------------------------------------

Lockables == Metered \cup {"community"}

NoJob == [at |-> "idle"]

SourceTypeOK ==
    /\ binding \in [Metered -> Bindings]
    /\ \A p \in Metered : statement[p] = Undated \/ statement[p].covers \in BOOLEAN
    /\ enrolment \in [Owners -> {"invited", "confirmed"}]
    /\ \A d \in accepted : d.file \in Sources
    /\ withdrawn \subseteq Sources
    /\ lock \in [Lockables -> Jobs \cup {Undated}]
    /\ \A j \in Jobs : work[j].at \in {"idle", "waiting", "saving"}

SourceInit ==
    /\ binding \in [Metered -> Bindings]
    /\ statement \in {[p \in Metered |-> IF p \in dated THEN [covers |-> TRUE, of |-> binding[p]]
                                          ELSE Undated] : dated \in SUBSET Metered}
    /\ enrolment \in [Owners -> {"invited", "confirmed"}]
    /\ accepted = {} /\ withdrawn = {} /\ stored = {}
    /\ lock = [l \in Lockables |-> Undated]
    /\ work = [j \in Jobs |-> NoJob]
    /\ begun = 0

-----------------------------------------------------------------------------

SeriesOf(s) == {<<b.point, b.flow>> : b \in BlocksOf[s]}

PointsIn(s) == {b.point : b \in BlocksOf[s]}

LegsIn(s) == {b.leg : b \in BlocksOf[s]}

\* Nothing uncertain comes near the database: an original or a correction, for
\* one LEG, with three channels of each series, uncoded in every quarter hour.
parse_source(s) ==
    /\ StatusOf[s] \in {"9", "5"}
    /\ Cardinality(LegsIn(s)) = 1
    /\ \A b \in BlocksOf[s] : b.whole
    /\ \A x \in SeriesOf(s) :
          {b.channel : b \in {b \in BlocksOf[s] : <<b.point, b.flow>> = x}} = {"total", "community", "grid"}

\* Points before the community, in one order.
Place(l) == IF l = "community" THEN Cardinality(Metered) + 1 ELSE PointOrder[l]

\* sorted(S)
Sorted(S) == {list \in [1 .. Cardinality(S) -> S] :
    /\ \A l \in S : \E n \in DOMAIN list : list[n] = l
    /\ \A m, n \in DOMAIN list : m < n => Place(list[m]) < Place(list[n])}

\* A withdrawal needs no point, and a list not the community its points already
\* belong to.
LocksFor(kind, S) == S \cup (IF kind = "list" THEN {} ELSE {"community"})

Begin(j, kind, arg, S) ==
    /\ work[j] = NoJob /\ begun < MaxJobs
    /\ begun' = begun + 1
    /\ \E plan \in Sorted(LocksFor(kind, S)) :
           work' = [work EXCEPT ![j] = [at |-> "waiting", kind |-> kind, arg |-> arg, plan |-> plan]]
    /\ UNCHANGED <<binding, statement, enrolment, accepted, withdrawn, stored, lock>>

Acquire(j) ==
    /\ work[j].at = "waiting" /\ work[j].plan # << >>
    /\ lock[Head(work[j].plan)] = Undated
    /\ lock' = [lock EXCEPT ![Head(work[j].plan)] = j]
    /\ work' = [work EXCEPT ![j] =
           [at |-> "waiting", kind |-> @.kind, arg |-> @.arg, plan |-> Tail(@.plan)]]
    /\ UNCHANGED <<binding, statement, enrolment, accepted, withdrawn, stored, begun>>

Release(j) == lock' = [l \in Lockables |-> IF lock[l] = j THEN Undated ELSE lock[l]]

End(j) == work' = [work EXCEPT ![j] = NoJob] /\ Release(j)

HasLocks(j, kind) == work[j].at = "waiting" /\ work[j].kind = kind /\ work[j].plan = << >>

-----------------------------------------------------------------------------

\* upsert_metering_points with a list of one point, and the trigger
\* metering_assignment_binding_changed
StatementAfter_house(p, b) == IF b.house = binding[p].house THEN statement[p] ELSE Undated

StatementAfter(p, b) == IF b = binding[p] THEN statement[p] ELSE Undated

upsert_binding(j) == LET p == work[j].arg.point b == work[j].arg.binding IN
    /\ HasLocks(j, "list")
    /\ binding' = [binding EXCEPT ![p] = b]
    /\ statement' = [statement EXCEPT ![p] = StatementAfter(p, b)]
    /\ End(j)
    /\ UNCHANGED <<enrolment, accepted, withdrawn, stored, begun>>

\* record_calculated_meter_assignment: only a confirmed member's point; the
\* binding read under the locks is the one that is dated.
record_calculated_meter_assignment(j) == LET p == work[j].arg.point IN
    /\ HasLocks(j, "statement")
    /\ IF enrolment[binding[p].house] = "confirmed"
       THEN statement' = [statement EXCEPT ![p] = [covers |-> work[j].arg.covers, of |-> binding[p]]]
       ELSE UNCHANGED statement
    /\ End(j)
    /\ UNCHANGED <<binding, enrolment, accepted, withdrawn, stored, begun>>

\* withdraw_calculated_values_delivery; what it does to drafts is in BillingPeriods
withdraw_delivery(j) == LET s == work[j].arg.file IN
    /\ HasLocks(j, "withdraw")
    /\ withdrawn' = IF \E d \in accepted : d.file = s THEN withdrawn \cup {s} ELSE withdrawn
    /\ End(j)
    /\ UNCHANGED <<binding, statement, enrolment, accepted, stored, begun>>

-----------------------------------------------------------------------------

LiveEvidence == {d \in accepted : d.file \notin withdrawn}

\* _find_e66_replay: the same bytes were accepted, whatever became of them.
Replayed(s) == \E d \in accepted : d.file = s

IdentityConflict(s) == \E x \in stored : x[1] = IdOf[s]

\* What the file's points are bound to, for confirmed members.
MappingOf(s) == [p \in {p \in PointsIn(s) : enrolment[binding[p].house] = "confirmed"} |->
                    [binding |-> binding[p], statement |-> statement[p]]]

\* build_delivery: every point is mapped, within a dated statement, to one LEG,
\* and declares what the file delivers.
build_delivery(s, mapping) ==
    /\ DOMAIN mapping = PointsIn(s)
    /\ {mapping[p].binding.leg : p \in DOMAIN mapping} = LegsIn(s)
    /\ \A p \in DOMAIN mapping : mapping[p].statement # Undated /\ mapping[p].statement.covers
    /\ \A x \in SeriesOf(s) : x[2] \in mapping[x[1]].binding.flows

\* A correction takes the place of a withdrawn delivery, never of a live one.
ReplacementAdmitted(s) ==
    StatusOf[s] = "5" => LiveEvidence = {} /\ \E d \in accepted : d.file \in withdrawn

RegistrySeries == UNION {{binding[p].house} \X binding[p].flows : p \in Metered}

\* accept_delivery, as far as a file reaches it: each participant's series
\* once, all of the register's and no other, and no live delivery beside it.
accept_delivery(s, mapping) ==
    /\ \A x, y \in SeriesOf(s) :
          x[2] = y[2] /\ mapping[x[1]].binding.house = mapping[y[1]].binding.house => x = y
    /\ {<<mapping[x[1]].binding.house, x[2]>> : x \in SeriesOf(s)} = RegistrySeries
    /\ LiveEvidence = {}

\* ingest_e66_calculated_values up to its last read; the mapping's rows are
\* shared from here on.  A refusal is put on record and changes nothing else.
ReadMapping(j) == LET s == work[j].arg.file mapping == MappingOf(s) IN
    /\ HasLocks(j, "ingest")
    /\ IF /\ ~Replayed(s) /\ ~IdentityConflict(s)
          /\ build_delivery(s, mapping) /\ ReplacementAdmitted(s) /\ accept_delivery(s, mapping)
       THEN work' = [work EXCEPT ![j] = [at |-> "saving", file |-> s, mapping |-> mapping]]
            /\ UNCHANGED lock
       ELSE End(j)
    /\ UNCHANGED <<binding, statement, enrolment, accepted, withdrawn, stored, begun>>

\* The delivery, its readings and the import are one COMMIT.
CommitEvidence(j) ==
    /\ work[j].at = "saving"
    /\ accepted' = accepted \cup {[file |-> work[j].file, mapping |-> work[j].mapping]}
    /\ stored' = stored \cup {<<IdOf[work[j].file], work[j].file>>}
    /\ End(j)
    /\ UNCHANGED <<binding, statement, enrolment, withdrawn, begun>>

\* the connection breaks and the transaction with it
Break(j) ==
    /\ work[j].at \in {"waiting", "saving"}
    /\ End(j)
    /\ UNCHANGED <<binding, statement, enrolment, accepted, withdrawn, stored, begun>>

\* A member confirms, unless a transaction shares its row.
Enrol(o) ==
    /\ \A j \in Jobs : work[j].at # "saving"
    /\ enrolment[o] = "invited"
    /\ enrolment' = [enrolment EXCEPT ![o] = "confirmed"]
    /\ UNCHANGED <<binding, statement, accepted, withdrawn, stored, lock, work, begun>>

BeginSome(j) ==
    \/ \E s \in Sources : parse_source(s) /\ Begin(j, "ingest", [file |-> s], PointsIn(s))
    \/ \E s \in Sources : Begin(j, "withdraw", [file |-> s], {})
    \/ \E p \in Metered : \/ \E b \in Bindings : Begin(j, "list", [point |-> p, binding |-> b], {p})
                          \/ \E c \in BOOLEAN : Begin(j, "statement", [point |-> p, covers |-> c], {p})

SourceNext ==
    \/ \E j \in Jobs : \/ BeginSome(j) \/ Acquire(j) \/ Break(j)
                       \/ upsert_binding(j) \/ record_calculated_meter_assignment(j)
                       \/ withdraw_delivery(j) \/ ReadMapping(j) \/ CommitEvidence(j)
    \/ \E o \in Owners : Enrol(o)

SourceSpec == SourceInit /\ [][SourceNext]_sourceVars

-----------------------------------------------------------------------------

\* Evidence about to be committed rests on bindings that still hold, each under a
\* statement made for it that covers the month, for confirmed members only
\* (store/calculated_values.py ingest_e66_calculated_values).
BoundAtCommit ==
    \A j \in Jobs : work[j].at = "saving" =>
        \A p \in DOMAIN work[j].mapping : LET m == work[j].mapping[p] IN
            /\ m.binding = binding[p] /\ enrolment[m.binding.house] = "confirmed"
            /\ m.statement.of = m.binding /\ m.statement.covers

\* At most one live delivery describes the month, and a document's readings were
\* stored once, of the file that was accepted.
SourceCountsOnce ==
    /\ Cardinality(LiveEvidence) <= 1
    /\ \A x, y \in stored : x[1] = y[1] => x = y
    /\ {x[2] : x \in stored} = {d.file : d \in accepted}

\* Requests that wait for locks never wait for each other in a circle.
SomebodyMoves ==
    (\E j \in Jobs : work[j].at = "waiting") =>
        \E j \in Jobs : \/ work[j].at = "saving"
                        \/ work[j].at = "waiting" /\ (work[j].plan = << >> \/ lock[Head(work[j].plan)] = Undated)

\* What is accepted as evidence of a month is bound to dated statements about the
\* points as they are, counts once, and comes about without a deadlock
\* (e66_evidence.py, store/calculated_values.py, store/metering.py).
EvidenceIsBound == BoundAtCommit /\ SourceCountsOnce /\ SomebodyMoves
=============================================================================
