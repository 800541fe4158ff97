--------------------------- MODULE BillingPeriods ---------------------------
(***************************************************************************)
(* From VNB evidence to issued invoices, for one community: deliveries of  *)
(* calculated values and their withdrawal, billing runs that turn them     *)
(* into drafts, and approvals that turn drafts into numbered invoices.     *)
(*                                                                         *)
(* Source: vnb_calculated_values.py, store/calculated_values.py,           *)
(* billing_runner.py, store/billing.py, store/schema.py (unique indexes).  *)
(*                                                                         *)
(* Requests run at once under READ COMMITTED.  Four transactions serialise *)
(* on the community row (SELECT ... FOR UPDATE): saving a delivery,        *)
(* withdrawing one, saving a draft and approving one.  Each is two steps   *)
(* here, what it reads and decides once it has the row and what it writes  *)
(* at COMMIT, with owner holding the row in between.  A billing run and    *)
(* the validation of a delivery also read, in transactions of their own    *)
(* and without the row, long before they come to it.                       *)
(***************************************************************************)
EXTENDS Naturals, Sequences, FiniteSets

CONSTANTS
    Files,          \* well-formed deliveries, one per content fingerprint
    Window,         \* Window[f]: the half-open time window f covers
    Months,         \* the disjoint windows billing runs are started for
    Keys,           \* idempotency keys of withdrawal requests
    Admins,         \* confirmed administrators
    Procs,          \* requests and cron runs in flight
    Nobody,         \* no preparer, no approver, no owner of the row
    NoFile,         \* no delivery
    Billed,         \* participants billed per period
    Prefix,         \* Prefix[v]: number series of the invoices of inputs v
    Finds,          \* Finds[s]: the series the number pattern of s matches
    MaxInputs,      \* bound: changes of tariffs or readings
    MaxRegistration,\* bound: changes of a participant's registration
    MaxPeriods      \* bound: rows in billing_periods

\* A series is a prefix and a year, "LEG-2026".  Its pattern also matches the
\* numbers of a longer one, "LEG-2026-2026" of the prefix LEG-2026.
Series == {Prefix[v] : v \in 0 .. MaxInputs}

ASSUME BillingAssumption ==
    /\ NoFile \notin Files
    /\ Nobody \notin Procs \cup Admins
    /\ Window \in [Files -> [start : Nat, end : Nat]]
    /\ Months \subseteq [start : Nat, end : Nat]
    /\ Billed \in Nat \ {0}
    /\ {MaxInputs, MaxRegistration, MaxPeriods} \subseteq Nat
    /\ Finds \in [Series -> SUBSET Series]
    /\ \A s \in Series : s \in Finds[s] /\ \A t \in Finds[s] : Finds[t] \subseteq Finds[s]

VARIABLES
    ledger,         \* ledger[f]: vnb_calculated_values_deliveries row of f
    refused,        \* files stored under a refused fingerprint
    withdrawals,    \* withdrawals[k]: delivery withdrawn by the event keyed k
    periods,        \* billing_periods, by id
    invoices,       \* issued invoices: period, number series, number
    outbox,         \* operator_events
    inputs,         \* version of the effective policy and billable readings
    registration,   \* version of the participants' registrations
    dual,           \* communities.require_dual_control
    owner,          \* who holds the community row
    proc            \* proc[p]: where request p is, and what it has read

evidence == <<ledger, refused, withdrawals>>
world == <<inputs, registration, dual>>
vars == <<ledger, refused, withdrawals, periods, invoices, outbox, inputs,
          registration, dual, owner, proc>>

-----------------------------------------------------------------------------

Period == [window : Months, evidence : Files \cup {NoFile},
           inputs : 0 .. MaxInputs, registration : Nat,
           preparer : Admins \cup {Nobody},
           status : {"draft", "invalidated", "issued"}]

Idle == [pc |-> "idle"]

\* A run passes through "evidence", "frames", "compare" and "ready", each the
\* read it does next; "delivering", "withdrawing", "saving" and "approving"
\* hold the community row.
ProcStates ==
    {Idle}
    \cup [pc : {"submitting", "delivering"}, file : Files,
          verdict : {"accepted", "refused", "rejected"}]
    \cup [pc : {"withdrawing"}, file : Files, key : Keys]
    \cup [pc : {"evidence", "frames", "compare", "ready", "saving"}, draft : Period]
    \cup [pc : {"approving"}, period : Nat, admin : Admins, first : Nat]

Holding == {"delivering", "withdrawing", "saving", "approving"}

TypeOK ==
    /\ ledger \in [Files -> {"none", "accepted", "rejected"}]
    /\ refused \subseteq Files
    /\ withdrawals \in [Keys -> Files \cup {NoFile}]
    /\ periods \in Seq(Period)
    /\ invoices \subseteq [period : Nat, series : Series, number : Nat]
    /\ outbox \subseteq {"received", "refused", "withdrawn"} \X Files
    /\ inputs \in 0 .. MaxInputs
    /\ registration \in Nat
    /\ dual \in BOOLEAN
    /\ owner \in Procs \cup {Nobody}
    /\ proc \in [Procs -> ProcStates]

Init ==
    /\ ledger = [f \in Files |-> "none"]
    /\ refused = {}
    /\ withdrawals = [k \in Keys |-> NoFile]
    /\ periods = <<>>
    /\ invoices = {}
    /\ outbox = {}
    /\ inputs = 0
    /\ registration = 0
    /\ dual = FALSE
    /\ owner = Nobody
    /\ proc = [p \in Procs |-> Idle]

Goto(p, state) == proc' = [proc EXCEPT ![p] = state]

Lock(p) == owner = Nobody /\ owner' = p

Unlock(p) == owner = p /\ owner' = Nobody

Withdrawn(f) == \E k \in Keys : withdrawals[k] = f

\* status = 'accepted' AND NOT EXISTS an event
Current(f) == ledger[f] = "accepted" /\ ~Withdrawn(f)

Overlap(f, g) == /\ Window[f].start < Window[g].end
                 /\ Window[g].start < Window[f].end

\* find_overlapping_calculated_values with another fingerprint
Overlapped(f) == \E g \in Files \ {f} : Current(g) /\ Overlap(f, g)

-----------------------------------------------------------------------------
(* Deliveries.                                                             *)

\* accept_delivery validates and looks for overlaps in a transaction of its
\* own.  A refusal it decides here gets a fingerprint of its own, so that the
\* file can be sent again once the obstacle is gone.
Submit(p, f) ==
    /\ proc[p] = Idle
    /\ Goto(p, [pc |-> "submitting", file |-> f,
                verdict |-> IF Overlapped(f) THEN "refused" ELSE "accepted"])
    /\ UNCHANGED <<evidence, periods, invoices, outbox, world, owner>>

\* mutant: the overlap found before the lock is trusted
Recheck_trusts(r) == [r EXCEPT !.pc = "delivering"]

\* save_calculated_values_delivery, under the row: the overlap is looked for
\* again, and a file it refuses now keeps the fingerprint of an accepted one.
Recheck(r) == IF r.verdict = "accepted" /\ Overlapped(r.file)
                THEN [r EXCEPT !.verdict = "rejected", !.pc = "delivering"]
                ELSE [r EXCEPT !.pc = "delivering"]

BeginDeliver(p) ==
    /\ proc[p].pc = "submitting"
    /\ Lock(p)
    /\ Goto(p, Recheck(proc[p]))
    /\ UNCHANGED <<evidence, periods, invoices, outbox, world>>

\* INSERT ... ON CONFLICT (territory, content_fingerprint) DO NOTHING: a file
\* seen before replays its first row, withdrawn or rejected as it may be.
CommitDeliver(p) ==
    LET f == proc[p].file
        isRefusal == proc[p].verdict = "refused"
    IN  /\ proc[p].pc = "delivering"
        /\ Unlock(p)
        /\ refused' = IF isRefusal THEN refused \cup {f} ELSE refused
        /\ ledger' = IF isRefusal \/ ledger[f] # "none" THEN ledger
                     ELSE [ledger EXCEPT ![f] = proc[p].verdict]
        /\ outbox' = outbox \cup {<<IF isRefusal THEN "refused" ELSE "received", f>>}
        /\ Goto(p, Idle)
        /\ UNCHANGED <<withdrawals, periods, invoices, world>>

\* A repeated key replays its event or conflicts, and a withdrawn delivery
\* cannot be withdrawn again: those requests write nothing.
BeginWithdraw(p, f, k) ==
    /\ proc[p] = Idle
    /\ ledger[f] = "accepted"
    /\ Lock(p)
    /\ withdrawals[k] = NoFile
    /\ ~Withdrawn(f)
    /\ Goto(p, [pc |-> "withdrawing", file |-> f, key |-> k])
    /\ UNCHANGED <<evidence, periods, invoices, outbox, world>>

\* mutant: the update forgets AND status = 'draft'
Invalidated_issued(q, f) == IF q.evidence = f
                              THEN [q EXCEPT !.status = "invalidated"] ELSE q

\* UPDATE billing_periods SET status = 'invalidated' ... AND status = 'draft'
Invalidated(q, f) == IF q.evidence = f /\ q.status = "draft"
                       THEN [q EXCEPT !.status = "invalidated"] ELSE q

CommitWithdraw(p) ==
    LET f == proc[p].file
    IN  /\ proc[p].pc = "withdrawing"
        /\ Unlock(p)
        /\ withdrawals' = [withdrawals EXCEPT ![proc[p].key] = f]
        /\ periods' = [i \in DOMAIN periods |-> Invalidated(periods[i], f)]
        /\ outbox' = outbox \cup {<<"withdrawn", f>>}
        /\ Goto(p, Idle)
        /\ UNCHANGED <<ledger, refused, invoices, world>>

-----------------------------------------------------------------------------
(* Billing runs: run_billing_period reads policy, evidence, readings and   *)
(* the existing period in four transactions, then saves in a fifth.  Runs  *)
(* the readings do not reconcile for end in Abort.                         *)

Run(p, step, draft) == Goto(p, [pc |-> step, draft |-> draft])

StartRun(p, w) ==
    /\ proc[p] = Idle
    /\ Run(p, "evidence", [window |-> w, evidence |-> NoFile, inputs |-> inputs,
                           registration |-> 0, preparer |-> Nobody,
                           status |-> "draft"])
    /\ UNCHANGED <<evidence, periods, invoices, outbox, world, owner>>

\* get_validated_calculated_values wants evidence for exactly this window.
ReadEvidence(p) ==
    /\ proc[p].pc = "evidence"
    /\ \E f \in Files :
         /\ Current(f)
         /\ Window[f] = proc[p].draft.window
         /\ Run(p, "frames", [proc[p].draft EXCEPT !.evidence = f])
    /\ UNCHANGED <<evidence, periods, invoices, outbox, world, owner>>

\* load_period_frames: one snapshot of points, readings and registrations
LoadFrames(p) ==
    /\ proc[p].pc = "frames"
    /\ Run(p, "compare", [proc[p].draft EXCEPT !.registration = registration])
    /\ UNCHANGED <<evidence, periods, invoices, outbox, world, owner>>

Live(w) == \E i \in DOMAIN periods : /\ periods[i].window = w
                                     /\ periods[i].status # "invalidated"

\* With a live period the run ends: already_processed when the fingerprint is
\* the same, billing_inputs_changed when it is not.
Compare(p) ==
    /\ proc[p].pc = "compare"
    /\ IF Live(proc[p].draft.window) THEN Goto(p, Idle)
                                     ELSE Run(p, "ready", proc[p].draft)
    /\ UNCHANGED <<evidence, periods, invoices, outbox, world, owner>>

\* mutant: the registrations are not compared with the draft's
registrations_unchecked(q) == q.registration \in Nat

\* lock_original_registrations
lock_original_registrations(q) == q.registration = registration

\* mutant: the delivery's lifecycle state is written into the period's status
StatusOf_lifecycle(q) == IF Current(q.evidence) THEN "draft" ELSE "withdrawn"

\* mutant: every preparation is saved as a draft
StatusOf_always_draft(q) == IF q.evidence = NoFile THEN "invalidated" ELSE "draft"

\* save_billing_period: evidence withdrawn since it was read makes the new row
\* a retained, invalidated version.
StatusOf(q) == IF Current(q.evidence) THEN "draft" ELSE "invalidated"

BeginSave(p) ==
    LET q == proc[p].draft
    IN  /\ proc[p].pc = "ready"
        /\ Len(periods) < MaxPeriods
        /\ lock_original_registrations(q)
        /\ Lock(p)
        /\ Run(p, "saving", [q EXCEPT !.status = StatusOf(q)])
        /\ UNCHANGED <<evidence, periods, invoices, outbox, world>>

\* uq_billing_period_community_window: one row per window that is not
\* invalidated.  A violation rolls the transaction back.
WindowFree(q) == q.status = "draft" => ~Live(q.window)

CommitSave(p) ==
    LET q == proc[p].draft
    IN  /\ proc[p].pc = "saving"
        /\ Unlock(p)
        /\ periods' = IF WindowFree(q) THEN Append(periods, q) ELSE periods
        /\ Goto(p, Idle)
        /\ UNCHANGED <<evidence, invoices, outbox, world>>

-----------------------------------------------------------------------------
(* Preparation and approval of a draft by people.                          *)

\* mutant: approval reads the period without FOR UPDATE
PeriodLocked_never(i) == \E p \in Procs : proc[p].pc = "approving" /\ i = 0

\* SELECT * FROM billing_periods ... FOR UPDATE held by an approval
PeriodLocked(i) == \E p \in Procs : /\ proc[p].pc = "approving"
                                    /\ proc[p].period = i

\* record_billing_period_preparer: the latest preparer of a draft wins.
record_billing_period_preparer(a, i) ==
    /\ periods[i].status = "draft"
    /\ ~PeriodLocked(i)
    /\ periods' = [periods EXCEPT ![i].preparer = a]
    /\ UNCHANGED <<evidence, invoices, outbox, world, owner, proc>>

\* invoice_number LIKE '<prefix>-<year>-%'
FoundNumbers(s) == {v.number : v \in {u \in invoices : u.series \in Finds[s]}}

\* _next_invoice_sequence: one more than the largest the pattern finds
NextSequence(s) ==
    LET all == FoundNumbers(s) \cup {0}
    IN  {m + 1 : m \in {n \in all : \A k \in all : k <= n}}

\* A community under dual control wants a recorded preparer who is not the
\* approver.
DualControlled(q, a) == dual => q.preparer \notin {Nobody, a}

\* approve_billing_period, community row and then period row locked.  Asked for
\* an issued period it returns the stored invoices and writes nothing.
BeginApprove(p, a, i) ==
    LET q == periods[i]
    IN  /\ proc[p] = Idle
        /\ Lock(p)
        /\ Current(q.evidence)
        /\ q.status = "draft"
        /\ DualControlled(q, a)
        /\ lock_original_registrations(q)
        /\ \E n \in NextSequence(Prefix[q.inputs]) :
             Goto(p, [pc |-> "approving", period |-> i, admin |-> a, first |-> n])
        /\ UNCHANGED <<evidence, periods, invoices, outbox, world>>

NewInvoices(i, s, first) ==
    {[period |-> i, series |-> s, number |-> n] : n \in first .. first + Billed - 1}

\* uq_invoices_community_invoice_number refuses a number already given.
CommitApprove(p) ==
    LET i   == proc[p].period
        new == NewInvoices(i, Prefix[periods[i].inputs], proc[p].first)
        free == \A v \in new, u \in invoices :
                  v.series = u.series => v.number # u.number
    IN  /\ proc[p].pc = "approving"
        /\ Unlock(p)
        /\ invoices' = IF free THEN invoices \cup new ELSE invoices
        /\ periods' = IF free THEN [periods EXCEPT ![i].status = "issued"] ELSE periods
        /\ Goto(p, Idle)
        /\ UNCHANGED <<evidence, outbox, world>>

-----------------------------------------------------------------------------
(* The world around a request.                                             *)

\* A tariff edit or an import: what a later run reads.
ChangeInputs ==
    /\ inputs < MaxInputs
    /\ inputs' = inputs + 1
    /\ UNCHANGED <<evidence, periods, invoices, outbox, registration, dual, owner, proc>>

\* A household leaves and another registers.  The buildings rows are held
\* FOR SHARE by a save or an approval in progress.
Reregister ==
    /\ registration < MaxRegistration
    /\ \A p \in Procs : proc[p].pc \notin {"saving", "approving"}
    /\ registration' = registration + 1
    /\ UNCHANGED <<evidence, periods, invoices, outbox, inputs, dual, owner, proc>>

\* The administrator's setting is a column of the locked community row.
set_community_dual_control ==
    /\ owner = Nobody
    /\ dual' = ~dual
    /\ UNCHANGED <<evidence, periods, invoices, outbox, inputs, registration, owner, proc>>

\* A request fails, is refused or its worker dies: PostgreSQL rolls back.
Abort(p) ==
    /\ proc[p] # Idle
    /\ Goto(p, Idle)
    /\ owner' = IF owner = p THEN Nobody ELSE owner
    /\ UNCHANGED <<evidence, periods, invoices, outbox, world>>

DeliveryStep(p) ==
    \/ \E f \in Files : Submit(p, f)
    \/ BeginDeliver(p)
    \/ CommitDeliver(p)
    \/ \E f \in Files, k \in Keys : BeginWithdraw(p, f, k)
    \/ CommitWithdraw(p)

RunStep(p) ==
    \/ \E w \in Months : StartRun(p, w)
    \/ ReadEvidence(p)
    \/ LoadFrames(p)
    \/ Compare(p)
    \/ BeginSave(p)
    \/ CommitSave(p)

ApprovalStep(p) ==
    \/ \E a \in Admins, i \in DOMAIN periods : BeginApprove(p, a, i)
    \/ CommitApprove(p)

WorldStep ==
    \/ \E a \in Admins, i \in DOMAIN periods : record_billing_period_preparer(a, i)
    \/ ChangeInputs
    \/ Reregister
    \/ set_community_dual_control

Next ==
    \/ \E p \in Procs : DeliveryStep(p) \/ RunStep(p) \/ ApprovalStep(p) \/ Abort(p)
    \/ WorldStep

Spec == Init /\ [][Next]_vars

-----------------------------------------------------------------------------
(* Properties.                                                             *)

\* Every draft rests on evidence that is accepted and not withdrawn, even when
\* a withdrawal commits while the run that read the evidence is still busy:
\* store/billing.py save_billing_period ("A preparation may finish after its
\* source was withdrawn") against withdraw_calculated_values_delivery.
DraftEvidenceCurrent ==
    \A i \in DOMAIN periods :
      periods[i].status = "draft" => Current(periods[i].evidence)

\* Deliveries that count for billing never overlap, whatever two requests
\* found when they validated at the same time (save_calculated_values_delivery).
CurrentEvidenceDisjoint ==
    \A f, g \in Files : f # g /\ Current(f) /\ Current(g) => ~Overlap(f, g)

\* Two runs for one month leave one live period: a household is billed once
\* (run_billing_period reads before it saves; the index decides).
OneLivePeriodPerWindow ==
    \A i, j \in DOMAIN periods :
      /\ periods[i].window = periods[j].window
      /\ periods[i].status # "invalidated"
      /\ periods[j].status # "invalidated"
      => i = j

\* Across approvals of different periods, no number of a series is given twice,
\* the numbers found for a series are 1, 2, 3 ... without a gap (a series whose
\* pattern finds no other one has none itself), and an approval in progress
\* holds numbers above all of its series, so that the unique index never
\* refuses it (approve_billing_period, _next_invoice_sequence).
NumbersRunOn ==
    /\ \A u, v \in invoices : u.series = v.series /\ u.number = v.number => u = v
    /\ \A s \in Series : FoundNumbers(s) = 1 .. Cardinality(FoundNumbers(s))
    /\ \A p \in Procs : proc[p].pc = "approving" =>
          \A u \in invoices : u.series = Prefix[periods[proc[p].period].inputs]
                                => u.number < proc[p].first

Issues(i) == /\ i \in DOMAIN periods
             /\ periods[i].status # "issued"
             /\ periods'[i].status = "issued"

\* Invoices are issued only from evidence current at that moment and to the
\* households that were measured (approve_billing_period).
IssueIsGrounded ==
    [][\A i \in DOMAIN periods :
         Issues(i) => /\ Current(periods[i].evidence)
                      /\ periods[i].registration = registration]_vars

\* Under dual control, whoever is on record as preparer of an issued period is
\* somebody else than its approver, at COMMIT and not only when checked.
IssueIsDualControlled ==
    [][\A p \in Procs :
         proc[p].pc = "approving" /\ Issues(proc[p].period) /\ dual
           => periods[proc[p].period].preparer \in Admins \ {proc[p].admin}]_vars

\* An issued period never changes again, whatever is withdrawn, prepared or
\* approved later (docs/data-pipeline.md: "Issued periods and invoice
\* snapshots remain unchanged").
IssuedIsFrozen ==
    [][\A i \in DOMAIN periods :
         periods[i].status = "issued" => periods'[i] = periods[i]]_vars

\* What the docstring of _refused_fingerprint says: a refused delivery does
\* not take the identity under which the same file could be accepted.
RefusalKeepsIdentity == \A f \in Files : ledger[f] # "rejected"

=============================================================================
