-------------------------- MODULE InvoiceLifecycle --------------------------
(***************************************************************************)
(* The life of issued invoices of one community: delivery (portal download *)
(* or e-mail), recorded payment, cancellation and correction.              *)
(*                                                                         *)
(* Source: store/billing.py (the database transactions), dashboard.py      *)
(* leg_deliver_invoice (the request that strings three of them together    *)
(* around an e-mail), billing_lifecycle.py (the transition table) and      *)
(* store/schema.py (unique keys, append-only triggers).                    *)
(*                                                                         *)
(* An invoice row never changes.  Its state is the new_state of its last   *)
(* row in invoice_lifecycle_events, "issued" when there is none.  Several  *)
(* web workers run requests at once under PostgreSQL READ COMMITTED, so a  *)
(* request is a process whose steps are split where another transaction    *)
(* can come between them:                                                  *)
(*                                                                         *)
(*   - prepare, complete and confirm lock the invoice row and then the     *)
(*     job row; pay, cancel and correct lock invoice rows only, so each of *)
(*     these is one step taken when the rows are free;                     *)
(*   - fail locks the JOB row (by its UPDATE), reads the state, and only   *)
(*     its INSERT needs the invoice row (the foreign key's KEY SHARE lock, *)
(*     which waits for FOR UPDATE).  The two orders can deadlock;          *)
(*     PostgreSQL then aborts one of the two transactions.                 *)
(***************************************************************************)
EXTENDS Naturals, Sequences, FiniteSets

CONSTANTS
    Invoices,       \* issued invoices of the community
    Participant,    \* Participant[i]: the household an invoice bills
    Method,         \* Method[i]: delivery_method of the frozen policy snapshot
    Procs,          \* concurrently running requests (gunicorn workers)
    NoInvoice,      \* an idle process works on no invoice
    BookingKeys     \* idempotency keys under which others book payments

\* Idempotency keys of the operations below.
OwnKeys == [kind : {"delivered", "delivery_failed", "paid", "cancelled",
                    "corrected", "corrects"},
            ref  : Invoices \cup {NoInvoice}]

ASSUME LifecycleAssumption ==
    /\ NoInvoice \notin Invoices
    /\ BookingKeys \cap OwnKeys = {}
    /\ Method \in [Invoices -> {"email", "download"}]

VARIABLES
    events,         \* events[i]: invoice_lifecycle_events of i, in id order
    job,            \* job[i]: status of the row in invoice_delivery_jobs, or none
    corrections,    \* invoice_corrections: <<original, corrected>> pairs
    outbox,         \* operator_events: <<event type, invoice>> identities
    registered,     \* households whose registration still matches the invoice's
    mails,          \* mails[i]: e-mails that really left for i (history)
    proc            \* proc[p]: where request p is, on which invoice

vars == <<events, job, corrections, outbox, registered, mails, proc>>

-----------------------------------------------------------------------------

States == {"issued", "delivered", "paid", "cancelled", "corrected"}

EventTypes == {"delivered", "delivery_confirmed", "delivery_failed", "paid",
               "cancelled", "corrected", "correction_issued"}

\* delivery_failed:<attempt_count> is a single key: nothing ever increments
\* attempt_count, which the INSERT leaves at its default 1.
Key(kind) == [kind |-> kind, ref |-> NoInvoice]
LinkKey(kind, i) == [kind |-> kind, ref |-> i]

Keys == OwnKeys \cup BookingKeys

Event(type, prev, new, key) ==
    [type |-> type, prev |-> prev, new |-> new, key |-> key]

Events == [type : EventTypes, prev : States, new : States, key : Keys]

JobStates == {"none", "pending", "sent", "failed"}

\* Steps of a request.  "preparing", "completing" and "confirming" hold the
\* invoice row's lock, "failing" the job row's; the others hold none.
PCs == {"idle", "preparing", "prepared", "mail_failed", "failing", "mailed",
        "completing", "confirming"}

Idle == [pc |-> "idle", inv |-> NoInvoice, seen |-> "issued"]

At(step, i) == [pc |-> step, inv |-> i, seen |-> "issued"]

TypeOK ==
    /\ events \in [Invoices -> Seq(Events)]
    /\ job \in [Invoices -> JobStates]
    /\ corrections \subseteq Invoices \X Invoices
    /\ \A o \in outbox : o[1] \in EventTypes => o[2] \in Invoices
    /\ registered \subseteq {Participant[i] : i \in Invoices}
    /\ mails \in [Invoices -> Nat]
    /\ proc \in [Procs -> [pc : PCs, inv : Invoices \cup {NoInvoice}, seen : States]]
    /\ \A p \in Procs : proc[p].pc # "idle" => proc[p].inv \in Invoices

-----------------------------------------------------------------------------
(* billing_lifecycle.next_state: the transition table.  "refused" stands   *)
(* for InvoiceLifecycleError, which rolls the transaction back.            *)

\* mutant: a payment is accepted before the invoice is delivered
next_state_pays_issued(state, event) ==
    CASE state = "issued"    /\ event = "deliver" -> "delivered"
      [] state \in {"issued", "delivered"} /\ event = "pay"    -> "paid"
      [] state \in {"issued", "delivered"} /\ event = "cancel" -> "cancelled"
      [] state = "cancelled" /\ event = "correct" -> "corrected"
      [] OTHER                                    -> "refused"

next_state(state, event) ==
    CASE state = "issued"    /\ event = "deliver" -> "delivered"
      [] state = "delivered" /\ event = "pay"     -> "paid"
      [] state = "issued"    /\ event = "cancel"  -> "cancelled"
      [] state = "delivered" /\ event = "cancel"  -> "cancelled"
      [] state = "cancelled" /\ event = "correct" -> "corrected"
      [] OTHER                                    -> "refused"

current_invoice_state(i) ==
    IF events[i] = <<>> THEN "issued" ELSE events[i][Len(events[i])].new

HasKey(log, key) == \E k \in DOMAIN log : log[k].key = key

\* INSERT ... ON CONFLICT (invoice_id, idempotency_key) DO NOTHING
Appended(log, e) == IF HasKey(log, e.key) THEN log ELSE Append(log, e)

\* enqueue_event runs only when the row went in.  Its event_id is a uuid5 of
\* the type and the invoice id, and operator_events ignores a repeated one.
Published(i, e) == IF HasKey(events[i], e.key) THEN {} ELSE {<<e.type, i>>}

append_invoice_event(i, e) ==
    /\ events' = [events EXCEPT ![i] = Appended(@, e)]
    /\ outbox' = outbox \cup Published(i, e)

Goto(p, r) == proc' = [proc EXCEPT ![p] = r]

\* SELECT ... FROM invoices ... FOR UPDATE OF i held by a running request.
InvoiceLocked(i) ==
    \E p \in Procs : /\ proc[p].inv = i
                     /\ proc[p].pc \in {"preparing", "completing", "confirming"}

\* The row of invoice_delivery_jobs updated by an uncommitted fail.
JobLocked(i) ==
    \E p \in Procs : proc[p].inv = i /\ proc[p].pc = "failing"

-----------------------------------------------------------------------------

Init ==
    /\ events = [i \in Invoices |-> <<>>]
    /\ job = [i \in Invoices |-> "none"]
    /\ corrections = {}
    /\ outbox = {}
    /\ registered = {Participant[i] : i \in Invoices}
    /\ mails = [i \in Invoices |-> 0]
    /\ proc = [p \in Procs |-> Idle]

\* leg_deliver_invoice -> prepare_invoice_delivery: the locking read, which
\* also resolves the original registration.  Without a match it refuses.
BeginPrepare(p, i) ==
    /\ proc[p].pc = "idle"
    /\ ~InvoiceLocked(i)
    /\ Participant[i] \in registered
    /\ Goto(p, At("preparing", i))
    /\ UNCHANGED <<events, job, corrections, outbox, registered, mails>>

\* mutant: a failed attempt may be sent again
CommitPrepare_resends(p) ==
    LET i == proc[p].inv IN
    /\ proc[p].pc = "preparing"
    /\ ~JobLocked(i)
    /\ IF /\ next_state(current_invoice_state(i), "deliver") # "refused"
          /\ job[i] \in {"none", "failed"}
       THEN /\ job' = [job EXCEPT ![i] = "pending"]
            /\ Goto(p, At("prepared", i))
       ELSE /\ Goto(p, Idle)
            /\ UNCHANGED job
    /\ UNCHANGED <<events, corrections, outbox, registered, mails>>

\* The rest of prepare_invoice_delivery, from the read of the state to the
\* commit.  Only a missing job is a reservation: a delivered invoice, a job
\* already sent, and an uncertain (pending or failed) job all end the request.
CommitPrepare(p) ==
    LET i == proc[p].inv IN
    /\ proc[p].pc = "preparing"
    /\ ~JobLocked(i)
    /\ IF next_state(current_invoice_state(i), "deliver") # "refused" /\ job[i] = "none"
       THEN /\ job' = [job EXCEPT ![i] = "pending"]
            /\ Goto(p, At("prepared", i))
       ELSE /\ Goto(p, Idle)
            /\ UNCHANGED job
    /\ UNCHANGED <<events, corrections, outbox, registered, mails>>

\* send_email returned True: the server accepted the message.
MailSent(p) ==
    LET i == proc[p].inv IN
    /\ proc[p].pc = "prepared"
    /\ Method[i] = "email"
    /\ mails' = [mails EXCEPT ![i] = @ + 1]
    /\ Goto(p, At("mailed", i))
    /\ UNCHANGED <<events, job, corrections, outbox, registered>>

\* send_email returned False.  Any exception is a failure to it, one raised
\* after the server took the message included, so the mail may have left.
MailFailed(p) ==
    LET i == proc[p].inv IN
    /\ proc[p].pc = "prepared"
    /\ Method[i] = "email"
    /\ \E left \in {0, 1} : mails' = [mails EXCEPT ![i] = @ + left]
    /\ Goto(p, At("mail_failed", i))
    /\ UNCHANGED <<events, job, corrections, outbox, registered>>

\* A portal download needs no message: straight on to complete.
PortalReady(p) ==
    LET i == proc[p].inv IN
    /\ proc[p].pc = "prepared"
    /\ Method[i] = "download"
    /\ Goto(p, At("mailed", i))
    /\ UNCHANGED <<events, job, corrections, outbox, registered, mails>>

\* fail_invoice_delivery, first part: the UPDATE takes the job row if it is
\* still pending, then the state is read WITHOUT locking the invoice.
BeginFail(p) ==
    LET i == proc[p].inv IN
    /\ proc[p].pc = "mail_failed"
    /\ ~JobLocked(i)
    /\ IF job[i] = "pending"
       THEN Goto(p, [At("failing", i) EXCEPT !.seen = current_invoice_state(i)])
       ELSE Goto(p, Idle)
    /\ UNCHANGED <<events, job, corrections, outbox, registered, mails>>

\* fail_invoice_delivery, second part: the event is inserted with the state
\* read before as both previous and new state; both writes commit.
CommitFail(p) ==
    LET i == proc[p].inv
        seen == proc[p].seen
    IN
    /\ proc[p].pc = "failing"
    /\ ~InvoiceLocked(i)
    /\ job' = [job EXCEPT ![i] = "failed"]
    /\ append_invoice_event(i, Event("delivery_failed", seen, seen, Key("delivery_failed")))
    /\ Goto(p, Idle)
    /\ UNCHANGED <<corrections, registered, mails>>

\* complete_invoice_delivery: lock the invoice ...
BeginComplete(p) ==
    LET i == proc[p].inv IN
    /\ proc[p].pc = "mailed"
    /\ ~InvoiceLocked(i)
    /\ Goto(p, At("completing", i))
    /\ UNCHANGED <<events, job, corrections, outbox, registered, mails>>

\* mutant: the event is appended, the job row stays as it was
Deliver_without_job(i, from, type) ==
    LET state == current_invoice_state(i) IN
    IF /\ state # "delivered"
       /\ job[i] \in from
       /\ next_state(state, "deliver") # "refused"
    THEN /\ append_invoice_event(i, Event(type, state, "delivered", Key("delivered")))
         /\ UNCHANGED job
    ELSE UNCHANGED <<events, outbox, job>>

\* What complete and confirm share once they hold both rows: an invoice that
\* is delivered, or whose job is sent, is left as it is; a job not in from,
\* or a state that cannot be delivered, is refused.
Deliver(i, from, type) ==
    LET state == current_invoice_state(i) IN
    IF /\ state # "delivered"
       /\ job[i] \in from
       /\ next_state(state, "deliver") # "refused"
    THEN /\ append_invoice_event(i, Event(type, state, "delivered", Key("delivered")))
         /\ job' = [job EXCEPT ![i] = "sent"]
    ELSE UNCHANGED <<events, outbox, job>>

\* ... and lock the job, append "delivered", mark the job sent, commit.
CommitComplete(p) ==
    LET i == proc[p].inv IN
    /\ proc[p].pc = "completing"
    /\ ~JobLocked(i)
    /\ Deliver(i, {"pending"}, "delivered")
    /\ Goto(p, Idle)
    /\ UNCHANGED <<corrections, registered, mails>>

\* confirm_invoice_delivery: an administrator resolves an uncertain attempt.
BeginConfirm(p, i) ==
    /\ proc[p].pc = "idle"
    /\ ~InvoiceLocked(i)
    /\ Goto(p, At("confirming", i))
    /\ UNCHANGED <<events, job, corrections, outbox, registered, mails>>

CommitConfirm(p) ==
    LET i == proc[p].inv IN
    /\ proc[p].pc = "confirming"
    /\ ~JobLocked(i)
    /\ Deliver(i, {"pending", "failed"}, "delivery_confirmed")
    /\ Goto(p, Idle)
    /\ UNCHANGED <<corrections, registered, mails>>

\* _transition_invoice: one locked transaction.  Repeating the transition the
\* invoice is in changes nothing, whatever the details given.
Transition(i, event, type) ==
    LET state == current_invoice_state(i) IN
    /\ ~InvoiceLocked(i)
    /\ state # type
    /\ next_state(state, event) # "refused"
    /\ append_invoice_event(i, Event(type, state, next_state(state, event), Key(type)))
    /\ UNCHANGED <<job, corrections, registered, mails, proc>>

RecordPayment(i) == Transition(i, "pay", "paid")

Cancel(i) == Transition(i, "cancel", "cancelled")

\* mutant: the transaction returns before it writes the replacement's event
Correct_one_sided_audit(o, c) ==
    LET state == current_invoice_state(o)
        onOriginal == Event("corrected", state, "corrected", LinkKey("corrected", c))
    IN
    /\ ~InvoiceLocked(o) /\ ~InvoiceLocked(c)
    /\ Participant[o] = Participant[c]
    /\ \A link \in corrections : link[1] # o /\ link[2] # c
    /\ next_state(state, "correct") # "refused"
    /\ current_invoice_state(c) = "issued"
    /\ corrections' = corrections \cup {<<o, c>>}
    /\ events' = [events EXCEPT ![o] = Appended(@, onOriginal)]
    /\ outbox' = outbox \cup Published(o, onOriginal)
    /\ UNCHANGED <<job, registered, mails, proc>>

\* correct_invoice: link a cancelled original to a replacement that is still
\* issued, of the same household, when neither end has a link already, and
\* write the audit event of both.  (The note this transaction also adds to
\* the original's open queries belongs to module InvoiceQueries.)
Correct(o, c) ==
    LET state == current_invoice_state(o)
        onOriginal == Event("corrected", state, "corrected", LinkKey("corrected", c))
        onReplacement == Event("correction_issued", "issued", "issued", LinkKey("corrects", o))
    IN
    /\ ~InvoiceLocked(o) /\ ~InvoiceLocked(c)
    /\ Participant[o] = Participant[c]
    /\ \A link \in corrections : link[1] # o /\ link[2] # c
    /\ next_state(state, "correct") # "refused"
    /\ current_invoice_state(c) = "issued"
    /\ corrections' = corrections \cup {<<o, c>>}
    /\ events' = [events EXCEPT ![o] = Appended(@, onOriginal),
                                ![c] = Appended(@, onReplacement)]
    /\ outbox' = outbox \cup Published(o, onOriginal) \cup Published(c, onReplacement)
    /\ UNCHANGED <<job, registered, mails, proc>>

\* store/building.py delete_building, and a registration under the same
\* building id with another referral code: the household an invoice was
\* issued to can no longer be resolved, for good.
DropRegistration(h) ==
    /\ h \in registered
    /\ registered' = registered \ {h}
    /\ UNCHANGED <<events, job, corrections, outbox, mails, proc>>

\* mutant: the waits-for cycle is never broken
DeadlockAbort_never(p) ==
    /\ FALSE
    /\ UNCHANGED vars

\* PostgreSQL aborts one transaction of a waits-for cycle: a fail that waits
\* for the invoice row held by a request that waits for fail's job row.  The
\* victim rolls back and its request ends with an error.
DeadlockAbort(p) ==
    /\ \/ proc[p].pc = "failing" /\ InvoiceLocked(proc[p].inv)
       \/ /\ proc[p].pc \in {"preparing", "completing", "confirming"}
          /\ JobLocked(proc[p].inv)
    /\ Goto(p, Idle)
    /\ UNCHANGED <<events, job, corrections, outbox, registered, mails>>

\* A worker dies (or is restarted) anywhere in a request: the transaction it
\* is in rolls back, the ones it committed stay.
Crash(p) ==
    /\ proc[p].pc # "idle"
    /\ Goto(p, Idle)
    /\ UNCHANGED <<events, job, corrections, outbox, registered, mails>>

\* What request p does on its own once it has been accepted.
Continue(p) ==
    \/ CommitPrepare(p) \/ MailSent(p) \/ MailFailed(p) \/ PortalReady(p)
    \/ BeginFail(p) \/ CommitFail(p)
    \/ BeginComplete(p) \/ CommitComplete(p)
    \/ CommitConfirm(p)
    \/ DeadlockAbort(p)

Next ==
    \/ \E p \in Procs, i \in Invoices : BeginPrepare(p, i) \/ BeginConfirm(p, i)
    \/ \E p \in Procs : Continue(p) \/ Crash(p)
    \/ \E i \in Invoices : RecordPayment(i) \/ Cancel(i)
    \/ \E o, c \in Invoices : Correct(o, c)
    \/ \E h \in registered : DropRegistration(h)

Spec == Init /\ [][Next]_vars

\* Strong fairness of a request's own steps: a transaction waiting for a row
\* stands in PostgreSQL's lock queue and is not overtaken for ever, and its
\* deadlock detector always aborts a cycle.  Nothing forces a new request.
FairSpec == Spec /\ \A p \in Procs : SF_vars(Continue(p))

-----------------------------------------------------------------------------
(* Properties.                                                             *)

\* "Reserve one delivery attempt so concurrent/retried posts cannot duplicate
\* it" (prepare_invoice_delivery): whatever is retried, confirmed, crashed or
\* aborted, at most one e-mail leaves for an invoice.
AtMostOneMail == \A i \in Invoices : mails[i] <= 1

\* The job row and the audit trail are written by different statements of
\* complete, confirm and fail: a job is sent exactly when the trail holds the
\* delivery, so no delivery is lost or recorded twice.
SentJobIsAudited ==
    \A i \in Invoices : job[i] = "sent" <=> HasKey(events[i], Key("delivered"))

\* Payments are booked on delivered invoices only, and once: in the audit
\* trail a "paid" event comes after the delivery and after no other payment,
\* even when a late fail has appended a state it read earlier.
PaidOnceAfterDelivery ==
    \A i \in Invoices : \A k \in DOMAIN events[i] :
        events[i][k].type = "paid" =>
            /\ \E j \in 1 .. k - 1 : events[i][j].key = Key("delivered")
            /\ \A j \in 1 .. k - 1 : events[i][j].new # "paid"

\* A correction is one-to-one between invoices of one household, and both
\* ends carry its audit event (correct_invoice writes three tables).
CorrectionsAudited ==
    /\ \A l, m \in corrections : l[1] = m[1] \/ l[2] = m[2] => l = m
    /\ \A o, c \in Invoices :
          LET linked == <<o, c>> \in corrections IN
          /\ linked => o # c /\ Participant[o] = Participant[c]
          /\ linked <=> HasKey(events[o], LinkKey("corrected", c))
          /\ linked <=> HasKey(events[c], LinkKey("corrects", o))

\* Why a second e-mail cannot leave: the mail is sent only between a
\* reservation and its resolution, by the one request that made it, and the
\* reservation stays on record after a crash.
ReservationHeld ==
    /\ \A i \in Invoices : mails[i] > 0 => job[i] # "none"
    /\ \A p \in Procs : proc[p].pc = "prepared" =>
          job[proc[p].inv] # "none" /\ mails[proc[p].inv] = 0
    /\ \A p, q \in Procs :
          proc[p].pc = "prepared" /\ proc[q].pc = "prepared" /\ proc[p].inv = proc[q].inv
              => p = q

\* A fail in progress owns the pending job row: no other request resolves
\* the attempt between its UPDATE and its commit.
FailOwnsJob ==
    /\ \A p \in Procs : proc[p].pc = "failing" => job[proc[p].inv] = "pending"
    /\ \A p, q \in Procs :
          proc[p].pc = "failing" /\ proc[q].pc = "failing" /\ proc[p].inv = proc[q].inv
              => p = q

\* Every accepted request comes to an end, in spite of the two lock orders.
EveryRequestEnds ==
    \A p \in Procs : proc[p].pc # "idle" ~> proc[p].pc = "idle"

\* billing_lifecycle._TRANSITIONS has no way out of "cancelled" but
\* "corrected", and none out of "corrected": a cancelled invoice is never
\* collected.  fail_invoice_delivery breaks this: it re-appends a state it
\* read without the invoice lock (run invoice_cancelled_is_final).
CancelledIsFinal ==
    [][\A i \in Invoices :
          current_invoice_state(i) \in {"cancelled", "corrected"}
              => current_invoice_state(i)' \in {"cancelled", "corrected"}]_vars
=============================================================================
