------------------------- MODULE BankReconciliation -------------------------
(***************************************************************************)
(* Bank statements on top of the invoice lifecycle: a camt statement is    *)
(* imported once, exact matches are booked as payments in the same         *)
(* transaction, and an operator may later confirm what was left open.      *)
(*                                                                         *)
(* Source: payment_reconciliation.py (matching rules), store/billing.py    *)
(* reconcile_bank_statement and confirm_payment.  Both end in the audit    *)
(* trail of module InvoiceLifecycle, next to payments recorded by hand.    *)
(*                                                                         *)
(* An import locks every invoice of the community, so it is one step taken *)
(* when none is locked; a confirmation locks its entry and then one        *)
(* invoice, and nothing else changes a recorded entry.                     *)
(***************************************************************************)
EXTENDS InvoiceLifecycle

CONSTANTS
    Gross,          \* Gross[i]: gross_chf of the invoice
    Number,         \* Number[i]: its invoice number, normalised
    Statements,     \* statement files, told apart by their fingerprint
    Content,        \* Content[s]: the payments of s, in file order
    OperatorKeys,   \* Idempotency-Key values of confirmation requests
    NoReference     \* a payment without a reference

\* credit stands for CRDT in CHF.  Entry references are distinct inside one
\* statement (UNIQUE (statement_import_id, entry_reference)), so an entry is
\* identified by its statement and its position.
Payments == [ref : STRING \cup {NoReference}, amount : Nat, credit : BOOLEAN,
             reversal : BOOLEAN]

\* The idempotency keys of the two ways a bank entry books a payment:
\* bank:<import>:<entry reference> and operator:<request key>.
BankKey(id) == [kind |-> "bank", ref |-> id]
OperatorKey(k) == [kind |-> "operator", ref |-> k]

ASSUME ReconciliationAssumption ==
    /\ IsFiniteSet(Invoices)
    /\ Gross \in [Invoices -> Nat]
    /\ \A s \in Statements : Content[s] \in Seq(Payments)
    /\ \A s \in Statements : \A k \in DOMAIN Content[s] : BankKey(<<s, k>>) \in BookingKeys
    /\ \A k \in OperatorKeys : OperatorKey(k) \in BookingKeys

VARIABLES
    entry,          \* bank_statement_entries: entry id -> decision and invoice
    confirmations   \* operator_action_idempotency rows of payment.confirm

bankVars == <<entry, confirmations>>
reconVars == <<vars, entry, confirmations>>

-----------------------------------------------------------------------------

PaymentOf(id) == Content[id[1]][id[2]]

EntriesOf(s) == {<<s, k>> : k \in DOMAIN Content[s]}

Decisions == {"matched", "unmatched", "ambiguous", "split_payment",
              "overpayment", "reversal", "mismatch"}

\* payment_eligibility: the acceptance rules, tried in this order.
payment_eligibility(e, i) ==
    CASE e.reversal                 -> "reversal"
      [] ~e.reversal /\ ~e.credit   -> "mismatch"
      [] OTHER ->
           CASE e.amount < Gross[i] -> "split_payment"
             [] e.amount > Gross[i] -> "overpayment"
             [] e.amount = Gross[i] ->
                  IF current_invoice_state(i) = "delivered" THEN "matched" ELSE "mismatch"

\* Invoices whose normalised number is the entry's normalised reference.
Candidates(e) == {i \in Invoices : e.ref # NoReference /\ Number[i] = e.ref}

\* match_payment, against the states at the start of the import.
match_payment(e) ==
    LET candidates == Candidates(e)
        theInvoice == IF Cardinality(candidates) = 1
                      THEN CHOOSE i \in candidates : TRUE
                      ELSE NoInvoice
    IN
    CASE e.reversal -> [decision |-> "reversal", invoice |-> theInvoice]
      [] ~e.reversal /\ Cardinality(candidates) > 1 ->
             [decision |-> "ambiguous", invoice |-> NoInvoice]
      [] ~e.reversal /\ candidates = {} ->
             [decision |-> "unmatched", invoice |-> NoInvoice]
      [] OTHER -> [decision |-> payment_eligibility(e, theInvoice), invoice |-> theInvoice]

\* An earlier entry of the same statement already paid the entry's invoice:
\* the import updates the state it holds in memory after each match.
PaidEarlier(id) ==
    \E k \in 1 .. id[2] - 1 :
        LET earlier == match_payment(PaymentOf(<<id[1], k>>)) IN
        /\ earlier.decision = "matched"
        /\ earlier.invoice = match_payment(PaymentOf(id)).invoice

\* mutant: two equal entries of one statement are both taken as payments
Decided_each(id) == match_payment(PaymentOf(id))

\* The decision written for an entry of a statement being imported.
Decided(id) ==
    LET m == match_payment(PaymentOf(id)) IN
    IF m.decision = "matched" /\ PaidEarlier(id)
    THEN [m EXCEPT !.decision = "mismatch"]
    ELSE m

-----------------------------------------------------------------------------

ReconInit == Init /\ entry = << >> /\ confirmations = {}

\* reconcile_bank_statement.  A fingerprint imported before returns the
\* stored decisions and changes nothing.
ImportStatement(s) ==
    LET paying(i) == {id \in EntriesOf(s) : Decided(id) = [decision |-> "matched", invoice |-> i]}
        paid(id) == Event("paid", "delivered", "paid", BankKey(id))
    IN
    /\ EntriesOf(s) \cap DOMAIN entry = {}
    /\ \A i \in Invoices : ~InvoiceLocked(i)
    /\ entry' = [id \in DOMAIN entry \cup EntriesOf(s) |->
                    IF id \in DOMAIN entry THEN entry[id] ELSE Decided(id)]
    /\ events' = [i \in Invoices |->
                    IF paying(i) = {} THEN events[i]
                    ELSE Appended(events[i], paid(CHOOSE id \in paying(i) : TRUE))]
    /\ outbox' = outbox \cup {<<"paid", i>> : i \in {j \in Invoices : paying(j) # {}}}
    /\ UNCHANGED <<job, corrections, registered, mails, proc, confirmations>>

\* confirm_payment: an operator assigns an undecided entry to an invoice.  A
\* key used before for the entry replays its answer, or is refused when the
\* invoice differs: no state changes.  next_state also refuses a payment
\* without a reference, so such an entry can never be confirmed.
ConfirmPayment(id, i, key) ==
    LET e == PaymentOf(id)
        paid == Event("paid", "delivered", "paid", OperatorKey(key))
    IN
    /\ id \in DOMAIN entry
    /\ \A c \in confirmations : ~(c.entry = id /\ c.key = key)
    /\ entry[id].decision \in {"unmatched", "ambiguous", "mismatch"}
    /\ ~InvoiceLocked(i)
    /\ payment_eligibility(e, i) = "matched"
    /\ e.ref # NoReference
    /\ entry' = [entry EXCEPT ![id] = [decision |-> "matched", invoice |-> i]]
    /\ events' = [events EXCEPT ![i] = Appended(@, paid)]
    /\ outbox' = outbox \cup Published(i, paid)
                        \cup {<<"payment.match.confirmed", <<i, key>>>>}
    /\ confirmations' = confirmations \cup {[entry |-> id, key |-> key, invoice |-> i]}
    /\ UNCHANGED <<job, corrections, registered, mails, proc>>

ReconNext ==
    \/ Next /\ UNCHANGED bankVars
    \/ \E s \in Statements : ImportStatement(s)
    \/ \E id \in DOMAIN entry, i \in Invoices, key \in OperatorKeys :
          ConfirmPayment(id, i, key)

ReconSpec == ReconInit /\ [][ReconNext]_reconVars

-----------------------------------------------------------------------------
(* Properties.                                                             *)

ReconTypeOK ==
    /\ TypeOK
    /\ \A id \in DOMAIN entry :
          /\ id[1] \in Statements /\ id \in EntriesOf(id[1])
          /\ entry[id] \in [decision : Decisions, invoice : Invoices \cup {NoInvoice}]
    /\ confirmations \subseteq [entry : DOMAIN entry, key : OperatorKeys, invoice : Invoices]

\* One bank entry books one payment and one invoice takes one: no invoice is
\* paid by two entries of a statement, by the same booking exported in two
\* statements, or by an import and a confirmation.
MatchedEntriesPayOnce ==
    \A a, b \in DOMAIN entry :
        /\ entry[a].decision = "matched"
        /\ entry[b].decision = "matched"
        /\ entry[a].invoice = entry[b].invoice
        => a = b

\* The entry table and the audit trail are written by different statements of
\* one transaction: an entry is matched to an invoice exactly when the trail
\* of that invoice holds the payment booked for it.
MatchesAreAudited ==
    \A id \in DOMAIN entry, i \in Invoices :
        entry[id] = [decision |-> "matched", invoice |-> i] <=>
            \/ HasKey(events[i], BankKey(id))
            \/ \E c \in confirmations :
                  /\ c.entry = id /\ c.invoice = i
                  /\ HasKey(events[i], OperatorKey(c.key))

\* What a bank statement paid: each entry once, each match on the invoice's
\* record (store/billing.py reconcile and confirm).
MatchesStand == MatchedEntriesPayOnce /\ MatchesAreAudited
=============================================================================
