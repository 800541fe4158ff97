--------------------------- MODULE InvoiceQueries ---------------------------
(***************************************************************************)
(* Questions members ask about an invoice: cases with a status, messages,  *)
(* an append-only history, one overdue reminder, and a webhook event for   *)
(* every status change.                                                    *)
(*                                                                         *)
(* Source: store/invoice_query.py, invoice_queries.py, the reminder job in *)
(* cron.py, and the linkage note store/billing.py correct_invoice appends  *)
(* to the cases of a corrected invoice.                                    *)
(*                                                                         *)
(* Every change of a case's status holds its row FOR UPDATE and is one     *)
(* step.  Three things are not: the reminder job lists the due cases and   *)
(* then marks them one transaction at a time, overlapping with other runs  *)
(* of itself; and a correction reads the live cases of its invoice without *)
(* locking them before it writes to their history.  Replies the validation *)
(* refuses (blank, too long, a transition not allowed) change nothing and  *)
(* are not steps.                                                          *)
(***************************************************************************)
EXTENDS Naturals, Sequences, FiniteSets

CONSTANTS
    Disputed,     \* issued invoices
    Cases,        \* cases that may be opened
    InvoiceOf,    \* InvoiceOf[c]: the invoice case c is about
    AnswerKeys,   \* Idempotency-Key values of operator clients
    Crons,        \* runs of the reminder job that may overlap
    MaxMessages,  \* bound: messages without a key, per case
    MaxAborts     \* bound: reminder jobs that die half way

ASSUME QueriesAssumption ==
    /\ InvoiceOf \in [Cases -> Disputed]
    /\ MaxMessages \in Nat
    /\ MaxAborts \in Nat

VARIABLES
    status,           \* invoice_queries.status; "none" before the case is opened
    due,              \* reminder_due_at has passed
    reminded,         \* reminder_sent_at IS NOT NULL
    queryEvents,      \* invoice_query_events of each case, in order
    messages,         \* how often each author appended a message to the case
    answers,          \* operator_action_idempotency rows of case.respond:<case>
    queryOutbox,      \* operator_events: invoice.case.updated
    queryRegistered,  \* the invoice's household still is the one invoiced
    correction,       \* correct_invoice of each invoice: its place and what it read
    listed,           \* what is left of the list each reminder job works through
    aborts

queryVars == <<status, due, reminded, queryEvents, messages, answers, queryOutbox,
               queryRegistered, correction, listed, aborts>>

-----------------------------------------------------------------------------

Live == {"open", "acknowledged"}
Status == Live \cup {"none", "resolved"}

\* author of a message that carries no key: a member or the dashboard
Unkeyed == "unkeyed"

NoReply == [to |-> "none"]

QueryEvent == [kind : {"status", "reminder", "link"}, from : Status, to : Status]

Maps(S, T) == UNION {[D -> T] : D \in SUBSET S}

QueryTypeOK ==
    /\ status \in [Cases -> Status]
    /\ due \in [Cases -> BOOLEAN]
    /\ reminded \in [Cases -> BOOLEAN]
    /\ queryEvents \in [Cases -> Seq(QueryEvent)]
    /\ messages \in [Cases -> [AnswerKeys \cup {Unkeyed} -> Nat]]
    /\ answers \in [Cases -> [AnswerKeys -> [to : {"none", "acknowledged", "resolved"}]]]
    /\ \A o \in queryOutbox : o.case \in Cases /\ o.status \in Status
    /\ queryRegistered \in [Disputed -> BOOLEAN]
    /\ correction \in [Disputed -> [at : {"before", "writing", "done"},
                                    seen : Maps(Cases, Live)]]
    /\ listed \in [Crons -> Maps(Cases, Live)]
    /\ aborts \in 0..MaxAborts

QueryInit ==
    /\ status = [c \in Cases |-> "none"]
    /\ due = [c \in Cases |-> FALSE]
    /\ reminded = [c \in Cases |-> FALSE]
    /\ queryEvents = [c \in Cases |-> << >>]
    /\ messages = [c \in Cases |-> [a \in AnswerKeys \cup {Unkeyed} |-> 0]]
    /\ answers = [c \in Cases |-> [k \in AnswerKeys |-> NoReply]]
    /\ queryOutbox = {}
    /\ queryRegistered = [i \in Disputed |-> TRUE]
    /\ correction = [i \in Disputed |-> [at |-> "before", seen |-> << >>]]
    /\ listed = [p \in Crons |-> << >>]
    /\ aborts = 0

-----------------------------------------------------------------------------
(* Opening a case and writing to it.                                       *)

\* invoice_queries.TRANSITIONS
Transitions(s) ==
    CASE s = "open"         -> {"acknowledged", "resolved"}
      [] s = "acknowledged" -> {"resolved"}
      [] OTHER              -> {}

\* _append
Append_message(c, author) ==
    messages' = [messages EXCEPT ![c][author] = @ + 1]

\* _event
Append_event(c, kind, from, to) ==
    queryEvents' = [queryEvents EXCEPT ![c] =
                   Append(@, [kind |-> kind, from |-> from, to |-> to])]

\* The INSERT references the invoice row, which a correction holds FOR
\* UPDATE from its first statement to its commit.
InvoiceUnlocked(i) == correction[i].at # "writing"

open_invoice_query(c) ==
    /\ status[c] = "none"
    /\ queryRegistered[InvoiceOf[c]]
    /\ InvoiceUnlocked(InvoiceOf[c])
    /\ status' = [status EXCEPT ![c] = "open"]
    /\ Append_message(c, Unkeyed)
    /\ Append_event(c, "status", "none", "open")
    /\ UNCHANGED <<due, reminded, answers, queryOutbox, queryRegistered, correction,
                   listed, aborts>>

\* A member writes to an own case, resolved ones included.
add_invoice_query_message(c) ==
    /\ status[c] # "none"
    /\ queryRegistered[InvoiceOf[c]]
    /\ messages[c][Unkeyed] < MaxMessages
    /\ Append_message(c, Unkeyed)
    /\ UNCHANGED <<status, due, reminded, queryEvents, answers, queryOutbox, queryRegistered,
                   correction, listed, aborts>>

\* event_identity=transition:<id of the history row>
EventIdentity(c, n) == <<c, n>>

\* enqueue_event: ON CONFLICT (event_id) DO NOTHING
enqueue_event(c, id, s) ==
    queryOutbox' = IF \E o \in queryOutbox : o.id = id THEN queryOutbox
              ELSE queryOutbox \cup {[id |-> id, case |-> c, status |-> s]}

\* _change with a target status, under the row lock
ChangeStatus(c, to) ==
    /\ to \in Transitions(status[c])
    /\ status' = [status EXCEPT ![c] = to]
    /\ Append_event(c, "status", status[c], to)
    /\ enqueue_event(c, EventIdentity(c, Len(queryEvents[c]) + 1), to)

\* The dashboard: a reply, a status, or both.
update_invoice_query(c) ==
    /\ status[c] # "none"
    /\ \/ /\ messages[c][Unkeyed] < MaxMessages
          /\ Append_message(c, Unkeyed)
          /\ \/ \E to \in Status : ChangeStatus(c, to)
             \/ UNCHANGED <<status, queryEvents, queryOutbox>>
       \/ /\ \E to \in Status : ChangeStatus(c, to)
          /\ UNCHANGED messages
    /\ UNCHANGED <<due, reminded, answers, queryRegistered, correction, listed, aborts>>

\* _replay: the key has answered before; the request is answered again from
\* the stored row, or refused when its hash differs.  Neither writes.
Replay(c, k) == answers[c][k] # NoReply

\* An operator client: a keyed reply with its status, both required.
respond_operator_invoice_case(c, k) ==
    /\ ~Replay(c, k)
    /\ \E to \in Status :
        /\ ChangeStatus(c, to)
        /\ Append_message(c, k)
        /\ answers' = [answers EXCEPT ![c][k] = [to |-> to]]
    /\ UNCHANGED <<due, reminded, queryRegistered, correction, listed, aborts>>

-----------------------------------------------------------------------------
(* The reminder job.                                                       *)

\* Time passes: reminder_due_at of a case lies in the past.
BecomeDue(c) ==
    /\ status[c] # "none"
    /\ ~due[c]
    /\ due' = [due EXCEPT ![c] = TRUE]
    /\ UNCHANGED <<status, reminded, queryEvents, messages, answers, queryOutbox,
                   queryRegistered, correction, listed, aborts>>

\* mutant: only cases nobody has acknowledged are listed
DueCases_unacknowledged ==
    {c \in Cases : status[c] = "open" /\ due[c] /\ ~reminded[c]}

\* due_invoice_query_reminders
DueCases == {c \in Cases : status[c] \in Live /\ due[c] /\ ~reminded[c]}

\* A job starts: it keeps the listed rows, with the status it read.
due_invoice_query_reminders(p) ==
    /\ listed[p] = << >>
    /\ DueCases # {}
    /\ listed' = [listed EXCEPT ![p] = [c \in DueCases |-> status[c]]]
    /\ UNCHANGED <<status, due, reminded, queryEvents, messages, answers, queryOutbox,
                   queryRegistered, correction, aborts>>

\* WHERE reminder_sent_at IS NULL
Unmarked(c) == ~reminded[c]

\* mutant: the history shows the status the list returned
StatusWhenMarked_listed(p, c) == listed[p][c]

\* The status RETURNING gives is the one of the row just locked.
StatusWhenMarked(p, c) == status[c]

\* The case is not read again: one resolved since is marked like the rest.
mark_invoice_query_reminded(p) ==
    \E c \in DOMAIN listed[p] :
        /\ listed' = [listed EXCEPT ![p] = [d \in DOMAIN @ \ {c} |-> @[d]]]
        /\ IF Unmarked(c)
           THEN /\ reminded' = [reminded EXCEPT ![c] = TRUE]
                /\ Append_event(c, "reminder", StatusWhenMarked(p, c),
                                StatusWhenMarked(p, c))
           ELSE UNCHANGED <<reminded, queryEvents>>
        /\ UNCHANGED <<status, due, messages, answers, queryOutbox, queryRegistered,
                       correction, aborts>>

\* The worker dies between two cases, or one of them fails.
AbortReminders(p) ==
    /\ listed[p] # << >>
    /\ aborts < MaxAborts
    /\ aborts' = aborts + 1
    /\ listed' = [listed EXCEPT ![p] = << >>]
    /\ UNCHANGED <<status, due, reminded, queryEvents, messages, answers, queryOutbox,
                   queryRegistered, correction>>

-----------------------------------------------------------------------------
(* A correction of the invoice, and the household behind it.               *)

LiveCases(i) == {c \in Cases : InvoiceOf[c] = i /\ status[c] \in Live}

\* The SELECT of record_invoice_query_linkage, inside correct_invoice, which
\* holds the invoice row; an invoice is corrected once.
ReadLinkage(i) ==
    /\ correction[i].at = "before"
    /\ correction' = [correction EXCEPT ![i] =
                          [at |-> "writing", seen |-> [c \in LiveCases(i) |-> status[c]]]]
    /\ UNCHANGED <<status, due, reminded, queryEvents, messages, answers, queryOutbox,
                   queryRegistered, listed, aborts>>

LinkEvent(s) == [kind |-> "link", from |-> s, to |-> s]

\* Its INSERTs, with the status it read, and the commit of the correction.
record_invoice_query_linkage(i) ==
    /\ correction[i].at = "writing"
    /\ correction' = [correction EXCEPT ![i].at = "done"]
    /\ queryEvents' = [c \in Cases |->
                      IF c \in DOMAIN correction[i].seen
                      THEN Append(queryEvents[c], LinkEvent(correction[i].seen[c]))
                      ELSE queryEvents[c]]
    /\ UNCHANGED <<status, due, reminded, messages, answers, queryOutbox, queryRegistered,
                   listed, aborts>>

\* The household leaves, or registers anew with another referral code.
ChangeRegistration(i) ==
    /\ queryRegistered[i]
    /\ queryRegistered' = [queryRegistered EXCEPT ![i] = FALSE]
    /\ UNCHANGED <<status, due, reminded, queryEvents, messages, answers, queryOutbox,
                   correction, listed, aborts>>

-----------------------------------------------------------------------------

QueryNext ==
    \/ \E c \in Cases :
        \/ open_invoice_query(c)
        \/ add_invoice_query_message(c)
        \/ update_invoice_query(c)
        \/ \E k \in AnswerKeys : respond_operator_invoice_case(c, k)
        \/ BecomeDue(c)
    \/ \E p \in Crons :
        \/ due_invoice_query_reminders(p)
        \/ mark_invoice_query_reminded(p)
        \/ AbortReminders(p)
    \/ \E i \in Disputed :
        \/ ReadLinkage(i)
        \/ record_invoice_query_linkage(i)
        \/ ChangeRegistration(i)

QuerySpec == QueryInit /\ [][QueryNext]_queryVars

\* The job is called again and again, and a running job works off its list.
ReminderFairness ==
    \A p \in Crons : /\ WF_queryVars(due_invoice_query_reminders(p))
                     /\ WF_queryVars(mark_invoice_query_reminded(p))

QueryFairSpec == QuerySpec /\ ReminderFairness

-----------------------------------------------------------------------------

\* Places in the history of a case that hold one of these kinds.
PlacesOf(c, kinds) == {n \in DOMAIN queryEvents[c] : queryEvents[c][n].kind \in kinds}

\* Linkage notes are left out: record_invoice_query_linkage reads the status
\* without a lock, and its note may follow the change it did not see.
Steps(c) == PlacesOf(c, {"status", "reminder"})

\* The last step before place n of the history leads to s; a history without
\* steps leads to no status.
LeadsTo(c, n, s) ==
    \/ s = "none" /\ \A m \in Steps(c) : m >= n
    \/ \E m \in Steps(c) :
          /\ m < n /\ queryEvents[c][m].to = s
          /\ \A k \in Steps(c) : k <= m \/ k >= n

\* Read in order, the status changes and reminders of a case lead from
\* nothing to its present status, each starting where the one before ended:
\* nobody writes history from a status read before somebody else's change
\* (_change, mark_invoice_query_reminded).  Before it is opened it has none.
HistoryLeadsToStatus ==
    \A c \in Cases :
        /\ status[c] = "none" => queryEvents[c] = << >>
        /\ \A n \in Steps(c) : LeadsTo(c, n, queryEvents[c][n].from)
        /\ LeadsTo(c, Len(queryEvents[c]) + 1, status[c])

\* "Record the overdue reminder once": however many jobs overlap or die, the
\* history holds one reminder exactly when reminder_sent_at is set.
RemindedOnce ==
    \A c \in Cases :
        IF reminded[c] THEN \E n \in DOMAIN queryEvents[c] : PlacesOf(c, {"reminder"}) = {n}
        ELSE PlacesOf(c, {"reminder"}) = {}

\* A keyed reply that is asked for again because its answer was lost is neither
\* sent nor applied again: a key stands for one message and for a change of the
\* status of its own, that the history shows and no other key has
\* (respond_operator_invoice_case, _replay).
KeyedRepliesOnce ==
    \A c \in Cases : \A k \in AnswerKeys :
        /\ messages[c][k] = (IF answers[c][k] = NoReply THEN 0 ELSE 1)
        /\ answers[c][k] # NoReply =>
               /\ \E n \in PlacesOf(c, {"status"}) : queryEvents[c][n].to = answers[c][k].to
               /\ \A j \in AnswerKeys \ {k} : answers[c][j] # answers[c][k]

\* Every overdue case is reminded of or resolved, although jobs may die.
OverdueIsReminded ==
    \A c \in Cases :
        due[c] ~> reminded[c] \/ status[c] = "resolved"
=============================================================================
