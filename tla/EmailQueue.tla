----------------------------- MODULE EmailQueue -----------------------------
(***************************************************************************)
(* The outbound e-mail queue: store/email_queue.py, the drip sequence and  *)
(* its sender in email_automation.py, called by api_cron_process_emails.   *)
(*                                                                         *)
(* A confirmed registration schedules one row per template, each in a      *)
(* check and an insert of its own.  A sender works off a list it read      *)
(* once; nothing marks the rows it holds, so two calls of the cron route   *)
(* may hold the same row.  The mail server takes the mail before the row   *)
(* is marked; the sender may die in between, the mark may fail, and a mail *)
(* whose answer is lost counts as failed although it was taken.  Rows go   *)
(* with their building (ON DELETE CASCADE).  cancel_emails_for_building    *)
(* has no caller in the program and is left out.                           *)
(***************************************************************************)
EXTENDS Naturals, Sequences, FiniteSets

CONSTANTS
    Buildings,     \* registrations
    Templates,     \* the templates of get_email_sequence, in order
    Confirmers,    \* requests that confirm a registration
    Senders,       \* calls of the cron route
    MailAttempts,  \* MAX_EMAIL_ATTEMPTS
    Batch,         \* rows one call takes (50)
    MaxMails,      \* bound on rows ever inserted
    MailCrashes,   \* bound on senders that die and marks that fail
    NoBuilding

ASSUME EmailQueueAssumption ==
    /\ MailAttempts \in Nat \ {0} /\ Batch \in Nat \ {0}
    /\ MaxMails \in Nat /\ MailCrashes \in Nat
    /\ Templates \in Seq(STRING) /\ Templates # << >>
    /\ IsFiniteSet(Senders) /\ NoBuilding \notin Buildings

VARIABLES
    signedUp,    \* the buildings that exist
    mailRows,    \* scheduled_emails
    scheduling,  \* per confirmation: what it has still to schedule
    held,        \* per sender: the rows of its list, as they were listed
    posted,      \* per sender: the result of the row in hand
    accepted,    \* per row: how often the mail server took it
    mailCrashes

mailVars == <<signedUp, mailRows, scheduling, held, posted, accepted, mailCrashes>>

-----------------------------------------------------------------------------

\* "later" is pending with a send_at in the future; a "gone" row is deleted,
\* and nothing but its place in the table is left.
MailStatus == {"later", "pending", "sent", "failed", "gone"}

Mail == [of : Buildings, template : {Templates[k] : k \in DOMAIN Templates},
         status : MailStatus, tries : Nat, addressed : BOOLEAN]

Deleted(row) == [of |-> row.of, template |-> row.template, status |-> "gone", tries |-> 0, addressed |-> FALSE]

NotScheduling == [of |-> NoBuilding, todo |-> << >>, insert |-> FALSE]

MailTypeOK ==
    /\ signedUp \in SUBSET Buildings
    /\ mailRows \in Seq(Mail) /\ Len(mailRows) <= MaxMails
    /\ \A c \in Confirmers : scheduling[c].of \in Buildings \cup {NoBuilding}
    /\ \A w \in Senders : \A n \in DOMAIN held[w] : held[w][n].id \in DOMAIN mailRows
    /\ posted \in [Senders -> {"none", "taken", "refused"}]
    /\ DOMAIN accepted = DOMAIN mailRows

MailInit ==
    /\ signedUp = {}
    /\ mailRows = << >>
    /\ scheduling = [c \in Confirmers |-> NotScheduling]
    /\ held = [w \in Senders |-> << >>]
    /\ posted = [w \in Senders |-> "none"]
    /\ accepted = << >>
    /\ mailCrashes = 0

-----------------------------------------------------------------------------
(* Registration side.                                                      *)

\* confirm_building: the registration is committed, then the sequence starts.
ConfirmBuilding(c, b) ==
    /\ scheduling[c] = NotScheduling
    /\ signedUp' = signedUp \cup {b}
    /\ scheduling' = [scheduling EXCEPT
           ![c] = [of |-> b, todo |-> Templates, insert |-> FALSE]]
    /\ UNCHANGED <<mailRows, held, posted, accepted, mailCrashes>>

\* schedule_email, first statement: skip a template already scheduled or sent.
Scheduled(b, t) == \E k \in DOMAIN mailRows :
    /\ mailRows[k].of = b /\ mailRows[k].template = t
    /\ mailRows[k].status \in {"later", "pending", "sent"}

Proceed(s) == IF Len(s.todo) = 1 THEN NotScheduling
              ELSE [of |-> s.of, todo |-> Tail(s.todo), insert |-> FALSE]

CheckScheduled(c) == LET s == scheduling[c] IN
    /\ s # NotScheduling /\ ~s.insert
    /\ scheduling' = [scheduling EXCEPT
           ![c] = IF Scheduled(s.of, Head(s.todo)) THEN Proceed(s)
                  ELSE [s EXCEPT !.insert = TRUE]]
    /\ UNCHANGED <<signedUp, mailRows, held, posted, accepted, mailCrashes>>

\* schedule_email, second statement; without its building the insert fails
\* and is only logged.
InsertMail(c) == LET s == scheduling[c] IN
    /\ s.insert
    /\ scheduling' = [scheduling EXCEPT ![c] = Proceed(s)]
    /\ IF s.of \in signedUp
       THEN /\ Len(mailRows) < MaxMails
            /\ mailRows' = Append(mailRows, [of |-> s.of, template |-> Head(s.todo),
                               status |-> "later", tries |-> 0, addressed |-> TRUE])
            /\ accepted' = Append(accepted, 0)
       ELSE UNCHANGED <<mailRows, accepted>>
    /\ UNCHANGED <<signedUp, held, posted, mailCrashes>>

\* delete_building and its cascade
DropBuilding(b) ==
    /\ b \in signedUp
    /\ signedUp' = signedUp \ {b}
    /\ mailRows' = [k \in DOMAIN mailRows |->
           IF mailRows[k].of = b THEN Deleted(mailRows[k]) ELSE mailRows[k]]
    /\ UNCHANGED <<scheduling, held, posted, accepted, mailCrashes>>

MailBecomesDue(k) ==
    /\ mailRows[k].status = "later"
    /\ mailRows' = [mailRows EXCEPT ![k].status = "pending"]
    /\ UNCHANGED <<signedUp, scheduling, held, posted, accepted, mailCrashes>>

-----------------------------------------------------------------------------
(* The sender.                                                             *)

\* get_pending_emails: the due rows that were scheduled first
Due == {k \in DOMAIN mailRows : mailRows[k].status = "pending"}

FirstDue == {k \in Due : Cardinality({j \in Due : j < k}) < Batch}

InOrder(S) == {list \in [1..Cardinality(S) -> S] :
    \A m, n \in DOMAIN list : m < n => list[m] < list[n]}

get_pending_emails(w) ==
    /\ held[w] = << >> /\ Due # {}
    /\ \E list \in InOrder(FirstDue) :
           held' = [held EXCEPT ![w] = [n \in DOMAIN list |->
               [id |-> list[n], addressed |-> mailRows[list[n]].addressed]]]
    /\ UNCHANGED <<signedUp, mailRows, scheduling, posted, accepted, mailCrashes>>

\* process_email_queue, one row: a login link that cannot be issued (the
\* building is gone), a template that cannot be rendered and a refused mail
\* all end as a failure; a mail without an address is never taken.  send_email
\* also reports a failure when the server took the mail and the connection
\* broke afterwards.
SendMail(w) ==
    /\ held[w] # << >> /\ posted[w] = "none"
    /\ LET row == Head(held[w]) IN
       \/ /\ posted' = [posted EXCEPT ![w] = "refused"]
          /\ UNCHANGED accepted
       \/ /\ mailRows[row.id].of \in signedUp /\ row.addressed
          /\ \E answer \in {"taken", "refused"} : posted' = [posted EXCEPT ![w] = answer]
          /\ accepted' = [accepted EXCEPT ![row.id] = @ + 1]
    /\ UNCHANGED <<signedUp, mailRows, scheduling, held, mailCrashes>>

mark_email_sent_keeps_address(k) ==
    [mailRows EXCEPT ![k] = IF @.status = "gone" THEN @
                         ELSE [@ EXCEPT !.status = "sent"]]

Updated(row, status, tries, addressed) ==
    [of |-> row.of, template |-> row.template, status |-> status, tries |-> tries, addressed |-> addressed]

\* the address is scrubbed with the mark
mark_email_sent(k) ==
    [mailRows EXCEPT ![k] = IF @.status = "gone" THEN @ ELSE Updated(@, "sent", @.tries, FALSE)]

mark_email_failed_uncounted(k) ==
    [mailRows EXCEPT ![k] =
        IF @.status = "gone" THEN @
        ELSE [@ EXCEPT !.status = IF mailRows[k].tries >= MailAttempts THEN "failed" ELSE "pending"]]

\* whatever the row had become in the meantime
mark_email_failed(k) ==
    [mailRows EXCEPT ![k] =
        IF @.status = "gone" THEN @
        ELSE Updated(@, IF @.tries + 1 >= MailAttempts THEN "failed" ELSE "pending",
                     @.tries + 1, @.addressed)]

MarkMail(w) ==
    /\ posted[w] # "none"
    /\ mailRows' = IF posted[w] = "taken" THEN mark_email_sent(Head(held[w]).id)
                ELSE mark_email_failed(Head(held[w]).id)
    /\ held' = [held EXCEPT ![w] = Tail(@)]
    /\ posted' = [posted EXCEPT ![w] = "none"]
    /\ UNCHANGED <<signedUp, scheduling, accepted, mailCrashes>>

\* The database refuses the mark: it is logged, and the sender goes on.
MarkFails(w) ==
    /\ posted[w] # "none" /\ mailCrashes < MailCrashes
    /\ held' = [held EXCEPT ![w] = Tail(@)]
    /\ posted' = [posted EXCEPT ![w] = "none"]
    /\ mailCrashes' = mailCrashes + 1
    /\ UNCHANGED <<signedUp, mailRows, scheduling, accepted>>

SenderDies(w) ==
    /\ held[w] # << >> /\ mailCrashes < MailCrashes
    /\ held' = [held EXCEPT ![w] = << >>]
    /\ posted' = [posted EXCEPT ![w] = "none"]
    /\ mailCrashes' = mailCrashes + 1
    /\ UNCHANGED <<signedUp, mailRows, scheduling, accepted>>

\* cleanup_finished_emails: a finished row is deleted after its retention.
cleanup_finished_emails(k) ==
    /\ mailRows[k].status \in {"sent", "failed"}
    /\ mailRows' = [mailRows EXCEPT ![k] = Deleted(@)]
    /\ UNCHANGED <<signedUp, scheduling, held, posted, accepted, mailCrashes>>

-----------------------------------------------------------------------------

MailNext ==
    \/ \E c \in Confirmers :
        \/ \E b \in Buildings : ConfirmBuilding(c, b)
        \/ CheckScheduled(c)
        \/ InsertMail(c)
    \/ \E b \in Buildings : DropBuilding(b)
    \/ \E k \in DOMAIN mailRows : MailBecomesDue(k) \/ cleanup_finished_emails(k)
    \/ \E w \in Senders :
        \/ get_pending_emails(w)
        \/ SendMail(w)
        \/ MarkMail(w)
        \/ MarkFails(w)
        \/ SenderDies(w)

MailSpec == MailInit /\ [][MailNext]_mailVars

\* The cron route is called again and again, and a call works off its list.
MailFairness ==
    /\ \A w \in Senders : WF_mailVars(get_pending_emails(w) \/ SendMail(w) \/ MarkMail(w))
    /\ \A k \in 1..MaxMails : WF_mailVars(k \in DOMAIN mailRows /\ MailBecomesDue(k))

-----------------------------------------------------------------------------

\* How often a row came back into the queue, at most: the last failure of
\* MAX_EMAIL_ATTEMPTS ends it, and a deleted row has lost its count.
Returns(k) == IF mailRows[k].status # "gone" /\ mailRows[k].tries < MailAttempts
              THEN mailRows[k].tries ELSE MailAttempts - 1

\* One mail may be sent several times: by overlapping cron calls, after a call
\* died or could not mark it, and after a lost answer that counted as a
\* failure.  But the server takes no mail more often than there are
\* overlapping calls, deaths or failed marks, and counted failures that put
\* it back; no other way leads to a second mail.  A row that fails for one
\* call after another one sent it returns to the queue without its address
\* (mark_email_sent scrubs it, mark_email_failed does not look).
TakingsBounded == \A k \in DOMAIN mailRows :
    accepted[k] <= Cardinality(Senders) + mailCrashes + Returns(k)

\* Every scheduled mail leaves the queue: sent, failed for good after
\* MAX_EMAIL_ATTEMPTS, or deleted with its building.  A failing mail, a lost
\* sender or a row another call resets never blocks it or those behind it.
EveryMailSettles ==
    \A k \in 1..MaxMails : (k \in DOMAIN mailRows)
        ~> (k \in DOMAIN mailRows /\ mailRows[k].status \in {"sent", "failed", "gone"})

=============================================================================
