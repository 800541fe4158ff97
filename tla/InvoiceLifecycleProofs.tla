---------------------- MODULE InvoiceLifecycleProofs ----------------------
(* Theorems about invoices and the questions members ask about them, for   *)
(* any number of invoices, households, cases and concurrent requests.      *)
EXTENDS BankReconciliation, InvoiceQueries, FiniteSetTheorems, SequenceTheorems, TLAPS

\* The transition table yields a state of the table or the refusal.
LEMMA NextStateType ==
    ASSUME NEW s, NEW ev, next_state(s, ev) # "refused"
    PROVE  next_state(s, ev) \in States
BY DEF next_state, States

\* Appending under an idempotency key keeps a log a log.
LEMMA AppendedType ==
    ASSUME NEW log \in Seq(Events), NEW e \in Events
    PROVE  Appended(log, e) \in Seq(Events)
BY DEF Appended

\* After an append the log has the keys it had and the new one: the row is
\* skipped exactly when its key was there already.
LEMMA AppendedKeys ==
    ASSUME NEW log \in Seq(Events), NEW e, NEW k
    PROVE  HasKey(Appended(log, e), k) <=> (HasKey(log, k) \/ e.key = k)
<1>1. CASE HasKey(log, e.key)
  BY <1>1 DEF Appended, HasKey
<1>2. CASE ~HasKey(log, e.key)
  <2>1. Appended(log, e) = Append(log, e)
    BY <1>2 DEF Appended
  <2>2. /\ DOMAIN Append(log, e) = 1 .. Len(log) + 1
        /\ DOMAIN log = 1 .. Len(log)
        /\ Len(log) \in Nat
        /\ \A n \in 1 .. Len(log) : Append(log, e)[n] = log[n]
        /\ Append(log, e)[Len(log) + 1] = e
    OBVIOUS
  <2> QED
    BY <2>1, <2>2 DEF HasKey
<1> QED
  BY <1>1, <1>2

\* The state an invoice is in is one of the five.
LEMMA CurrentStateType ==
    ASSUME TypeOK, NEW i \in Invoices
    PROVE  current_invoice_state(i) \in States
<1>1. events[i] \in Seq(Events)
  BY DEF TypeOK
<1>2. CASE events[i] = <<>>
  BY <1>2 DEF current_invoice_state, States
<1>3. CASE events[i] # <<>>
  <2>1. Len(events[i]) \in 1 .. Len(events[i])
    BY <1>1, <1>3
  <2>2. events[i][Len(events[i])] \in Events
    BY <1>1, <2>1
  <2> QED
    BY <1>3, <2>2 DEF current_invoice_state, Events
<1> QED
  BY <1>2, <1>3

\* What append_invoice_event does to the two tables, types only.
LEMMA AppendEventType ==
    ASSUME TypeOK, NEW i \in Invoices, NEW e \in Events, append_invoice_event(i, e)
    PROVE  /\ events' \in [Invoices -> Seq(Events)]
           /\ \A o \in outbox' : o[1] \in EventTypes => o[2] \in Invoices
<1>1. events[i] \in Seq(Events) /\ events \in [Invoices -> Seq(Events)]
  BY DEF TypeOK
<1>2. Appended(events[i], e) \in Seq(Events)
  BY <1>1, AppendedType
<1>3. events' \in [Invoices -> Seq(Events)]
  BY <1>1, <1>2 DEF append_invoice_event
<1>4. Published(i, e) \subseteq EventTypes \X Invoices
  BY DEF Published, Events
<1> QED
  BY <1>3, <1>4 DEF append_invoice_event, TypeOK

-----------------------------------------------------------------------------
\* Requests move between steps of PCs, on one invoice.
LEMMA GotoType ==
    ASSUME TypeOK, NEW p \in Procs, NEW r,
           Goto(p, r),
           r \in [pc : PCs, inv : Invoices \cup {NoInvoice}, seen : States],
           r.pc # "idle" => r.inv \in Invoices
    PROVE  /\ proc' \in [Procs -> [pc : PCs, inv : Invoices \cup {NoInvoice}, seen : States]]
           /\ \A q \in Procs : proc'[q].pc # "idle" => proc'[q].inv \in Invoices
BY DEF Goto, TypeOK

\* The places a process can be at are records of its type.
LEMMA StepRecords ==
    /\ Idle \in [pc : PCs, inv : Invoices \cup {NoInvoice}, seen : States]
    /\ \A step \in PCs, i \in Invoices :
          At(step, i) \in [pc : PCs, inv : Invoices \cup {NoInvoice}, seen : States]
BY DEF Idle, At, PCs, States

\* Complete and confirm keep the types of the tables they write.
LEMMA DeliverType ==
    ASSUME TypeOK, NEW i \in Invoices, NEW from,
           NEW type \in EventTypes, Deliver(i, from, type)
    PROVE  /\ events' \in [Invoices -> Seq(Events)]
           /\ \A o \in outbox' : o[1] \in EventTypes => o[2] \in Invoices
           /\ job' \in [Invoices -> JobStates]
<1> DEFINE state == current_invoice_state(i)
           e == Event(type, state, "delivered", Key("delivered"))
<1>1. state \in States
  BY CurrentStateType
<1>2. e \in Events
  BY <1>1 DEF Event, Events, Key, Keys, OwnKeys, States
<1>3. CASE append_invoice_event(i, e) /\ job' = [job EXCEPT ![i] = "sent"]
  <2>1. /\ events' \in [Invoices -> Seq(Events)]
        /\ \A o \in outbox' : o[1] \in EventTypes => o[2] \in Invoices
    BY <1>2, <1>3, AppendEventType
  <2>2. job' \in [Invoices -> JobStates]
    BY <1>3 DEF TypeOK, JobStates
  <2> QED
    BY <2>1, <2>2
<1>4. CASE UNCHANGED <<events, outbox, job>>
  BY <1>4 DEF TypeOK
<1> QED
  BY <1>3, <1>4 DEF Deliver

\* _transition_invoice keeps the types.
LEMMA TransitionType ==
    ASSUME TypeOK, NEW i \in Invoices, NEW event,
           NEW type \in {"paid", "cancelled"}, Transition(i, event, type)
    PROVE  TypeOK'
<1> DEFINE state == current_invoice_state(i)
           e == Event(type, state, next_state(state, event), Key(type))
<1>1. state \in States
  BY CurrentStateType
<1>2. next_state(state, event) \in States
  BY NextStateType DEF Transition
<1>3. e \in Events
  BY <1>1, <1>2 DEF Event, Events, Key, Keys, OwnKeys, EventTypes
<1>4. append_invoice_event(i, e)
  BY DEF Transition
<1>5. /\ events' \in [Invoices -> Seq(Events)]
      /\ \A o \in outbox' : o[1] \in EventTypes => o[2] \in Invoices
  BY <1>3, <1>4, AppendEventType
<1> QED
  BY <1>5 DEF Transition, TypeOK

\* correct_invoice keeps the types.
LEMMA CorrectType ==
    ASSUME TypeOK, NEW o \in Invoices, NEW c \in Invoices, Correct(o, c)
    PROVE  TypeOK'
<1> DEFINE state == current_invoice_state(o)
           onO == Event("corrected", state, "corrected", LinkKey("corrected", c))
           onC == Event("correction_issued", "issued", "issued", LinkKey("corrects", o))
<1>1. state \in States
  BY CurrentStateType
<1>2. onO \in Events /\ onC \in Events
  BY <1>1 DEF Event, Events, LinkKey, Keys, OwnKeys, EventTypes, States
<1>3. events \in [Invoices -> Seq(Events)]
  BY DEF TypeOK
<1>4. o # c
  BY DEF Correct, next_state
<1>5. Appended(events[o], onO) \in Seq(Events) /\ Appended(events[c], onC) \in Seq(Events)
  BY <1>2, <1>3, AppendedType
<1>6. events' = [events EXCEPT ![o] = Appended(@, onO), ![c] = Appended(@, onC)]
  BY DEF Correct
<1>7. events' \in [Invoices -> Seq(Events)]
  BY <1>3, <1>4, <1>5, <1>6
<1>8. Published(o, onO) \cup Published(c, onC) \subseteq EventTypes \X Invoices
  BY <1>2 DEF Published, Events
<1>9. \A x \in outbox' : x[1] \in EventTypes => x[2] \in Invoices
  BY <1>8 DEF Correct, TypeOK
<1>10. corrections' \subseteq Invoices \X Invoices
  BY DEF Correct, TypeOK
<1> QED
  BY <1>7, <1>9, <1>10 DEF Correct, TypeOK

\* Every step keeps the types.
LEMMA TypeStep ==
    ASSUME TypeOK, [Next]_vars
    PROVE  TypeOK'
<1> USE StepRecords
<1>1. ASSUME NEW p \in Procs, NEW i \in Invoices, BeginPrepare(p, i) \/ BeginConfirm(p, i)
      PROVE  TypeOK'
  <2>1. \E step \in {"preparing", "confirming"} : Goto(p, At(step, i))
    BY <1>1 DEF BeginPrepare, BeginConfirm
  <2>2. PICK step \in {"preparing", "confirming"} : Goto(p, At(step, i))
    BY <2>1
  <2>3. step \in PCs /\ At(step, i).inv = i
    BY DEF PCs, At
  <2> QED
    BY <1>1, <2>2, <2>3, GotoType DEF BeginPrepare, BeginConfirm, TypeOK
<1>2. ASSUME NEW p \in Procs, CommitPrepare(p)
      PROVE  TypeOK'
  <2>1. proc[p].inv \in Invoices
    BY <1>2 DEF CommitPrepare, TypeOK
  <2>2. job' \in [Invoices -> JobStates]
    BY <1>2, <2>1 DEF CommitPrepare, TypeOK, JobStates
  <2>3. Goto(p, Idle) \/ Goto(p, At("prepared", proc[p].inv))
    BY <1>2 DEF CommitPrepare
  <2>4. "prepared" \in PCs /\ At("prepared", proc[p].inv).inv = proc[p].inv /\ Idle.pc = "idle"
    BY DEF PCs, At, Idle
  <2> QED
    BY <1>2, <2>1, <2>2, <2>3, <2>4, GotoType DEF CommitPrepare, TypeOK
<1>3. ASSUME NEW p \in Procs, MailSent(p) \/ MailFailed(p) \/ PortalReady(p)
      PROVE  TypeOK'
  <2>1. proc[p].inv \in Invoices
    BY <1>3 DEF MailSent, MailFailed, PortalReady, TypeOK
  <2>2. mails' \in [Invoices -> Nat]
    BY <1>3, <2>1 DEF MailSent, MailFailed, PortalReady, TypeOK
  <2>3. PICK step \in {"mailed", "mail_failed"} : Goto(p, At(step, proc[p].inv))
    BY <1>3 DEF MailSent, MailFailed, PortalReady
  <2>4. step \in PCs /\ At(step, proc[p].inv).inv = proc[p].inv
    BY DEF PCs, At
  <2> QED
    BY <1>3, <2>1, <2>2, <2>3, <2>4, GotoType DEF MailSent, MailFailed, PortalReady, TypeOK
<1>4. ASSUME NEW p \in Procs, BeginFail(p)
      PROVE  TypeOK'
  <2> DEFINE i == proc[p].inv
             r == [At("failing", i) EXCEPT !.seen = current_invoice_state(i)]
  <2>1. i \in Invoices
    BY <1>4 DEF BeginFail, TypeOK
  <2>2. r \in [pc : PCs, inv : Invoices \cup {NoInvoice}, seen : States] /\ r.inv \in Invoices
    BY <2>1, CurrentStateType DEF At, PCs
  <2>3. Goto(p, r) \/ Goto(p, Idle)
    BY <1>4 DEF BeginFail
  <2>4. Idle.pc = "idle"
    BY DEF Idle
  <2> HIDE DEF r
  <2> QED
    BY <1>4, <2>2, <2>3, <2>4, GotoType DEF BeginFail, TypeOK
<1>5. ASSUME NEW p \in Procs, CommitFail(p)
      PROVE  TypeOK'
  <2> DEFINE i == proc[p].inv
             e == Event("delivery_failed", proc[p].seen, proc[p].seen, Key("delivery_failed"))
  <2>1. i \in Invoices /\ proc[p].seen \in States
    BY <1>5 DEF CommitFail, TypeOK
  <2>2. e \in Events
    BY <2>1 DEF Event, Events, Key, Keys, OwnKeys, EventTypes
  <2>3. append_invoice_event(i, e)
    BY <1>5 DEF CommitFail
  <2>4. /\ events' \in [Invoices -> Seq(Events)]
        /\ \A o \in outbox' : o[1] \in EventTypes => o[2] \in Invoices
    BY <2>1, <2>2, <2>3, AppendEventType
  <2>5. job' \in [Invoices -> JobStates]
    BY <1>5, <2>1 DEF CommitFail, TypeOK, JobStates
  <2>6. Goto(p, Idle) /\ Idle.pc = "idle"
    BY <1>5 DEF CommitFail, Idle
  <2> QED
    BY <1>5, <2>4, <2>5, <2>6, GotoType DEF CommitFail, TypeOK
<1>6. ASSUME NEW p \in Procs, BeginComplete(p)
      PROVE  TypeOK'
  <2>1. proc[p].inv \in Invoices
    BY <1>6 DEF BeginComplete, TypeOK
  <2>2. "completing" \in PCs /\ At("completing", proc[p].inv).inv = proc[p].inv
    BY DEF PCs, At
  <2> QED
    BY <1>6, <2>1, <2>2, GotoType DEF BeginComplete, TypeOK
<1>7. ASSUME NEW p \in Procs, CommitComplete(p) \/ CommitConfirm(p)
      PROVE  TypeOK'
  <2>1. proc[p].inv \in Invoices
    BY <1>7 DEF CommitComplete, CommitConfirm, TypeOK
  <2>2. \E from, type : type \in EventTypes /\ Deliver(proc[p].inv, from, type)
    BY <1>7 DEF CommitComplete, CommitConfirm, EventTypes
  <2>3. /\ events' \in [Invoices -> Seq(Events)]
        /\ \A o \in outbox' : o[1] \in EventTypes => o[2] \in Invoices
        /\ job' \in [Invoices -> JobStates]
    BY <2>1, <2>2, DeliverType
  <2>4. Goto(p, Idle) /\ Idle.pc = "idle"
    BY <1>7 DEF CommitComplete, CommitConfirm, Idle
  <2> QED
    BY <1>7, <2>3, <2>4, GotoType DEF CommitComplete, CommitConfirm, TypeOK
<1>8. ASSUME NEW p \in Procs, DeadlockAbort(p) \/ Crash(p)
      PROVE  TypeOK'
  <2>1. Goto(p, Idle) /\ Idle.pc = "idle"
    BY <1>8 DEF DeadlockAbort, Crash, Idle
  <2> QED
    BY <1>8, <2>1, GotoType DEF DeadlockAbort, Crash, TypeOK
<1>9. ASSUME NEW i \in Invoices, RecordPayment(i) \/ Cancel(i)
      PROVE  TypeOK'
  BY <1>9, TransitionType DEF RecordPayment, Cancel
<1>10. ASSUME NEW o \in Invoices, NEW c \in Invoices, Correct(o, c)
       PROVE  TypeOK'
  BY <1>10, CorrectType
<1>11. ASSUME NEW h \in registered, DropRegistration(h)
       PROVE  TypeOK'
  BY <1>11 DEF DropRegistration, TypeOK
<1>12. CASE UNCHANGED vars
  BY <1>12 DEF vars, TypeOK
<1> QED
  BY <1>1, <1>2, <1>3, <1>4, <1>5, <1>6, <1>7, <1>8, <1>9, <1>10, <1>11, <1>12 DEF Next, Continue

\* The types hold before the first step.
LEMMA TypeInit == Init => TypeOK
BY StepRecords DEF Init, TypeOK, JobStates, Idle

\* Every table row and every request stays within its declared type.
THEOREM TypeCorrect == Spec => []TypeOK
BY TypeInit, TypeStep, PTL DEF Spec

-----------------------------------------------------------------------------
(* At most one e-mail.  AtMostOneMail is not inductive: whether a sending   *)
(* request may count up depends on nobody having sent before it, which      *)
(* ReservationHeld records.                                                 *)

\* The inductive invariant behind AtMostOneMail.
MailInv == AtMostOneMail /\ ReservationHeld

\* Steps that neither touch the jobs' existence, the mails, nor bring a
\* request to "prepared".
LEMMA MailFrame ==
    ASSUME TypeOK, MailInv, mails' = mails,
           \A i \in Invoices : job[i] # "none" => job'[i] # "none",
           \A p \in Procs : proc'[p].pc = "prepared" => proc'[p] = proc[p]
    PROVE  MailInv'
<1>1. AtMostOneMail'
  BY DEF MailInv, AtMostOneMail
<1>2. \A i \in Invoices : mails'[i] > 0 => job'[i] # "none"
  BY DEF MailInv, ReservationHeld
<1>3. \A p \in Procs : proc'[p].pc = "prepared" =>
          job'[proc'[p].inv] # "none" /\ mails'[proc'[p].inv] = 0
  BY DEF MailInv, ReservationHeld, TypeOK
<1>4. \A p, q \in Procs :
          proc'[p].pc = "prepared" /\ proc'[q].pc = "prepared" /\ proc'[p].inv = proc'[q].inv
              => p = q
  BY DEF MailInv, ReservationHeld
<1> QED
  BY <1>1, <1>2, <1>3, <1>4 DEF MailInv, ReservationHeld

\* Every step keeps MailInv.
LEMMA MailStep ==
    ASSUME TypeOK, MailInv, [Next]_vars
    PROVE  MailInv'
<1>0. proc \in [Procs -> [pc : PCs, inv : Invoices \cup {NoInvoice}, seen : States]]
  BY DEF TypeOK
<1>1. ASSUME NEW p \in Procs, NEW i \in Invoices, BeginPrepare(p, i) \/ BeginConfirm(p, i)
      PROVE  MailInv'
  BY <1>0, <1>1, MailFrame DEF BeginPrepare, BeginConfirm, Goto, At
<1>2. ASSUME NEW p \in Procs, CommitPrepare(p)
      PROVE  MailInv'
  <2> DEFINE i == proc[p].inv
  <2>1. i \in Invoices
    BY <1>2 DEF CommitPrepare, TypeOK
  <2>2. CASE job' = job /\ Goto(p, Idle)
    BY <1>0, <1>2, <2>2, MailFrame DEF CommitPrepare, Goto, Idle
  <2>3. CASE /\ job[i] = "none"
             /\ job' = [job EXCEPT ![i] = "pending"]
             /\ Goto(p, At("prepared", i))
    <3>1. /\ mails' = mails
          /\ \A q \in Procs : proc'[q] = IF q = p THEN At("prepared", i) ELSE proc[q]
          /\ \A j \in Invoices : job'[j] = IF j = i THEN "pending" ELSE job[j]
      BY <1>0, <1>2, <2>3 DEF CommitPrepare, Goto, TypeOK
    <3>2. mails[i] = 0
      BY <2>1, <2>3 DEF MailInv, ReservationHeld, TypeOK
    <3>3. \A q \in Procs : proc[q].pc = "prepared" => proc[q].inv \in Invoices /\ proc[q].inv # i
      BY <2>3 DEF MailInv, ReservationHeld, TypeOK
    <3>4. AtMostOneMail'
      BY <3>1 DEF MailInv, AtMostOneMail
    <3>5. \A j \in Invoices : mails'[j] > 0 => job'[j] # "none"
      BY <3>1 DEF MailInv, ReservationHeld
    <3>6. \A q \in Procs : proc'[q].pc = "prepared" =>
              job'[proc'[q].inv] # "none" /\ mails'[proc'[q].inv] = 0
      <4> TAKE q \in Procs
      <4>1. CASE q = p
        BY <2>1, <3>1, <3>2, <4>1 DEF At
      <4>2. CASE q # p
        BY <3>1, <3>3, <4>2 DEF MailInv, ReservationHeld
      <4> QED
        BY <4>1, <4>2
    <3>7. \A q, r \in Procs :
              proc'[q].pc = "prepared" /\ proc'[r].pc = "prepared" /\ proc'[q].inv = proc'[r].inv
                  => q = r
      BY <3>1, <3>3 DEF MailInv, ReservationHeld, At
    <3> QED
      BY <3>4, <3>5, <3>6, <3>7 DEF MailInv, ReservationHeld
  <2> QED
    BY <1>2, <2>2, <2>3 DEF CommitPrepare
<1>3. ASSUME NEW p \in Procs, MailSent(p) \/ MailFailed(p)
      PROVE  MailInv'
  <2> DEFINE i == proc[p].inv
  <2>1. i \in Invoices /\ proc[p].pc = "prepared"
    BY <1>3 DEF MailSent, MailFailed, TypeOK
  <2>2. job[i] # "none" /\ mails[i] = 0
    BY <2>1 DEF MailInv, ReservationHeld
  <2>3. PICK n \in {0, 1} : mails' = [mails EXCEPT ![i] = n]
    BY <1>3, <2>1, <2>2 DEF MailSent, MailFailed, TypeOK
  <2>4. \A q \in Procs : proc'[q].pc = "prepared" =>
            /\ proc'[q] = proc[q]
            /\ proc[q].inv \in Invoices
            /\ proc[q].inv # i
    BY <1>0, <1>3, <2>1 DEF MailSent, MailFailed, Goto, At, MailInv, ReservationHeld, TypeOK
  <2>5. job' = job /\ \A j \in Invoices : mails'[j] = IF j = i THEN n ELSE mails[j]
    BY <1>3, <2>3 DEF MailSent, MailFailed, TypeOK
  <2>6. AtMostOneMail' /\ \A j \in Invoices : mails'[j] > 0 => job'[j] # "none"
    BY <2>2, <2>5 DEF MailInv, AtMostOneMail, ReservationHeld
  <2>7. \A q \in Procs : proc'[q].pc = "prepared" =>
            job'[proc'[q].inv] # "none" /\ mails'[proc'[q].inv] = 0
    BY <2>4, <2>5 DEF MailInv, ReservationHeld
  <2>8. \A q, r \in Procs :
            proc'[q].pc = "prepared" /\ proc'[r].pc = "prepared" /\ proc'[q].inv = proc'[r].inv
                => q = r
    BY <2>4 DEF MailInv, ReservationHeld
  <2> QED
    BY <2>6, <2>7, <2>8 DEF MailInv, ReservationHeld
<1>4. ASSUME NEW p \in Procs, PortalReady(p) \/ BeginFail(p) \/ BeginComplete(p)
      PROVE  MailInv'
  BY <1>0, <1>4, MailFrame DEF PortalReady, BeginFail, BeginComplete, Goto, At, Idle
<1>5. ASSUME NEW p \in Procs, CommitFail(p)
      PROVE  MailInv'
  <2>1. \A j \in Invoices : job[j] # "none" => job'[j] # "none"
    BY <1>5 DEF CommitFail, TypeOK
  <2> QED
    BY <1>0, <1>5, <2>1, MailFrame DEF CommitFail, Goto, Idle
<1>6. ASSUME NEW p \in Procs, CommitComplete(p) \/ CommitConfirm(p)
      PROVE  MailInv'
  <2>1. \E from, type : Deliver(proc[p].inv, from, type)
    BY <1>6 DEF CommitComplete, CommitConfirm
  <2>2. job' = job \/ job' = [job EXCEPT ![proc[p].inv] = "sent"]
    BY <2>1 DEF Deliver
  <2>3. \A j \in Invoices : job[j] # "none" => job'[j] # "none"
    BY <2>2 DEF TypeOK
  <2> QED
    BY <1>0, <1>6, <2>3, MailFrame DEF CommitComplete, CommitConfirm, Goto, Idle
<1>7. ASSUME NEW p \in Procs, DeadlockAbort(p) \/ Crash(p)
      PROVE  MailInv'
  BY <1>0, <1>7, MailFrame DEF DeadlockAbort, Crash, Goto, Idle
<1>8. ASSUME NEW i \in Invoices, RecordPayment(i) \/ Cancel(i)
      PROVE  MailInv'
  BY <1>8, MailFrame DEF RecordPayment, Cancel, Transition
<1>9. ASSUME NEW o \in Invoices, NEW c \in Invoices, Correct(o, c)
      PROVE  MailInv'
  BY <1>9, MailFrame DEF Correct
<1>10. ASSUME NEW h \in registered, DropRegistration(h)
       PROVE  MailInv'
  BY <1>10, MailFrame DEF DropRegistration
<1>11. CASE UNCHANGED vars
  BY <1>11, MailFrame DEF vars
<1> QED
  BY <1>1, <1>2, <1>3, <1>4, <1>5, <1>6, <1>7, <1>8, <1>9, <1>10, <1>11 DEF Next, Continue

\* MailInv holds before the first mail.
LEMMA MailInit == Init => MailInv
BY DEF Init, MailInv, AtMostOneMail, ReservationHeld, Idle

\* However requests are retried, interleaved, crashed or aborted, at most one
\* e-mail leaves for an invoice (prepare_invoice_delivery reserves for good).
THEOREM AtMostOneMailHolds == Spec => []AtMostOneMail
<1>1. Spec => [](TypeOK /\ MailInv)
  BY TypeInit, TypeStep, MailInit, MailStep, PTL DEF Spec
<1>2. MailInv => AtMostOneMail
  BY DEF MailInv
<1> QED
  BY <1>1, <1>2, PTL

\* A reservation is on record before, while and after its mail is sent.
THEOREM ReservationHeldHolds == Spec => []ReservationHeld
<1>1. Spec => [](TypeOK /\ MailInv)
  BY TypeInit, TypeStep, MailInit, MailStep, PTL DEF Spec
<1>2. MailInv => ReservationHeld
  BY DEF MailInv
<1> QED
  BY <1>1, <1>2, PTL

-----------------------------------------------------------------------------
(* The job row and the audit trail agree.  The strengthening is FailOwnsJob: *)
(* a fail that commits must find the row it made "failed" still pending, or  *)
(* it would undo a delivery recorded in between.                             *)

\* The inductive invariant behind SentJobIsAudited.
AuditInv == SentJobIsAudited /\ FailOwnsJob

\* The delivery of the invoice has its event.
Delivered(i) == HasKey(events[i], Key("delivered"))

\* Appending an event with another key leaves the delivery mark alone.
LEMMA OtherKey ==
    ASSUME TypeOK, NEW i \in Invoices, NEW e,
           append_invoice_event(i, e), e.key # Key("delivered")
    PROVE  \A j \in Invoices : Delivered(j)' <=> Delivered(j)
<1>1. events \in [Invoices -> Seq(Events)] /\ events[i] \in Seq(Events)
  BY DEF TypeOK
<1>2. \A j \in Invoices : events'[j] = IF j = i THEN Appended(events[i], e) ELSE events[j]
  BY <1>1 DEF append_invoice_event
<1>3. HasKey(Appended(events[i], e), Key("delivered")) <=> HasKey(events[i], Key("delivered"))
  BY <1>1, AppendedKeys
<1> QED
  BY <1>2, <1>3 DEF Delivered

\* Steps that change no delivery mark and start no fail, and change a job
\* only where no fail is in progress and never to or from "sent".
LEMMA AuditFrame ==
    ASSUME TypeOK, AuditInv,
           \A i \in Invoices : Delivered(i)' <=> Delivered(i),
           \A i \in Invoices : job'[i] = "sent" <=> job[i] = "sent",
           \A p \in Procs : proc'[p].pc = "failing" =>
               proc'[p] = proc[p] /\ job'[proc[p].inv] = job[proc[p].inv]
    PROVE  AuditInv'
<1>1. SentJobIsAudited'
  BY DEF AuditInv, SentJobIsAudited, Delivered
<1>2. FailOwnsJob'
  BY DEF AuditInv, FailOwnsJob
<1> QED
  BY <1>1, <1>2 DEF AuditInv

\* Every step keeps AuditInv.
LEMMA AuditStep ==
    ASSUME TypeOK, AuditInv, [Next]_vars
    PROVE  AuditInv'
<1>0. /\ proc \in [Procs -> [pc : PCs, inv : Invoices \cup {NoInvoice}, seen : States]]
      /\ job \in [Invoices -> JobStates]
      /\ \A p \in Procs : proc[p].pc = "failing" => proc[p].inv \in Invoices
  BY DEF TypeOK
<1>1. ASSUME NEW p \in Procs, NEW i \in Invoices, BeginPrepare(p, i) \/ BeginConfirm(p, i)
      PROVE  AuditInv'
  BY <1>0, <1>1, AuditFrame DEF BeginPrepare, BeginConfirm, Goto, At, Delivered
<1>2. ASSUME NEW p \in Procs, CommitPrepare(p)
      PROVE  AuditInv'
  <2>1. proc[p].inv \in Invoices
    BY <1>2 DEF CommitPrepare, TypeOK
  <2>2. \A q \in Procs : proc[q].pc = "failing" => proc[q].inv # proc[p].inv
    BY <1>2 DEF CommitPrepare, JobLocked
  <2>3. \A i \in Invoices : job'[i] = job[i] \/ (i = proc[p].inv /\ job[i] = "none" /\ job'[i] = "pending")
    BY <1>0, <1>2, <2>1 DEF CommitPrepare
  <2>4. \A q \in Procs : proc'[q].pc = "failing" => proc'[q] = proc[q]
    BY <1>0, <1>2 DEF CommitPrepare, Goto, At, Idle
  <2> QED
    BY <1>0, <1>2, <2>2, <2>3, <2>4, AuditFrame DEF CommitPrepare, Delivered
<1>3. ASSUME NEW p \in Procs,
             MailSent(p) \/ MailFailed(p) \/ PortalReady(p) \/ BeginComplete(p)
      PROVE  AuditInv'
  BY <1>0, <1>3, AuditFrame
  DEF MailSent, MailFailed, PortalReady, BeginComplete, Goto, At, Idle, Delivered
<1>4. ASSUME NEW p \in Procs, BeginFail(p)
      PROVE  AuditInv'
  <2>1. SentJobIsAudited'
    BY <1>4 DEF AuditInv, SentJobIsAudited, BeginFail
  <2>2. job' = job
    BY <1>4 DEF BeginFail
  <2>3. \A q \in Procs : proc[q].pc = "failing" => proc[q].inv # proc[p].inv
    BY <1>4 DEF BeginFail, JobLocked
  <2>4. CASE job[proc[p].inv] = "pending"
    <3>1. \A q \in Procs : q # p => proc'[q] = proc[q]
      BY <1>0, <1>4, <2>4 DEF BeginFail, Goto
    <3>2. proc'[p].inv = proc[p].inv
      BY <1>0, <1>4, <2>4 DEF BeginFail, Goto, At
    <3>3. \A q \in Procs : proc'[q].pc = "failing" => job'[proc'[q].inv] = "pending"
      BY <2>2, <2>4, <3>1, <3>2 DEF AuditInv, FailOwnsJob
    <3>4. \A q, r \in Procs :
              proc'[q].pc = "failing" /\ proc'[r].pc = "failing" /\ proc'[q].inv = proc'[r].inv
                  => q = r
      BY <2>3, <3>1, <3>2 DEF AuditInv, FailOwnsJob
    <3> QED
      BY <2>1, <3>3, <3>4 DEF AuditInv, FailOwnsJob
  <2>5. CASE job[proc[p].inv] # "pending"
    BY <1>0, <1>4, <2>2, <2>5, AuditFrame DEF BeginFail, Goto, Idle, Delivered
  <2> QED
    BY <2>4, <2>5
<1>5. ASSUME NEW p \in Procs, CommitFail(p)
      PROVE  AuditInv'
  <2> DEFINE i == proc[p].inv
  <2>1. i \in Invoices /\ job[i] = "pending"
    BY <1>0, <1>5 DEF CommitFail, AuditInv, FailOwnsJob
  <2>2. \A j \in Invoices : job'[j] = IF j = i THEN "failed" ELSE job[j]
    BY <1>0, <1>5, <2>1 DEF CommitFail
  <2>3. \A j \in Invoices : Delivered(j)' <=> Delivered(j)
    <3> DEFINE e == Event("delivery_failed", proc[p].seen, proc[p].seen, Key("delivery_failed"))
    <3>1. e.key # Key("delivered")
      BY DEF Event, Key
    <3>2. append_invoice_event(i, e)
      BY <1>5 DEF CommitFail
    <3> HIDE DEF e
    <3> QED
      BY <2>1, <3>1, <3>2, OtherKey
  <2>4. \A q \in Procs : proc'[q].pc = "failing" => q # p /\ proc'[q] = proc[q]
    BY <1>0, <1>5 DEF CommitFail, Goto, Idle
  <2>5. \A q \in Procs : q # p /\ proc[q].pc = "failing" => proc[q].inv # i
    BY <1>5 DEF CommitFail, AuditInv, FailOwnsJob
  <2> QED
    BY <1>0, <2>1, <2>2, <2>3, <2>4, <2>5, AuditFrame
<1>6. ASSUME NEW p \in Procs, CommitComplete(p) \/ CommitConfirm(p)
      PROVE  AuditInv'
  <2> DEFINE i == proc[p].inv
  <2>1. i \in Invoices
    BY <1>6 DEF CommitComplete, CommitConfirm, TypeOK
  <2>2. \A q \in Procs : proc[q].pc = "failing" => proc[q].inv # i
    BY <1>6 DEF CommitComplete, CommitConfirm, JobLocked
  <2>3. \A q \in Procs : proc'[q].pc = "failing" => proc'[q] = proc[q]
    BY <1>0, <1>6 DEF CommitComplete, CommitConfirm, Goto, Idle
  <2>4. PICK from, type : Deliver(i, from, type)
    BY <1>6 DEF CommitComplete, CommitConfirm
  <2> DEFINE e == Event(type, current_invoice_state(i), "delivered", Key("delivered"))
  <2>5. CASE append_invoice_event(i, e) /\ job' = [job EXCEPT ![i] = "sent"]
    <3>1. \A j \in Invoices : job'[j] = IF j = i THEN "sent" ELSE job[j]
      BY <1>0, <2>5
    <3>2. events \in [Invoices -> Seq(Events)] /\ events[i] \in Seq(Events)
      BY <2>1 DEF TypeOK
    <3>3. e.key = Key("delivered")
      BY DEF Event
    <3>4. HasKey(Appended(events[i], e), Key("delivered"))
      BY <3>2, <3>3, AppendedKeys
    <3>5. \A j \in Invoices : events'[j] = IF j = i THEN Appended(events[i], e) ELSE events[j]
      BY <2>5, <3>2 DEF append_invoice_event
    <3> HIDE DEF e
    <3>6. SentJobIsAudited'
      BY <3>1, <3>4, <3>5 DEF AuditInv, SentJobIsAudited
    <3>7. FailOwnsJob'
      BY <1>0, <2>2, <2>3, <3>1 DEF AuditInv, FailOwnsJob
    <3> QED
      BY <3>6, <3>7 DEF AuditInv
  <2>6. CASE UNCHANGED <<events, outbox, job>>
    BY <2>3, <2>6, AuditFrame DEF Delivered
  <2> QED
    BY <2>4, <2>5, <2>6 DEF Deliver
<1>7. ASSUME NEW p \in Procs, DeadlockAbort(p) \/ Crash(p)
      PROVE  AuditInv'
  BY <1>0, <1>7, AuditFrame DEF DeadlockAbort, Crash, Goto, Idle, Delivered
<1>8. ASSUME NEW i \in Invoices, RecordPayment(i) \/ Cancel(i)
      PROVE  AuditInv'
  <2>1. PICK event \in {"pay", "cancel"}, type \in {"paid", "cancelled"} :
           Transition(i, event, type)
    BY <1>8 DEF RecordPayment, Cancel
  <2> DEFINE e == Event(type, current_invoice_state(i),
                        next_state(current_invoice_state(i), event), Key(type))
  <2>2. append_invoice_event(i, e) /\ job' = job /\ proc' = proc
    BY <2>1 DEF Transition
  <2>3. e.key # Key("delivered")
    BY DEF Event, Key
  <2> HIDE DEF e
  <2>4. \A j \in Invoices : Delivered(j)' <=> Delivered(j)
    BY <2>2, <2>3, OtherKey
  <2> QED
    BY <2>2, <2>4, AuditFrame
<1>9. ASSUME NEW o \in Invoices, NEW c \in Invoices, Correct(o, c)
      PROVE  AuditInv'
  <2> DEFINE onO == Event("corrected", current_invoice_state(o), "corrected",
                          LinkKey("corrected", c))
             onC == Event("correction_issued", "issued", "issued", LinkKey("corrects", o))
  <2>1. /\ events' = [events EXCEPT ![o] = Appended(@, onO), ![c] = Appended(@, onC)]
        /\ job' = job /\ proc' = proc
    BY <1>9 DEF Correct
  <2>2. onO.key # Key("delivered") /\ onC.key # Key("delivered")
    BY DEF Event, Key, LinkKey
  <2>3. o # c
    BY <1>9 DEF Correct, next_state
  <2>4. events \in [Invoices -> Seq(Events)]
    BY DEF TypeOK
  <2> HIDE DEF onO, onC
  <2>5. /\ HasKey(Appended(events[o], onO), Key("delivered")) <=> Delivered(o)
        /\ HasKey(Appended(events[c], onC), Key("delivered")) <=> Delivered(c)
    BY <2>2, <2>4, AppendedKeys DEF Delivered
  <2>6. \A j \in Invoices : Delivered(j)' <=> Delivered(j)
    BY <2>1, <2>3, <2>4, <2>5 DEF Delivered
  <2> QED
    BY <2>1, <2>6, AuditFrame
<1>10. ASSUME NEW h \in registered, DropRegistration(h)
       PROVE  AuditInv'
  BY <1>10, AuditFrame DEF DropRegistration, Delivered
<1>11. CASE UNCHANGED vars
  BY <1>11, AuditFrame DEF vars, Delivered
<1> QED
  BY <1>1, <1>2, <1>3, <1>4, <1>5, <1>6, <1>7, <1>8, <1>9, <1>10, <1>11 DEF Next, Continue

\* AuditInv holds before the first job.
LEMMA AuditInit == Init => AuditInv
BY DEF Init, AuditInv, SentJobIsAudited, FailOwnsJob, HasKey, Idle

\* An invoice's delivery job is "sent" exactly when its audit trail records
\* the delivery, although complete, confirm and fail lock rows in two orders.
THEOREM SentJobIsAuditedHolds == Spec => []SentJobIsAudited
<1>1. Spec => [](TypeOK /\ AuditInv)
  BY TypeInit, TypeStep, AuditInit, AuditStep, PTL DEF Spec
<1>2. AuditInv => SentJobIsAudited
  BY DEF AuditInv
<1> QED
  BY <1>1, <1>2, PTL

\* No other request resolves a delivery attempt whose failure is being booked.
THEOREM FailOwnsJobHolds == Spec => []FailOwnsJob
<1>1. Spec => [](TypeOK /\ AuditInv)
  BY TypeInit, TypeStep, AuditInit, AuditStep, PTL DEF Spec
<1>2. AuditInv => FailOwnsJob
  BY DEF AuditInv
<1> QED
  BY <1>1, <1>2, PTL

-----------------------------------------------------------------------------
(* Payments.  A fail writes back a state it read without the invoice lock;  *)
(* it may undo a cancellation, but it can neither undo nor repeat a         *)
(* payment, because it runs only while nothing was ever delivered.          *)

\* In one trail: delivered or paid only after a delivery, and paid is the end.
TrailOK(log) ==
    \A k \in DOMAIN log :
        /\ log[k].new \in {"delivered", "paid"} => \E j \in 1 .. k : log[j].key = Key("delivered")
        /\ log[k].new = "paid" => k = Len(log)
        /\ log[k].type = "paid" => log[k].new = "paid" /\ log[k].key # Key("delivered")

\* Whoever is failing an invoice read it neither delivered nor paid.
FailsReadNoDelivery ==
    \A p \in Procs : proc[p].pc = "failing" => proc[p].seen \notin {"delivered", "paid"}

\* The inductive invariant behind PaidOnceAfterDelivery.
PaidInv == (\A i \in Invoices : TrailOK(events[i])) /\ FailsReadNoDelivery

\* Where nothing was delivered no event says delivered or paid, so neither does
\* the current state.
LEMMA Undelivered ==
    ASSUME TypeOK, NEW i \in Invoices, TrailOK(events[i]), ~HasKey(events[i], Key("delivered"))
    PROVE  current_invoice_state(i) \notin {"delivered", "paid"}
<1>1. events[i] \in Seq(Events)
  BY DEF TypeOK
<1>2. DOMAIN events[i] = 1 .. Len(events[i]) /\ Len(events[i]) \in Nat
  BY <1>1, LenProperties
<1>3. \A k \in DOMAIN events[i] : events[i][k].new \notin {"delivered", "paid"}
  BY <1>2 DEF TrailOK, HasKey
<1>4. CASE events[i] = <<>>
  BY <1>4 DEF current_invoice_state
<1>5. CASE events[i] # <<>>
  <2>1. Len(events[i]) \in DOMAIN events[i]
    BY <1>1, <1>2, <1>5, EmptySeq
  <2> QED
    BY <1>3, <1>5, <2>1 DEF current_invoice_state
<1> QED
  BY <1>4, <1>5

\* The state is what the last event says, and a paid invoice's last one says paid.
LEMMA LastEvent ==
    ASSUME TypeOK, NEW i \in Invoices, events[i] # <<>>
    PROVE  /\ Len(events[i]) \in DOMAIN events[i] /\ DOMAIN events[i] = 1 .. Len(events[i])
           /\ events[i][Len(events[i])].new = current_invoice_state(i)
<1>1. events[i] \in Seq(Events)
  BY DEF TypeOK
<1>2. DOMAIN events[i] = 1 .. Len(events[i]) /\ Len(events[i]) \in Nat \ {0}
  BY <1>1, LenProperties, EmptySeq
<1> QED
  BY <1>2 DEF current_invoice_state

\* What may be appended to a trail that does not end in a payment.
LEMMA AppendedTrail ==
    ASSUME NEW log \in Seq(Events), NEW e, TrailOK(log),
           log # <<>> => log[Len(log)].new # "paid",
           e.new \in {"delivered", "paid"} => e.key = Key("delivered") \/ HasKey(log, Key("delivered")),
           e.type = "paid" => e.new = "paid" /\ e.key # Key("delivered")
    PROVE  TrailOK(Appended(log, e))
<1>1. CASE HasKey(log, e.key)
  BY <1>1 DEF Appended
<1>2. CASE ~HasKey(log, e.key)
  <2>1. PICK new : new = Append(log, e)
    OBVIOUS
  <2>2. Appended(log, e) = new
    BY <1>2, <2>1 DEF Appended
  <2>3. /\ DOMAIN new = 1 .. Len(log) + 1 /\ Len(new) = Len(log) + 1
        /\ DOMAIN log = 1 .. Len(log) /\ Len(log) \in Nat
        /\ \A n \in 1 .. Len(log) : new[n] = log[n]
        /\ new[Len(log) + 1] = e
    BY <2>1
  <2>4. ASSUME NEW k \in DOMAIN log
        PROVE  log[k].new # "paid"
    <3>1. CASE log[k].new = "paid"
      <4>1. k = Len(log) /\ log # <<>>
        BY <2>3, <3>1 DEF TrailOK
      <4> QED
        BY <3>1, <4>1
    <3> QED
      BY <3>1
  <2>5. ASSUME NEW k \in DOMAIN new
        PROVE  /\ new[k].new \in {"delivered", "paid"} => \E j \in 1 .. k : new[j].key = Key("delivered")
               /\ new[k].new = "paid" => k = Len(new)
               /\ new[k].type = "paid" => new[k].new = "paid" /\ new[k].key # Key("delivered")
    <3>1. CASE k \in DOMAIN log
      <4>1. new[k] = log[k]
        BY <2>3, <3>1
      <4>2. ASSUME log[k].new \in {"delivered", "paid"}
            PROVE  \E j \in 1 .. k : new[j].key = Key("delivered")
        <5>1. PICK j \in 1 .. k : log[j].key = Key("delivered")
          BY <3>1, <4>2 DEF TrailOK
        <5>2. new[j] = log[j]
          BY <2>3, <3>1
        <5> QED
          BY <5>1, <5>2
      <4> QED
        BY <2>4, <3>1, <4>1, <4>2 DEF TrailOK
    <3>2. CASE k = Len(log) + 1
      <4>1. new[k] = e
        BY <2>3, <3>2
      <4>2. ASSUME e.new \in {"delivered", "paid"}
            PROVE  \E j \in 1 .. k : new[j].key = Key("delivered")
        <5>1. CASE e.key = Key("delivered")
          BY <2>3, <3>2, <4>1, <5>1
        <5>2. CASE HasKey(log, Key("delivered"))
          <6>1. PICK j \in 1 .. Len(log) : log[j].key = Key("delivered")
            BY <2>3, <5>2 DEF HasKey
          <6>2. new[j] = log[j] /\ j \in 1 .. k
            BY <2>3, <3>2
          <6> QED
            BY <6>1, <6>2
        <5> QED
          BY <4>2, <5>1, <5>2
      <4> QED
        BY <2>3, <3>2, <4>1, <4>2
    <3> QED
      BY <2>3, <3>1, <3>2
  <2> QED
    BY <2>2, <2>5 DEF TrailOK
<1> QED
  BY <1>1, <1>2

\* Steps that append nothing and start no fail.
LEMMA PaidFrame ==
    ASSUME PaidInv, events' = events,
           \A p \in Procs : proc'[p].pc = "failing" => proc'[p] = proc[p]
    PROVE  PaidInv'
BY DEF PaidInv, FailsReadNoDelivery

\* Steps that append one event to one trail and start no fail.
LEMMA PaidAppend ==
    ASSUME TypeOK, PaidInv, NEW i \in Invoices, NEW e, append_invoice_event(i, e),
           TrailOK(Appended(events[i], e)),
           \A p \in Procs : proc'[p].pc = "failing" => proc'[p] = proc[p]
    PROVE  PaidInv'
<1>1. events \in [Invoices -> Seq(Events)]
  BY DEF TypeOK
<1>2. \A j \in Invoices : events'[j] = IF j = i THEN Appended(events[i], e) ELSE events[j]
  BY <1>1 DEF append_invoice_event
<1>3. \A j \in Invoices : TrailOK(events'[j])
  BY <1>2 DEF PaidInv
<1> QED
  BY <1>3 DEF PaidInv, FailsReadNoDelivery

\* A payment needs the delivered state; a cancellation says neither.
LEMMA PaidTransition ==
    ASSUME TypeOK, PaidInv, NEW i \in Invoices, RecordPayment(i) \/ Cancel(i)
    PROVE  PaidInv'
<1> DEFINE state == current_invoice_state(i)
<1>1. events[i] \in Seq(Events) /\ TrailOK(events[i])
  BY DEF TypeOK, PaidInv
<1>2. CASE RecordPayment(i)
  <2> DEFINE e == Event("paid", state, next_state(state, "pay"), Key("paid"))
  <2>1. append_invoice_event(i, e) /\ proc' = proc
    BY <1>2 DEF RecordPayment, Transition
  <2>2. state = "delivered" /\ e.new = "paid" /\ e.type = "paid" /\ e.key # Key("delivered")
    BY <1>2 DEF RecordPayment, Transition, next_state, Event, Key
  <2>3. events[i] # <<>>
    BY <2>2 DEF current_invoice_state
  <2>4. events[i][Len(events[i])].new = "delivered" /\ Len(events[i]) \in DOMAIN events[i]
        /\ DOMAIN events[i] = 1 .. Len(events[i])
    BY <2>2, <2>3, LastEvent
  <2>5. HasKey(events[i], Key("delivered"))
    <3>1. \E j \in 1 .. Len(events[i]) : events[i][j].key = Key("delivered")
      BY <1>1, <2>4 DEF TrailOK
    <3> QED
      BY <2>4, <3>1 DEF HasKey
  <2>6. events[i][Len(events[i])].new # "paid"
    BY <2>4
  <2> HIDE DEF e
  <2>7. TrailOK(Appended(events[i], e))
    BY <1>1, <2>2, <2>5, <2>6, AppendedTrail
  <2> QED
    BY <2>1, <2>7, PaidAppend
<1>3. CASE Cancel(i)
  <2> DEFINE e == Event("cancelled", state, next_state(state, "cancel"), Key("cancelled"))
  <2>1. append_invoice_event(i, e) /\ proc' = proc
    BY <1>3 DEF Cancel, Transition
  <2>2. state \in {"issued", "delivered"} /\ e.new = "cancelled" /\ e.type = "cancelled"
    BY <1>3 DEF Cancel, Transition, next_state, Event
  <2>3. events[i] # <<>> => events[i][Len(events[i])].new # "paid"
    BY <2>2, LastEvent
  <2> HIDE DEF e
  <2>4. TrailOK(Appended(events[i], e))
    BY <1>1, <2>2, <2>3, AppendedTrail
  <2> QED
    BY <2>1, <2>4, PaidAppend
<1> QED
  BY <1>2, <1>3

\* A correction starts from a cancelled and from an issued invoice.
LEMMA PaidCorrect ==
    ASSUME TypeOK, PaidInv, NEW o \in Invoices, NEW c \in Invoices, Correct(o, c)
    PROVE  PaidInv'
<1> DEFINE onO == Event("corrected", current_invoice_state(o), "corrected", LinkKey("corrected", c))
           onC == Event("correction_issued", "issued", "issued", LinkKey("corrects", o))
<1>1. events \in [Invoices -> Seq(Events)] /\ TrailOK(events[o]) /\ TrailOK(events[c])
  BY DEF TypeOK, PaidInv
<1>2. /\ events' = [events EXCEPT ![o] = Appended(@, onO), ![c] = Appended(@, onC)]
      /\ proc' = proc
  BY DEF Correct
<1>3. o # c /\ current_invoice_state(o) = "cancelled" /\ current_invoice_state(c) = "issued"
  BY DEF Correct, next_state
<1>4. onO.new = "corrected" /\ onO.type = "corrected" /\ onC.new = "issued" /\ onC.type = "correction_issued"
  BY DEF Event
<1>5. /\ events[o] # <<>> => events[o][Len(events[o])].new # "paid"
      /\ events[c] # <<>> => events[c][Len(events[c])].new # "paid"
  BY <1>3, LastEvent
<1> HIDE DEF onO, onC
<1>6. TrailOK(Appended(events[o], onO)) /\ TrailOK(Appended(events[c], onC))
  BY <1>1, <1>4, <1>5, AppendedTrail
<1>7. \A j \in Invoices : events'[j] = IF j = c THEN Appended(events[c], onC)
                                     ELSE IF j = o THEN Appended(events[o], onO) ELSE events[j]
  BY <1>1, <1>2, <1>3
<1>8. \A j \in Invoices : TrailOK(events'[j])
  BY <1>6, <1>7 DEF PaidInv
<1> QED
  BY <1>2, <1>8 DEF PaidInv, FailsReadNoDelivery

\* Complete and confirm deliver what is issued, under the key of deliveries.
LEMMA PaidDelivery ==
    ASSUME TypeOK, PaidInv, NEW p \in Procs, CommitComplete(p) \/ CommitConfirm(p)
    PROVE  PaidInv'
<1> DEFINE i == proc[p].inv
<1>1. i \in Invoices /\ proc \in [Procs -> [pc : PCs, inv : Invoices \cup {NoInvoice}, seen : States]]
  BY DEF CommitComplete, CommitConfirm, TypeOK
<1>2. \A q \in Procs : proc'[q].pc = "failing" => proc'[q] = proc[q]
  BY <1>1 DEF CommitComplete, CommitConfirm, Goto, Idle
<1>3. PICK from \in {{"pending"}, {"pending", "failed"}}, type \in {"delivered", "delivery_confirmed"} :
          Deliver(i, from, type)
  BY DEF CommitComplete, CommitConfirm
<1> DEFINE e == Event(type, current_invoice_state(i), "delivered", Key("delivered"))
<1>4. CASE UNCHANGED <<events, outbox, job>>
  BY <1>2, <1>4, PaidFrame
<1>5. CASE append_invoice_event(i, e) /\ next_state(current_invoice_state(i), "deliver") # "refused"
  <2>1. current_invoice_state(i) = "issued"
    BY <1>5 DEF next_state
  <2>2. events[i] # <<>> => events[i][Len(events[i])].new # "paid"
    BY <1>1, <2>1, LastEvent
  <2>3. e.key = Key("delivered") /\ e.type # "paid" /\ e.new # "paid"
    BY DEF Event
  <2>4. events[i] \in Seq(Events) /\ TrailOK(events[i])
    BY <1>1 DEF TypeOK, PaidInv
  <2> HIDE DEF e
  <2>5. TrailOK(Appended(events[i], e))
    BY <2>2, <2>3, <2>4, AppendedTrail
  <2> QED
    BY <1>1, <1>2, <1>5, <2>5, PaidAppend
<1> QED
  BY <1>3, <1>4, <1>5 DEF Deliver

\* A fail finds its job pending: nothing was delivered, and nothing is paid.
LEMMA PaidFail ==
    ASSUME TypeOK, AuditInv, PaidInv, NEW p \in Procs, BeginFail(p) \/ CommitFail(p)
    PROVE  PaidInv'
<1> DEFINE i == proc[p].inv
<1>1. i \in Invoices /\ proc \in [Procs -> [pc : PCs, inv : Invoices \cup {NoInvoice}, seen : States]]
  BY DEF BeginFail, CommitFail, TypeOK
<1>2. job[i] = "pending" => current_invoice_state(i) \notin {"delivered", "paid"}
  <2>1. job[i] = "pending" => ~HasKey(events[i], Key("delivered"))
    BY <1>1 DEF AuditInv, SentJobIsAudited
  <2>2. TrailOK(events[i])
    BY <1>1 DEF PaidInv
  <2> QED
    BY <1>1, <2>1, <2>2, Undelivered
<1>3. CASE BeginFail(p)
  <2>1. events' = events
    BY <1>3 DEF BeginFail
  <2>2. CASE job[i] = "pending"
    <3>1. proc'[p].seen = current_invoice_state(i) /\ \A q \in Procs : q # p => proc'[q] = proc[q]
      BY <1>1, <1>3, <2>2 DEF BeginFail, Goto, At
    <3> QED
      BY <1>2, <2>1, <2>2, <3>1 DEF PaidInv, FailsReadNoDelivery
  <2>3. CASE job[i] # "pending"
    <3>1. \A q \in Procs : proc'[q].pc = "failing" => proc'[q] = proc[q]
      BY <1>1, <1>3, <2>3 DEF BeginFail, Goto, Idle
    <3> QED
      BY <2>1, <3>1, PaidFrame
  <2> QED
    BY <2>2, <2>3
<1>4. CASE CommitFail(p)
  <2> DEFINE e == Event("delivery_failed", proc[p].seen, proc[p].seen, Key("delivery_failed"))
  <2>1. append_invoice_event(i, e)
    BY <1>4 DEF CommitFail
  <2>2. job[i] = "pending" /\ proc[p].seen \notin {"delivered", "paid"}
    BY <1>4 DEF CommitFail, AuditInv, FailOwnsJob, PaidInv, FailsReadNoDelivery
  <2>3. e.new \notin {"delivered", "paid"} /\ e.type # "paid"
    BY <2>2 DEF Event
  <2>4. events[i] # <<>> => events[i][Len(events[i])].new # "paid"
    BY <1>1, <1>2, <2>2, LastEvent
  <2>5. events[i] \in Seq(Events) /\ TrailOK(events[i])
    BY <1>1 DEF TypeOK, PaidInv
  <2> HIDE DEF e
  <2>6. TrailOK(Appended(events[i], e))
    BY <2>3, <2>4, <2>5, AppendedTrail
  <2>7. \A q \in Procs : proc'[q].pc = "failing" => proc'[q] = proc[q]
    BY <1>1, <1>4 DEF CommitFail, Goto, Idle
  <2> QED
    BY <1>1, <2>1, <2>6, <2>7, PaidAppend
<1> QED
  BY <1>3, <1>4

\* Every step keeps PaidInv.
LEMMA PaidStep ==
    ASSUME TypeOK, AuditInv, PaidInv, [Next]_vars
    PROVE  PaidInv'
<1>1. proc \in [Procs -> [pc : PCs, inv : Invoices \cup {NoInvoice}, seen : States]]
  BY DEF TypeOK
<1>2. ASSUME NEW p \in Procs, NEW i \in Invoices, BeginPrepare(p, i) \/ BeginConfirm(p, i)
      PROVE  PaidInv'
  BY <1>1, <1>2, PaidFrame DEF BeginPrepare, BeginConfirm, Goto, At
<1>3. ASSUME NEW p \in Procs, CommitPrepare(p) \/ DeadlockAbort(p) \/ Crash(p)
      PROVE  PaidInv'
  BY <1>1, <1>3, PaidFrame DEF CommitPrepare, DeadlockAbort, Crash, Goto, At, Idle
<1>4. ASSUME NEW p \in Procs, MailSent(p) \/ MailFailed(p) \/ PortalReady(p) \/ BeginComplete(p)
      PROVE  PaidInv'
  BY <1>1, <1>4, PaidFrame DEF MailSent, MailFailed, PortalReady, BeginComplete, Goto, At
<1>5. ASSUME NEW p \in Procs, BeginFail(p) \/ CommitFail(p)
      PROVE  PaidInv'
  BY <1>5, PaidFail
<1>6. ASSUME NEW p \in Procs, CommitComplete(p) \/ CommitConfirm(p)
      PROVE  PaidInv'
  BY <1>6, PaidDelivery
<1>7. ASSUME NEW i \in Invoices, RecordPayment(i) \/ Cancel(i)
      PROVE  PaidInv'
  BY <1>7, PaidTransition
<1>8. ASSUME NEW o \in Invoices, NEW c \in Invoices, Correct(o, c)
      PROVE  PaidInv'
  BY <1>8, PaidCorrect
<1>9. CASE UNCHANGED vars \/ \E h \in registered : DropRegistration(h)
  BY <1>9, PaidFrame DEF vars, DropRegistration
<1> QED
  BY <1>2, <1>3, <1>4, <1>5, <1>6, <1>7, <1>8, <1>9 DEF Next, Continue

\* PaidInv holds before the first event.
LEMMA PaidInit == Init => PaidInv
BY DEF Init, PaidInv, TrailOK, FailsReadNoDelivery, Idle

\* A payment is booked once, and after the delivery, although a late fail may
\* append a state it read before (store/billing.py _transition_invoice,
\* fail_invoice_delivery).
THEOREM PaidOnceAfterDeliveryHolds == Spec => []PaidOnceAfterDelivery
<1>1. Spec => [](TypeOK /\ AuditInv /\ PaidInv)
  BY TypeInit, TypeStep, AuditInit, AuditStep, PaidInit, PaidStep, PTL DEF Spec
<1>2. TypeOK /\ PaidInv => PaidOnceAfterDelivery
  <2> SUFFICES ASSUME TypeOK, PaidInv, NEW i \in Invoices, NEW k \in DOMAIN events[i],
                      events[i][k].type = "paid"
               PROVE  /\ \E j \in 1 .. k - 1 : events[i][j].key = Key("delivered")
                      /\ \A j \in 1 .. k - 1 : events[i][j].new # "paid"
    BY DEF PaidOnceAfterDelivery
  <2>1. TrailOK(events[i]) /\ events[i] \in Seq(Events)
    BY DEF PaidInv, TypeOK
  <2>2. DOMAIN events[i] = 1 .. Len(events[i]) /\ Len(events[i]) \in Nat
    BY <2>1, LenProperties
  <2>3. events[i][k].new = "paid" /\ events[i][k].key # Key("delivered") /\ k = Len(events[i])
    BY <2>1 DEF TrailOK
  <2>4. PICK j \in 1 .. k : events[i][j].key = Key("delivered")
    BY <2>1, <2>3 DEF TrailOK
  <2>5. j \in 1 .. k - 1
    BY <2>2, <2>3, <2>4
  <2>6. \A m \in 1 .. k - 1 : m \in DOMAIN events[i] /\ m # Len(events[i])
    BY <2>2, <2>3
  <2>7. \A m \in 1 .. k - 1 : events[i][m].new # "paid"
    BY <2>1, <2>6 DEF TrailOK
  <2> QED
    BY <2>4, <2>5, <2>7
<1> QED
  BY <1>1, <1>2, PTL

-----------------------------------------------------------------------------
(* Corrections: the link, and the audit events of its two ends.             *)

\* The keys of the two events a correction writes.
LinkKeys == [kind : {"corrected", "corrects"}, ref : Invoices]

\* Steps that leave the links alone and append at most an event of another kind.
LEMMA LinksFrame ==
    ASSUME CorrectionsAudited, corrections' = corrections,
           \A i \in Invoices, k \in LinkKeys : HasKey(events'[i], k) <=> HasKey(events[i], k)
    PROVE  CorrectionsAudited'
<1>1. \A o, c \in Invoices : LinkKey("corrected", c) \in LinkKeys /\ LinkKey("corrects", o) \in LinkKeys
  BY DEF LinkKey, LinkKeys
<1>2. \A o, c \in Invoices :
          /\ HasKey(events'[o], LinkKey("corrected", c)) <=> HasKey(events[o], LinkKey("corrected", c))
          /\ HasKey(events'[c], LinkKey("corrects", o)) <=> HasKey(events[c], LinkKey("corrects", o))
  BY <1>1
<1> QED
  BY <1>2 DEF CorrectionsAudited

\* An event with a key of its kind is no audit event of a link.
LEMMA PlainEvent ==
    ASSUME TypeOK, NEW i \in Invoices, NEW e, append_invoice_event(i, e), e.key.ref = NoInvoice
    PROVE  \A j \in Invoices, k \in LinkKeys : HasKey(events'[j], k) <=> HasKey(events[j], k)
<1>1. events \in [Invoices -> Seq(Events)] /\ events[i] \in Seq(Events)
  BY DEF TypeOK
<1>2. \A j \in Invoices : events'[j] = IF j = i THEN Appended(events[i], e) ELSE events[j]
  BY <1>1 DEF append_invoice_event
<1>3. \A k \in LinkKeys : e.key # k
  BY LifecycleAssumption DEF LinkKeys
<1>4. \A k \in LinkKeys : HasKey(Appended(events[i], e), k) <=> HasKey(events[i], k)
  BY <1>1, <1>3, AppendedKeys
<1> QED
  BY <1>2, <1>4

\* Both events of a correction are written with its link.
LEMMA LinksOnCorrect ==
    ASSUME TypeOK, CorrectionsAudited, NEW o \in Invoices, NEW c \in Invoices, Correct(o, c)
    PROVE  CorrectionsAudited'
<1> DEFINE onO == Event("corrected", current_invoice_state(o), "corrected", LinkKey("corrected", c))
           onC == Event("correction_issued", "issued", "issued", LinkKey("corrects", o))
<1>1. events \in [Invoices -> Seq(Events)] /\ corrections \subseteq Invoices \X Invoices
  BY DEF TypeOK
<1>2. /\ events' = [events EXCEPT ![o] = Appended(@, onO), ![c] = Appended(@, onC)]
      /\ corrections' = corrections \cup {<<o, c>>}
      /\ \A link \in corrections : link[1] # o /\ link[2] # c
  BY DEF Correct
<1>3. o # c /\ Participant[o] = Participant[c]
  BY DEF Correct, next_state
<1>4. onO.key = LinkKey("corrected", c) /\ onC.key = LinkKey("corrects", o)
  BY DEF Event
<1> HIDE DEF onO, onC
<1>5. \A k : /\ HasKey(Appended(events[o], onO), k) <=> HasKey(events[o], k) \/ k = LinkKey("corrected", c)
             /\ HasKey(Appended(events[c], onC), k) <=> HasKey(events[c], k) \/ k = LinkKey("corrects", o)
  BY <1>1, <1>4, AppendedKeys
<1>6. \A j \in Invoices : events'[j] = IF j = c THEN Appended(events[c], onC)
                                     ELSE IF j = o THEN Appended(events[o], onO) ELSE events[j]
  BY <1>1, <1>2, <1>3
<1>7. \A x, y \in Invoices :
          /\ (LinkKey("corrected", x) = LinkKey("corrected", y)) <=> (x = y)
          /\ (LinkKey("corrects", x) = LinkKey("corrects", y)) <=> (x = y)
          /\ LinkKey("corrected", x) # LinkKey("corrects", y)
  BY DEF LinkKey
<1>8. \A x, y \in Invoices : HasKey(events'[x], LinkKey("corrected", y)) <=>
          HasKey(events[x], LinkKey("corrected", y)) \/ (x = o /\ y = c)
  BY <1>3, <1>5, <1>6, <1>7
<1>9. \A x, y \in Invoices : HasKey(events'[y], LinkKey("corrects", x)) <=>
          HasKey(events[y], LinkKey("corrects", x)) \/ (x = o /\ y = c)
  BY <1>3, <1>5, <1>6, <1>7
<1>10. \A x, y \in Invoices : <<x, y>> \in corrections' <=> <<x, y>> \in corrections \/ (x = o /\ y = c)
  BY <1>2
<1>11. \A l, m \in corrections' : l[1] = m[1] \/ l[2] = m[2] => l = m
  <2>1. PICK new : new = <<o, c>>
    OBVIOUS
  <2>2. new[1] = o /\ new[2] = c /\ corrections' = corrections \cup {new}
    BY <1>2, <2>1
  <2>3. \A l, m \in corrections : l[1] = m[1] \/ l[2] = m[2] => l = m
    BY DEF CorrectionsAudited
  <2>4. \A l \in corrections : l[1] # new[1] /\ l[2] # new[2]
    BY <1>2, <2>2
  <2>5. \A l \in corrections' : l \in corrections \/ l = new
    BY <2>2
  <2> QED
    BY <2>3, <2>4, <2>5
<1>12. \A x, y \in Invoices :
          LET linked == <<x, y>> \in corrections' IN
          /\ linked => x # y /\ Participant[x] = Participant[y]
          /\ linked <=> HasKey(events'[x], LinkKey("corrected", y))
          /\ linked <=> HasKey(events'[y], LinkKey("corrects", x))
  BY <1>3, <1>8, <1>9, <1>10 DEF CorrectionsAudited
<1> QED
  BY <1>11, <1>12 DEF CorrectionsAudited

\* Every step keeps CorrectionsAudited.
LEMMA LinksStep ==
    ASSUME TypeOK, CorrectionsAudited, [Next]_vars
    PROVE  CorrectionsAudited'
<1>1. CASE events' = events /\ corrections' = corrections
  BY <1>1, LinksFrame
<1>2. ASSUME NEW i \in Invoices, NEW e, append_invoice_event(i, e), e.key.ref = NoInvoice,
             corrections' = corrections
      PROVE  CorrectionsAudited'
  BY <1>2, PlainEvent, LinksFrame
<1>3. ASSUME NEW p \in Procs, CommitFail(p)
      PROVE  CorrectionsAudited'
  <2>1. proc[p].inv \in Invoices
    BY <1>3 DEF CommitFail, TypeOK
  <2> DEFINE e == Event("delivery_failed", proc[p].seen, proc[p].seen, Key("delivery_failed"))
  <2>2. append_invoice_event(proc[p].inv, e) /\ corrections' = corrections
    BY <1>3 DEF CommitFail
  <2>3. e.key.ref = NoInvoice
    BY DEF Event, Key
  <2> HIDE DEF e
  <2> QED
    BY <1>2, <2>1, <2>2, <2>3
<1>4. ASSUME NEW p \in Procs, CommitComplete(p) \/ CommitConfirm(p)
      PROVE  CorrectionsAudited'
  <2>1. proc[p].inv \in Invoices /\ corrections' = corrections
    BY <1>4 DEF CommitComplete, CommitConfirm, TypeOK
  <2>2. PICK from \in {{"pending"}, {"pending", "failed"}}, type \in {"delivered", "delivery_confirmed"} :
            Deliver(proc[p].inv, from, type)
    BY <1>4 DEF CommitComplete, CommitConfirm
  <2> DEFINE e == Event(type, current_invoice_state(proc[p].inv), "delivered", Key("delivered"))
  <2>3. e.key.ref = NoInvoice
    BY DEF Event, Key
  <2>4. append_invoice_event(proc[p].inv, e) \/ events' = events
    BY <2>2 DEF Deliver
  <2> HIDE DEF e
  <2> QED
    BY <1>1, <1>2, <2>1, <2>3, <2>4
<1>5. ASSUME NEW i \in Invoices, NEW event, NEW type, Transition(i, event, type)
      PROVE  CorrectionsAudited'
  <2> DEFINE state == current_invoice_state(i)
             e == Event(type, state, next_state(state, event), Key(type))
  <2>1. append_invoice_event(i, e) /\ corrections' = corrections
    BY <1>5 DEF Transition
  <2>2. e.key.ref = NoInvoice
    BY DEF Event, Key
  <2> HIDE DEF e
  <2> QED
    BY <1>2, <2>1, <2>2
<1>6. ASSUME NEW o \in Invoices, NEW c \in Invoices, Correct(o, c)
      PROVE  CorrectionsAudited'
  BY <1>6, LinksOnCorrect
<1>7. ASSUME NEW p \in Procs, NEW i \in Invoices, BeginPrepare(p, i) \/ BeginConfirm(p, i)
      PROVE  CorrectionsAudited'
  BY <1>1, <1>7 DEF BeginPrepare, BeginConfirm
<1>8. ASSUME NEW p \in Procs,
             \/ CommitPrepare(p) \/ MailSent(p) \/ MailFailed(p) \/ PortalReady(p)
             \/ BeginFail(p) \/ BeginComplete(p) \/ DeadlockAbort(p) \/ Crash(p)
      PROVE  CorrectionsAudited'
  BY <1>1, <1>8 DEF CommitPrepare, MailSent, MailFailed, PortalReady, BeginFail, BeginComplete,
       DeadlockAbort, Crash
<1>9. CASE UNCHANGED vars \/ \E h \in registered : DropRegistration(h)
  BY <1>1, <1>9 DEF vars, DropRegistration
<1> QED
  BY <1>3, <1>4, <1>5, <1>6, <1>7, <1>8, <1>9 DEF Next, Continue, RecordPayment, Cancel

\* CorrectionsAudited holds before the first correction.
LEMMA LinksInit == Init => CorrectionsAudited
BY DEF Init, CorrectionsAudited, HasKey

\* A correction links one invoice to one other of the same household, and both
\* trails tell of it (store/billing.py correct_invoice).
THEOREM CorrectionsAuditedHolds == Spec => []CorrectionsAudited
BY TypeInit, TypeStep, LinksInit, LinksStep, PTL DEF Spec

-----------------------------------------------------------------------------
(* Payments booked by bank statements and their confirmation, beside all    *)
(* the requests above.  A payment is the last word of a trail, so two       *)
(* entries matched to one invoice would be one event under two keys.        *)

\* The decision of an entry that pays an invoice, and the event it books.
Matched(i) == [decision |-> "matched", invoice |-> i]
Booking(key) == Event("paid", "delivered", "paid", key)

\* An event under a key of somebody else's is a payment.
BookingsPay ==
    \A i \in Invoices : \A k \in DOMAIN events[i] :
        events[i][k].key \notin OwnKeys => events[i][k].new = "paid"

\* A confirmation booked its payment, and no other one did under its key.
ConfirmationsBooked ==
    /\ \A c \in confirmations : HasKey(events[c.invoice], OperatorKey(c.key))
    /\ \A c, d \in confirmations : c.key = d.key /\ c.invoice = d.invoice => c = d

\* What a statement booked is one of its entries.
EntriesKnown ==
    \A i \in Invoices : \A k \in DOMAIN events[i] : \A id :
        events[i][k].key = BankKey(id) => id \in DOMAIN entry

\* A matched entry names the invoice it pays.
MatchedInvoicesKnown ==
    \A id \in DOMAIN entry : entry[id].decision = "matched" => entry[id].invoice \in Invoices

\* The inductive invariant behind MatchesStand.
ReconInv ==
    /\ ReconTypeOK /\ AuditInv /\ PaidInv
    /\ BookingsPay /\ ConfirmationsBooked /\ EntriesKnown
    /\ MatchedInvoicesKnown /\ MatchesAreAudited

\* What the requests of the lifecycle write, they write under their own keys.
LEMMA OwnAppends ==
    ASSUME TypeOK, [Next]_vars, NEW j \in Invoices
    PROVE  \E e : e.key \in OwnKeys /\ events'[j] \in {events[j], Appended(events[j], e)}
<1>0. \A kind \in {"delivered", "delivery_failed", "paid", "cancelled"} : Key(kind) \in OwnKeys
  BY DEF Key, OwnKeys
<1>1. CASE events' = events
  <2>1. PICK e : e = Booking(Key("paid"))
    OBVIOUS
  <2>2. e.key \in OwnKeys
    BY <1>0, <2>1 DEF Booking, Event
  <2> QED
    BY <1>1, <2>2
<1>2. ASSUME NEW i \in Invoices, NEW e, append_invoice_event(i, e), e.key \in OwnKeys
      PROVE  \E f : f.key \in OwnKeys /\ events'[j] \in {events[j], Appended(events[j], f)}
  <2>1. events'[j] = IF j = i THEN Appended(events[i], e) ELSE events[j]
    BY <1>2 DEF append_invoice_event, TypeOK
  <2> QED
    BY <1>2, <2>1
<1>3. ASSUME NEW p \in Procs, CommitFail(p)
      PROVE  \E e : e.key \in OwnKeys /\ events'[j] \in {events[j], Appended(events[j], e)}
  <2> DEFINE e == Event("delivery_failed", proc[p].seen, proc[p].seen, Key("delivery_failed"))
  <2>1. append_invoice_event(proc[p].inv, e) /\ proc[p].inv \in Invoices
    BY <1>3 DEF CommitFail, TypeOK
  <2>2. e.key \in OwnKeys
    BY <1>0 DEF Event
  <2> HIDE DEF e
  <2> QED
    BY <1>2, <2>1, <2>2
<1>4. ASSUME NEW p \in Procs, CommitComplete(p) \/ CommitConfirm(p)
      PROVE  \E e : e.key \in OwnKeys /\ events'[j] \in {events[j], Appended(events[j], e)}
  <2>1. proc[p].inv \in Invoices
    BY <1>4 DEF CommitComplete, CommitConfirm, TypeOK
  <2>2. PICK from \in {{"pending"}, {"pending", "failed"}}, type \in {"delivered", "delivery_confirmed"} :
            Deliver(proc[p].inv, from, type)
    BY <1>4 DEF CommitComplete, CommitConfirm
  <2> DEFINE e == Event(type, current_invoice_state(proc[p].inv), "delivered", Key("delivered"))
  <2>3. e.key \in OwnKeys
    BY <1>0 DEF Event
  <2>4. append_invoice_event(proc[p].inv, e) \/ events' = events
    BY <2>2 DEF Deliver
  <2> HIDE DEF e
  <2> QED
    BY <1>1, <1>2, <2>1, <2>3, <2>4
<1>5. ASSUME NEW i \in Invoices, RecordPayment(i) \/ Cancel(i)
      PROVE  \E e : e.key \in OwnKeys /\ events'[j] \in {events[j], Appended(events[j], e)}
  <2>1. PICK event \in {"pay", "cancel"}, type \in {"paid", "cancelled"} : Transition(i, event, type)
    BY <1>5 DEF RecordPayment, Cancel
  <2> DEFINE state == current_invoice_state(i)
             e == Event(type, state, next_state(state, event), Key(type))
  <2>2. append_invoice_event(i, e)
    BY <2>1 DEF Transition
  <2>3. e.key \in OwnKeys
    BY <1>0 DEF Event
  <2> HIDE DEF e
  <2> QED
    BY <1>2, <2>2, <2>3
<1>6. ASSUME NEW o \in Invoices, NEW c \in Invoices, Correct(o, c)
      PROVE  \E e : e.key \in OwnKeys /\ events'[j] \in {events[j], Appended(events[j], e)}
  <2> DEFINE onO == Event("corrected", current_invoice_state(o), "corrected", LinkKey("corrected", c))
             onC == Event("correction_issued", "issued", "issued", LinkKey("corrects", o))
  <2>1. o # c /\ events' = [events EXCEPT ![o] = Appended(@, onO), ![c] = Appended(@, onC)]
    BY <1>6 DEF Correct, next_state
  <2>2. onO.key \in OwnKeys /\ onC.key \in OwnKeys
    BY DEF Event, LinkKey, OwnKeys
  <2> HIDE DEF onO, onC
  <2>3. events'[j] = IF j = c THEN Appended(events[c], onC)
                     ELSE IF j = o THEN Appended(events[o], onO) ELSE events[j]
    BY <2>1 DEF TypeOK
  <2>4. CASE j = c
    BY <2>2, <2>3, <2>4
  <2>5. CASE j # c
    BY <2>2, <2>3, <2>5
  <2> QED
    BY <2>4, <2>5
<1>7. ASSUME NEW p \in Procs,
             \/ CommitPrepare(p) \/ MailSent(p) \/ MailFailed(p) \/ PortalReady(p)
             \/ BeginFail(p) \/ BeginComplete(p) \/ DeadlockAbort(p) \/ Crash(p)
             \/ \E i \in Invoices : BeginPrepare(p, i) \/ BeginConfirm(p, i)
      PROVE  events' = events
  BY <1>7 DEF CommitPrepare, MailSent, MailFailed, PortalReady, BeginFail, BeginComplete,
       DeadlockAbort, Crash, BeginPrepare, BeginConfirm
<1>8. CASE UNCHANGED vars \/ \E h \in registered : DropRegistration(h)
  BY <1>1, <1>8 DEF vars, DropRegistration
<1> QED
  BY <1>1, <1>3, <1>4, <1>5, <1>6, <1>7, <1>8 DEF Next, Continue

\* What a trail holds after an append: what it held, and the new event.
LEMMA AppendedEvents ==
    ASSUME NEW log \in Seq(Events), NEW e, NEW k \in DOMAIN Appended(log, e)
    PROVE  Appended(log, e)[k] = e \/ (k \in DOMAIN log /\ Appended(log, e)[k] = log[k])
<1>1. CASE HasKey(log, e.key)
  BY <1>1 DEF Appended
<1>2. CASE ~HasKey(log, e.key)
  <2>1. PICK new : new = Append(log, e)
    OBVIOUS
  <2>2. Appended(log, e) = new
    BY <1>2, <2>1 DEF Appended
  <2>3. /\ DOMAIN new = 1 .. Len(log) + 1 /\ new[Len(log) + 1] = e
        /\ DOMAIN log = 1 .. Len(log) /\ Len(log) \in Nat
        /\ \A n \in 1 .. Len(log) : new[n] = log[n]
    BY <2>1
  <2> QED
    BY <2>2, <2>3
<1> QED
  BY <1>1, <1>2

\* Keys of statements and of operators are not keys of the lifecycle.
LEMMA ForeignKeys == \A x : BankKey(x) \notin OwnKeys /\ OperatorKey(x) \notin OwnKeys
BY DEF BankKey, OperatorKey, OwnKeys

\* A key tells which entry, or which confirmation, it books.
LEMMA KeysTell ==
    \A x, y : /\ BankKey(x) = BankKey(y) => x = y
              /\ OperatorKey(x) = OperatorKey(y) => x = y
              /\ BankKey(x) # OperatorKey(y)
<1> TAKE x, y
<1>1. BankKey(x).ref = x /\ BankKey(y).ref = y /\ BankKey(x).kind = "bank"
  BY DEF BankKey
<1>2. OperatorKey(x).ref = x /\ OperatorKey(y).ref = y /\ OperatorKey(y).kind = "operator"
  BY DEF OperatorKey
<1> QED
  BY <1>1, <1>2

\* MatchesStand follows: the two entries would have booked the last event of
\* one trail, under two keys.
LEMMA MatchesPayOnce ==
    ASSUME ReconInv
    PROVE  MatchesStand
<1> SUFFICES ASSUME NEW a \in DOMAIN entry, NEW b \in DOMAIN entry,
                    entry[a].decision = "matched", entry[b].decision = "matched",
                    entry[a].invoice = entry[b].invoice
             PROVE  a = b
  BY DEF MatchesStand, MatchedEntriesPayOnce, ReconInv
<1> DEFINE i == entry[a].invoice
           BookedAs(id, key) ==
               /\ HasKey(events[i], key)
               /\ \/ key = BankKey(id)
                  \/ \E c \in confirmations : c.entry = id /\ c.invoice = i /\ key = OperatorKey(c.key)
<1>1. entry[a] = Matched(i) /\ entry[b] = Matched(i) /\ i \in Invoices
  BY DEF ReconInv, ReconTypeOK, MatchedInvoicesKnown, Matched
<1>2. ASSUME NEW id \in {a, b}
      PROVE  \E key : BookedAs(id, key)
  <2>1. \/ HasKey(events[i], BankKey(id))
        \/ \E c \in confirmations :
              c.entry = id /\ c.invoice = i /\ HasKey(events[i], OperatorKey(c.key))
    <3> HIDE DEF i
    <3>1. id \in DOMAIN entry /\ entry[id] = [decision |-> "matched", invoice |-> i]
      BY <1>1 DEF Matched
    <3> QED
      BY <1>1, <3>1 DEF ReconInv, MatchesAreAudited
  <2>2. CASE HasKey(events[i], BankKey(id))
    BY <2>2
  <2>3. ASSUME NEW c \in confirmations, c.entry = id, c.invoice = i,
               HasKey(events[i], OperatorKey(c.key))
        PROVE  \E key : BookedAs(id, key)
    BY <2>3
  <2> QED
    BY <2>1, <2>2, <2>3
<1>3. PICK ka : BookedAs(a, ka)
  BY <1>2
<1>4. PICK kb : BookedAs(b, kb)
  BY <1>2
<1>5. ASSUME NEW key, key \notin OwnKeys, HasKey(events[i], key)
      PROVE  events[i][Len(events[i])].key = key
  <2>1. PICK k \in DOMAIN events[i] : events[i][k].key = key
    BY <1>5 DEF HasKey
  <2>2. events[i][k].new = "paid"
    BY <1>1, <1>5, <2>1 DEF ReconInv, BookingsPay
  <2>3. k = Len(events[i])
    BY <1>1, <2>2 DEF ReconInv, PaidInv, TrailOK
  <2> QED
    BY <2>1, <2>3
<1>6. ka = kb
  BY <1>3, <1>4, <1>5, ForeignKeys
<1>7. CASE ka = BankKey(a)
  BY <1>4, <1>6, <1>7, KeysTell
<1>8. ASSUME NEW c \in confirmations, c.entry = a, c.invoice = i, ka = OperatorKey(c.key)
      PROVE  a = b
  <2>1. PICK d \in confirmations : d.entry = b /\ d.invoice = i /\ kb = OperatorKey(d.key)
    BY <1>4, <1>6, <1>8, KeysTell
  <2>2. c.key = d.key
    BY <1>6, <1>8, <2>1, KeysTell
  <2>3. c = d
    BY <1>8, <2>1, <2>2 DEF ReconInv, ConfirmationsBooked
  <2> QED
    BY <1>8, <2>1, <2>3
<1> QED
  BY <1>3, <1>7, <1>8

\* Steps of the lifecycle alone keep what statements and confirmations booked.
LEMMA ReconOwnStep ==
    ASSUME ReconInv, [Next]_vars, UNCHANGED bankVars
    PROVE  ReconInv'
<1>1. TypeOK /\ TypeOK' /\ AuditInv' /\ PaidInv'
  BY TypeStep, AuditStep, PaidStep DEF ReconInv, ReconTypeOK
<1>2. events \in [Invoices -> Seq(Events)] /\ events' \in [Invoices -> Seq(Events)]
  BY <1>1 DEF TypeOK
<1>3. ASSUME NEW j \in Invoices, NEW key, key \notin OwnKeys
      PROVE  HasKey(events'[j], key) <=> HasKey(events[j], key)
  <2>1. PICK e : e.key \in OwnKeys /\ events'[j] \in {events[j], Appended(events[j], e)}
    BY <1>1, OwnAppends
  <2>2. e.key # key
    BY <1>3, <2>1
  <2>3. HasKey(Appended(events[j], e), key) <=> HasKey(events[j], key)
    BY <1>2, <2>2, AppendedKeys
  <2> QED
    BY <2>1, <2>3
<1>4. ASSUME NEW j \in Invoices, NEW k \in DOMAIN events'[j], events'[j][k].key \notin OwnKeys
      PROVE  k \in DOMAIN events[j] /\ events'[j][k] = events[j][k]
  <2>1. PICK e : e.key \in OwnKeys /\ events'[j] \in {events[j], Appended(events[j], e)}
    BY <1>1, OwnAppends
  <2>2. events'[j][k] # e
    BY <1>4, <2>1
  <2>3. CASE events'[j] = Appended(events[j], e)
    BY <1>2, <2>2, <2>3, AppendedEvents
  <2> QED
    BY <2>1, <2>3
<1>5. BookingsPay'
  BY <1>4 DEF BookingsPay, ReconInv
<1>6. ReconTypeOK'
  BY <1>1 DEF ReconInv, ReconTypeOK, bankVars
<1>7. \A c \in confirmations : c.invoice \in Invoices
  BY DEF ReconInv, ReconTypeOK
<1>8. ConfirmationsBooked'
  <2>1. confirmations' = confirmations
    BY DEF bankVars
  <2>2. ASSUME NEW c \in confirmations
        PROVE  HasKey(events'[c.invoice], OperatorKey(c.key))
    BY <1>3, <1>7, ForeignKeys DEF ReconInv, ConfirmationsBooked
  <2> QED
    BY <2>1, <2>2 DEF ReconInv, ConfirmationsBooked
<1>9. EntriesKnown'
  <2>1. entry' = entry
    BY DEF bankVars
  <2>2. ASSUME NEW i \in Invoices, NEW k \in DOMAIN events'[i], NEW id, events'[i][k].key = BankKey(id)
        PROVE  id \in DOMAIN entry
    <3>1. k \in DOMAIN events[i] /\ events[i][k].key = BankKey(id)
      BY <1>4, <2>2, ForeignKeys
    <3> QED
      BY <3>1 DEF ReconInv, EntriesKnown
  <2> QED
    BY <2>1, <2>2 DEF EntriesKnown
<1>10. MatchesAreAudited'
  <2>1. entry' = entry /\ confirmations' = confirmations
    BY DEF bankVars
  <2>2. ASSUME NEW id, NEW i \in Invoices
        PROVE  /\ HasKey(events'[i], BankKey(id)) <=> HasKey(events[i], BankKey(id))
               /\ HasKey(events'[i], OperatorKey(id)) <=> HasKey(events[i], OperatorKey(id))
    BY <1>3, ForeignKeys
  <2> QED
    BY <2>1, <2>2 DEF ReconInv, MatchesAreAudited
<1>11. MatchedInvoicesKnown'
  BY DEF ReconInv, MatchedInvoicesKnown, bankVars
<1> QED
  BY <1>1, <1>5, <1>6, <1>8, <1>9, <1>10, <1>11 DEF ReconInv

\* Only a delivered invoice is matched, and the decision is one of the seven.
LEMMA MatchedIsDelivered ==
    ASSUME NEW e \in Payments
    PROVE  /\ match_payment(e) \in [decision : Decisions, invoice : Invoices \cup {NoInvoice}]
           /\ match_payment(e).decision = "matched" =>
                 /\ match_payment(e).invoice \in Invoices
                 /\ current_invoice_state(match_payment(e).invoice) = "delivered"
<1> DEFINE C == Candidates(e)
           the == IF Cardinality(C) = 1 THEN CHOOSE i \in C : TRUE ELSE NoInvoice
           m == match_payment(e)
<1>1. e.reversal \in BOOLEAN /\ e.credit \in BOOLEAN /\ e.amount \in Nat
  BY DEF Payments
<1>2. C \subseteq Invoices /\ IsFiniteSet(C)
  BY ReconciliationAssumption, FS_Subset DEF Candidates
<1>3. Cardinality(C) \in Nat /\ (C = {} <=> Cardinality(C) = 0)
  BY <1>2, FS_CardinalityType, FS_EmptySet
<1>4. Cardinality(C) = 1 => the \in Invoices
  BY <1>2, <1>3
<1>5. ASSUME NEW i \in Invoices
      PROVE  /\ payment_eligibility(e, i) \in Decisions
             /\ payment_eligibility(e, i) = "matched" => current_invoice_state(i) = "delivered"
  <2>1. Gross[i] \in Nat
    BY ReconciliationAssumption
  <2> QED
    BY <1>1, <2>1 DEF payment_eligibility, Decisions
<1>6. CASE e.reversal
  BY <1>4, <1>6 DEF match_payment, Decisions
<1>7. CASE ~e.reversal /\ Cardinality(C) > 1
  BY <1>7 DEF match_payment, Decisions
<1>8. CASE ~e.reversal /\ C = {}
  BY <1>3, <1>8 DEF match_payment, Decisions
<1>9. CASE ~e.reversal /\ Cardinality(C) = 1
  <2>1. m = [decision |-> payment_eligibility(e, the), invoice |-> the]
    BY <1>3, <1>9 DEF match_payment
  <2> QED
    BY <1>4, <1>5, <1>9, <2>1
<1> QED
  BY <1>1, <1>3, <1>6, <1>7, <1>8, <1>9

\* What an import decides about an entry: one of the seven, and "matched" only
\* where the matching rules say so.
LEMMA DecidedType ==
    ASSUME NEW s \in Statements, NEW id \in EntriesOf(s)
    PROVE  /\ Decided(id) \in [decision : Decisions, invoice : Invoices \cup {NoInvoice}]
           /\ Decided(id).decision = "matched" =>
                 /\ Decided(id) = match_payment(PaymentOf(id)) /\ ~PaidEarlier(id)
                 /\ Decided(id).invoice \in Invoices
                 /\ current_invoice_state(Decided(id).invoice) = "delivered"
<1> DEFINE m == match_payment(PaymentOf(id))
<1>1. PaymentOf(id) \in Payments
  BY ReconciliationAssumption DEF EntriesOf, PaymentOf
<1>2. /\ m \in [decision : Decisions, invoice : Invoices \cup {NoInvoice}]
      /\ m.decision = "matched" =>
            m.invoice \in Invoices /\ current_invoice_state(m.invoice) = "delivered"
  BY <1>1, MatchedIsDelivered
<1>3. Decided(id) = IF m.decision = "matched" /\ PaidEarlier(id)
                    THEN [m EXCEPT !.decision = "mismatch"] ELSE m
  BY DEF Decided
<1> HIDE DEF m
<1>4. CASE m.decision = "matched" /\ PaidEarlier(id)
  BY <1>2, <1>3, <1>4 DEF Decisions
<1>5. CASE ~(m.decision = "matched" /\ PaidEarlier(id))
  BY <1>2, <1>3, <1>5 DEF m
<1> QED
  BY <1>4, <1>5

\* Of the entries of a statement at most one pays an invoice: a later one finds
\* it paid.
LEMMA OnePayingEntry ==
    ASSUME NEW s \in Statements, NEW i \in Invoices, NEW a \in EntriesOf(s), NEW b \in EntriesOf(s),
           Decided(a) = Matched(i), Decided(b) = Matched(i)
    PROVE  a = b
<1>1. \A x \in {a, b} : match_payment(PaymentOf(x)) = Matched(i) /\ ~PaidEarlier(x)
  BY DecidedType DEF Matched
<1>2. PICK k \in DOMAIN Content[s], l \in DOMAIN Content[s] : a = <<s, k>> /\ b = <<s, l>>
  BY DEF EntriesOf
<1>3. Content[s] \in Seq(Payments)
  BY ReconciliationAssumption
<1>4. k \in Nat \ {0} /\ l \in Nat \ {0}
  BY <1>3, LenProperties
<1>5. ASSUME k < l
      PROVE  FALSE
  <2>1. k \in 1 .. b[2] - 1
    BY <1>2, <1>4, <1>5
  <2>2. match_payment(PaymentOf(<<b[1], k>>)) = Matched(i)
    BY <1>1, <1>2
  <2> QED
    BY <1>1, <2>1, <2>2 DEF PaidEarlier, Matched
<1>6. ASSUME l < k
      PROVE  FALSE
  <2>1. l \in 1 .. a[2] - 1
    BY <1>2, <1>4, <1>6
  <2>2. match_payment(PaymentOf(<<a[1], l>>)) = Matched(i)
    BY <1>1, <1>2
  <2> QED
    BY <1>1, <2>1, <2>2 DEF PaidEarlier, Matched
<1> QED
  BY <1>2, <1>4, <1>5, <1>6

\* A delivered invoice was never paid, and takes a payment under a foreign key.
LEMMA BookedAppend ==
    ASSUME TypeOK, PaidInv, BookingsPay, NEW i \in Invoices, NEW key \in BookingKeys,
           current_invoice_state(i) = "delivered"
    PROVE  /\ \A k \in DOMAIN events[i] : events[i][k].key \in OwnKeys
           /\ Appended(events[i], Booking(key)) \in Seq(Events)
           /\ TrailOK(Appended(events[i], Booking(key)))
<1>1. events[i] \in Seq(Events) /\ TrailOK(events[i])
  BY DEF TypeOK, PaidInv
<1>2. events[i] # <<>>
  BY DEF current_invoice_state
<1>3. /\ Len(events[i]) \in DOMAIN events[i] /\ DOMAIN events[i] = 1 .. Len(events[i])
      /\ events[i][Len(events[i])].new = "delivered"
  BY <1>2, LastEvent
<1>4. \A k \in DOMAIN events[i] : events[i][k].key \in OwnKeys
  BY <1>1, <1>3 DEF BookingsPay, TrailOK
<1>5. HasKey(events[i], Key("delivered"))
  <2>1. \E j \in 1 .. Len(events[i]) : events[i][j].key = Key("delivered")
    BY <1>1, <1>3 DEF TrailOK
  <2> QED
    BY <1>3, <2>1 DEF HasKey
<1> DEFINE e == Booking(key)
<1>6. e.new = "paid" /\ e.type = "paid" /\ e.key = key
  BY DEF Booking, Event
<1>7. key # Key("delivered")
  BY LifecycleAssumption DEF Key, OwnKeys
<1>8. e \in Events
  BY DEF Booking, Event, Events, EventTypes, States, Keys
<1>9. events[i][Len(events[i])].new # "paid"
  BY <1>3
<1> HIDE DEF e
<1>10. TrailOK(Appended(events[i], e))
  BY <1>1, <1>5, <1>6, <1>7, <1>9, AppendedTrail
<1>11. Appended(events[i], e) \in Seq(Events)
  BY <1>1, <1>8, AppendedType
<1> QED
  BY <1>4, <1>10, <1>11 DEF e

\* Payments booked on the delivered invoices P, each under its key K[i].
LEMMA BooksPayments ==
    ASSUME ReconInv, NEW P \in SUBSET Invoices, NEW K \in [P -> BookingKeys],
           \A i \in P : current_invoice_state(i) = "delivered",
           events' = [i \in Invoices |->
                         IF i \in P THEN Appended(events[i], Booking(K[i])) ELSE events[i]],
           UNCHANGED <<job, corrections, registered, mails, proc>>,
           \A o \in outbox' : o[1] \in EventTypes => o[2] \in Invoices
    PROVE  /\ TypeOK' /\ AuditInv' /\ PaidInv' /\ BookingsPay'
           /\ \A i \in P : \A k \in DOMAIN events[i] : events[i][k].key \in OwnKeys
           /\ \A i \in Invoices : \A key : key \notin OwnKeys =>
                 (HasKey(events'[i], key) <=> HasKey(events[i], key) \/ (i \in P /\ key = K[i]))
<1>1. TypeOK /\ PaidInv /\ BookingsPay /\ AuditInv
  BY DEF ReconInv, ReconTypeOK
<1>2. ASSUME NEW i \in P
      PROVE  /\ \A k \in DOMAIN events[i] : events[i][k].key \in OwnKeys
             /\ events'[i] = Appended(events[i], Booking(K[i]))
             /\ Appended(events[i], Booking(K[i])) \in Seq(Events)
             /\ TrailOK(Appended(events[i], Booking(K[i])))
             /\ events[i] \in Seq(Events)
  <2>1. i \in Invoices /\ K[i] \in BookingKeys /\ current_invoice_state(i) = "delivered"
    OBVIOUS
  <2>2. events[i] \in Seq(Events) /\ events'[i] = Appended(events[i], Booking(K[i]))
    BY <1>1, <2>1 DEF TypeOK
  <2> QED
    BY <1>1, <2>1, <2>2, BookedAppend
<1>3. \A i \in Invoices \ P : events'[i] = events[i]
  OBVIOUS
<1>4. events' \in [Invoices -> Seq(Events)]
  <2>1. \A i \in Invoices : events'[i] \in Seq(Events)
    BY <1>1, <1>2, <1>3 DEF TypeOK
  <2> QED
    BY <2>1
<1>5. TypeOK'
  BY <1>1, <1>4 DEF TypeOK
<1>6. ASSUME NEW i \in Invoices, NEW key
      PROVE  HasKey(events'[i], key) <=> HasKey(events[i], key) \/ (i \in P /\ key = K[i])
  <2>1. CASE i \in P
    <3>1. Booking(K[i]).key = K[i]
      BY DEF Booking, Event
    <3>2. HasKey(Appended(events[i], Booking(K[i])), key)
             <=> (HasKey(events[i], key) \/ Booking(K[i]).key = key)
      BY <1>2, <2>1, AppendedKeys
    <3> QED
      BY <1>2, <2>1, <3>1, <3>2
  <2>2. CASE i \notin P
    BY <1>3, <2>2
  <2> QED
    BY <2>1, <2>2
<1>7. AuditInv'
  <2>1. \A i \in P : K[i] # Key("delivered")
    BY LifecycleAssumption DEF Key, OwnKeys
  <2>2. \A i \in Invoices : Delivered(i)' <=> Delivered(i)
    BY <1>6, <2>1 DEF Delivered, Key
  <2> QED
    BY <1>1, <2>2, AuditFrame
<1>8. PaidInv'
  <2>1. \A i \in Invoices : TrailOK(events'[i])
    BY <1>1, <1>2, <1>3 DEF PaidInv
  <2> QED
    BY <1>1, <2>1 DEF PaidInv, FailsReadNoDelivery
<1>9. BookingsPay'
  <2> SUFFICES ASSUME NEW i \in Invoices, NEW k \in DOMAIN events'[i],
                      events'[i][k].key \notin OwnKeys
               PROVE  events'[i][k].new = "paid"
    BY DEF BookingsPay
  <2>1. CASE i \in P
    <3>1. \/ events'[i][k] = Booking(K[i])
          \/ k \in DOMAIN events[i] /\ events'[i][k] = events[i][k]
      <4> DEFINE e == Booking(K[i])
      <4>1. events[i] \in Seq(Events) /\ events'[i] = Appended(events[i], e)
        BY <1>2, <2>1
      <4> HIDE DEF e
      <4>2. k \in DOMAIN Appended(events[i], e)
        BY <4>1
      <4>3. \/ Appended(events[i], e)[k] = e
            \/ k \in DOMAIN events[i] /\ Appended(events[i], e)[k] = events[i][k]
        BY <4>1, <4>2, AppendedEvents
      <4> QED
        BY <4>1, <4>3 DEF e
    <3>2. Booking(K[i]).new = "paid"
      BY DEF Booking, Event
    <3> QED
      BY <1>2, <2>1, <3>1, <3>2
  <2>2. CASE i \notin P
    BY <1>1, <1>3, <2>2 DEF BookingsPay
  <2> QED
    BY <2>1, <2>2
<1> QED
  BY <1>2, <1>5, <1>6, <1>7, <1>8, <1>9

\* What every booking step owes, told by its bookings: the keys of the trails
\* stay known and a confirmation booked before is booked still.
LEMMA BookedKeysStand ==
    ASSUME ReconInv, NEW P \in SUBSET Invoices, NEW K \in [P -> BookingKeys],
           \A i \in Invoices : \A key : key \notin OwnKeys =>
               (HasKey(events'[i], key) <=> HasKey(events[i], key) \/ (i \in P /\ key = K[i])),
           DOMAIN entry \subseteq DOMAIN entry',
           \A i \in P : \A id : K[i] = BankKey(id) => id \in DOMAIN entry'
    PROVE  /\ EntriesKnown'
           /\ \A c \in confirmations : HasKey(events'[c.invoice], OperatorKey(c.key))
<1>1. EntriesKnown'
  <2> SUFFICES ASSUME NEW i \in Invoices, NEW k \in DOMAIN events'[i], NEW id,
                      events'[i][k].key = BankKey(id)
               PROVE  id \in DOMAIN entry'
    BY DEF EntriesKnown
  <2>1. HasKey(events'[i], BankKey(id))
    BY DEF HasKey
  <2>2. CASE HasKey(events[i], BankKey(id))
    <3>1. id \in DOMAIN entry
      BY <2>2 DEF HasKey, ReconInv, EntriesKnown
    <3> QED
      BY <3>1
  <2>3. CASE i \in P /\ BankKey(id) = K[i]
    BY <2>3
  <2> QED
    BY <2>1, <2>2, <2>3, ForeignKeys
<1>2. ASSUME NEW c \in confirmations
      PROVE  HasKey(events'[c.invoice], OperatorKey(c.key))
  <2>1. c.invoice \in Invoices /\ HasKey(events[c.invoice], OperatorKey(c.key))
    BY DEF ReconInv, ReconTypeOK, ConfirmationsBooked
  <2> QED
    BY <2>1, ForeignKeys
<1> QED
  BY <1>1, <1>2

\* An import writes the decisions and books the payments in one transaction.
LEMMA ReconImport ==
    ASSUME ReconInv, NEW s \in Statements, ImportStatement(s)
    PROVE  ReconInv'
<1> DEFINE paying(i) == {id \in EntriesOf(s) : Decided(id) = [decision |-> "matched", invoice |-> i]}
           P == {i \in Invoices : paying(i) # {}}
           K == [i \in P |-> BankKey(CHOOSE id \in paying(i) : TRUE)]
<1>1. /\ EntriesOf(s) \cap DOMAIN entry = {}
      /\ entry' = [id \in DOMAIN entry \cup EntriesOf(s) |->
                      IF id \in DOMAIN entry THEN entry[id] ELSE Decided(id)]
      /\ events' = [i \in Invoices |->
                      IF paying(i) = {} THEN events[i]
                      ELSE Appended(events[i], Event("paid", "delivered", "paid",
                                                     BankKey(CHOOSE id \in paying(i) : TRUE)))]
      /\ outbox' = outbox \cup {<<"paid", i>> : i \in P}
      /\ UNCHANGED <<job, corrections, registered, mails, proc, confirmations>>
  BY DEF ImportStatement
<1>2. ASSUME NEW i \in P
      PROVE  \E id \in EntriesOf(s) : Decided(id) = Matched(i) /\ K[i] = BankKey(id)
  BY DEF Matched
<1>3. ASSUME NEW i \in P
      PROVE  K[i] \in BookingKeys /\ current_invoice_state(i) = "delivered"
  <2>1. PICK id \in EntriesOf(s) : Decided(id) = Matched(i) /\ K[i] = BankKey(id)
    BY <1>2
  <2>2. current_invoice_state(i) = "delivered"
    BY <2>1, DecidedType DEF Matched
  <2>3. BankKey(id) \in BookingKeys
    BY ReconciliationAssumption DEF EntriesOf
  <2> QED
    BY <2>1, <2>2, <2>3
<1>4. ASSUME NEW i \in Invoices, NEW id \in EntriesOf(s)
      PROVE  Decided(id) = Matched(i) <=> (i \in P /\ K[i] = BankKey(id))
  <2>1. ASSUME Decided(id) = Matched(i)
        PROVE  i \in P /\ K[i] = BankKey(id)
    <3>1. id \in paying(i) /\ i \in P
      BY <2>1 DEF Matched
    <3>2. PICK x \in EntriesOf(s) : Decided(x) = Matched(i) /\ K[i] = BankKey(x)
      BY <1>2, <3>1
    <3>3. x = id
      BY <2>1, <3>2, OnePayingEntry
    <3> QED
      BY <3>1, <3>2, <3>3
  <2>2. ASSUME i \in P, K[i] = BankKey(id)
        PROVE  Decided(id) = Matched(i)
    <3>1. PICK x \in EntriesOf(s) : Decided(x) = Matched(i) /\ K[i] = BankKey(x)
      BY <1>2, <2>2
    <3> QED
      BY <2>2, <3>1, KeysTell
  <2> QED
    BY <2>1, <2>2
<1>5. /\ P \in SUBSET Invoices /\ K \in [P -> BookingKeys]
      /\ events' = [i \in Invoices |->
                       IF i \in P THEN Appended(events[i], Booking(K[i])) ELSE events[i]]
  <2>1. K \in [P -> BookingKeys]
    BY <1>3
  <2>2. \A i \in P : K[i] = BankKey(CHOOSE id \in paying(i) : TRUE)
    OBVIOUS
  <2>3. \A i \in Invoices : i \in P <=> paying(i) # {}
    OBVIOUS
  <2> HIDE DEF P, K, paying
  <2>4. events' = [i \in Invoices |->
                       IF i \in P THEN Appended(events[i], Booking(K[i])) ELSE events[i]]
    BY <1>1, <2>2, <2>3 DEF Booking
  <2> QED
    BY <2>1, <2>4 DEF P
<1> HIDE DEF P, K
<1>6. \A o \in outbox' : o[1] \in EventTypes => o[2] \in Invoices
  <2>1. \A o \in outbox : o[1] \in EventTypes => o[2] \in Invoices
    BY DEF ReconInv, ReconTypeOK, TypeOK
  <2> QED
    BY <1>1, <1>5, <2>1
<1>7. /\ TypeOK' /\ AuditInv' /\ PaidInv' /\ BookingsPay'
      /\ \A i \in Invoices : \A key : key \notin OwnKeys =>
            (HasKey(events'[i], key) <=> HasKey(events[i], key) \/ (i \in P /\ key = K[i]))
  <2>1. \A i \in P : current_invoice_state(i) = "delivered"
    BY <1>3
  <2>2. UNCHANGED <<job, corrections, registered, mails, proc>>
    BY <1>1
  <2> QED
    BY <1>5, <1>6, <2>1, <2>2, BooksPayments
<1>8. DOMAIN entry' = DOMAIN entry \cup EntriesOf(s) /\ confirmations' = confirmations
  BY <1>1
<1>9. \A id \in DOMAIN entry : entry'[id] = entry[id]
  BY <1>1
<1>10. \A id \in EntriesOf(s) : entry'[id] = Decided(id) /\ id \notin DOMAIN entry
  BY <1>1
<1>11. EntriesKnown' /\ ConfirmationsBooked'
  <2>1. \A i \in P : \A id : K[i] = BankKey(id) => id \in DOMAIN entry'
    BY <1>2, <1>8, KeysTell
  <2>2. /\ EntriesKnown'
        /\ \A c \in confirmations : HasKey(events'[c.invoice], OperatorKey(c.key))
    BY <1>5, <1>7, <1>8, <2>1, BookedKeysStand
  <2> QED
    BY <1>8, <2>2 DEF ReconInv, ConfirmationsBooked
<1>12. ReconTypeOK' /\ MatchedInvoicesKnown'
  <2>1. \A id \in EntriesOf(s) :
          /\ id[1] \in Statements /\ id \in EntriesOf(id[1])
          /\ Decided(id) \in [decision : Decisions, invoice : Invoices \cup {NoInvoice}]
          /\ Decided(id).decision = "matched" => Decided(id).invoice \in Invoices
    BY DecidedType DEF EntriesOf
  <2>2. confirmations \subseteq [entry : DOMAIN entry', key : OperatorKeys, invoice : Invoices]
    BY <1>8 DEF ReconInv, ReconTypeOK
  <2> QED
    BY <1>7, <1>8, <1>9, <1>10, <2>1, <2>2 DEF ReconInv, ReconTypeOK, MatchedInvoicesKnown
<1>13. MatchesAreAudited'
  <2> SUFFICES ASSUME NEW id \in DOMAIN entry', NEW i \in Invoices
               PROVE  entry'[id] = Matched(i) <=>
                         \/ HasKey(events'[i], BankKey(id))
                         \/ \E c \in confirmations :
                               c.entry = id /\ c.invoice = i /\ HasKey(events'[i], OperatorKey(c.key))
    BY <1>8 DEF MatchesAreAudited, Matched
  <2>1. \A k : HasKey(events'[i], OperatorKey(k)) <=> HasKey(events[i], OperatorKey(k))
    BY <1>2, <1>7, ForeignKeys, KeysTell
  <2>2. CASE id \in DOMAIN entry
    <3>1. HasKey(events'[i], BankKey(id)) <=> HasKey(events[i], BankKey(id))
      <4>1. i \in P => K[i] # BankKey(id)
        BY <1>2, <1>10, <2>2, KeysTell
      <4> QED
        BY <1>7, <4>1, ForeignKeys
    <3> QED
      BY <1>9, <2>1, <2>2, <3>1 DEF ReconInv, MatchesAreAudited, Matched
  <2>3. CASE id \in EntriesOf(s)
    <3>1. ~HasKey(events[i], BankKey(id))
      BY <1>10, <2>3 DEF HasKey, ReconInv, EntriesKnown
    <3>2. HasKey(events'[i], BankKey(id)) <=> (i \in P /\ K[i] = BankKey(id))
      BY <1>7, <3>1, ForeignKeys
    <3>3. \A c \in confirmations : c.entry # id
      BY <1>10, <2>3 DEF ReconInv, ReconTypeOK
    <3> QED
      BY <1>4, <1>10, <2>3, <3>2, <3>3
  <2> QED
    BY <1>8, <2>2, <2>3
<1> QED
  BY <1>7, <1>11, <1>12, <1>13 DEF ReconInv

\* A confirmation turns an open entry into a match and books its payment.
LEMMA ReconConfirm ==
    ASSUME ReconInv, NEW id \in DOMAIN entry, NEW i \in Invoices, NEW key \in OperatorKeys,
           ConfirmPayment(id, i, key)
    PROVE  ReconInv'
<1> DEFINE P == {i}
           K == [j \in P |-> OperatorKey(key)]
           new == [entry |-> id, key |-> key, invoice |-> i]
<1>1. /\ entry' = [entry EXCEPT ![id] = Matched(i)]
      /\ events' = [events EXCEPT ![i] = Appended(@, Booking(OperatorKey(key)))]
      /\ outbox' = outbox \cup Published(i, Booking(OperatorKey(key)))
                          \cup {<<"payment.match.confirmed", <<i, key>>>>}
      /\ confirmations' = confirmations \cup {new}
      /\ UNCHANGED <<job, corrections, registered, mails, proc>>
      /\ entry[id].decision # "matched"
  BY DEF ConfirmPayment, Matched, Booking
<1>2. current_invoice_state(i) = "delivered"
  <2>1. PaymentOf(id) \in Payments
    <3>1. id[1] \in Statements /\ id \in EntriesOf(id[1])
      BY DEF ReconInv, ReconTypeOK
    <3> QED
      BY <3>1, ReconciliationAssumption DEF PaymentOf, EntriesOf
  <2>2. Gross[i] \in Nat
    BY ReconciliationAssumption
  <2> QED
    BY <2>1, <2>2 DEF ConfirmPayment, payment_eligibility, Payments
<1>3. events \in [Invoices -> Seq(Events)]
  BY DEF ReconInv, ReconTypeOK, TypeOK
<1>4. /\ P \in SUBSET Invoices /\ K \in [P -> BookingKeys] /\ K[i] = OperatorKey(key)
      /\ events' = [j \in Invoices |->
                       IF j \in P THEN Appended(events[j], Booking(K[j])) ELSE events[j]]
  BY <1>1, <1>3, ReconciliationAssumption
<1>5. \A o \in outbox' : o[1] \in EventTypes => o[2] \in Invoices
  <2>1. \A o \in outbox : o[1] \in EventTypes => o[2] \in Invoices
    BY DEF ReconInv, ReconTypeOK, TypeOK
  <2>2. \A o \in Published(i, Booking(OperatorKey(key))) : o[2] = i
    BY DEF Published
  <2> QED
    BY <1>1, <2>1, <2>2 DEF EventTypes
<1> HIDE DEF K
<1>6. /\ TypeOK' /\ AuditInv' /\ PaidInv' /\ BookingsPay'
      /\ \A k \in DOMAIN events[i] : events[i][k].key \in OwnKeys
      /\ \A j \in Invoices : \A k : k \notin OwnKeys =>
            (HasKey(events'[j], k) <=> HasKey(events[j], k) \/ (j \in P /\ k = K[j]))
  <2>1. \A j \in P : current_invoice_state(j) = "delivered"
    BY <1>2
  <2>2. UNCHANGED <<job, corrections, registered, mails, proc>>
    BY <1>1
  <2> QED
    BY <1>4, <1>5, <2>1, <2>2, BooksPayments
<1>7. \A k : k \notin OwnKeys => ~HasKey(events[i], k)
  BY <1>6 DEF HasKey
<1>8. DOMAIN entry' = DOMAIN entry /\ entry'[id] = Matched(i)
      /\ \A x \in DOMAIN entry : x # id => entry'[x] = entry[x]
  BY <1>1
<1>9. EntriesKnown' /\ \A c \in confirmations : HasKey(events'[c.invoice], OperatorKey(c.key))
  <2>1. \A j \in P : \A x : K[j] = BankKey(x) => x \in DOMAIN entry'
    BY <1>4, KeysTell
  <2> QED
    BY <1>4, <1>6, <1>8, <2>1, BookedKeysStand
<1>10. HasKey(events'[i], OperatorKey(key))
  BY <1>4, <1>6, ForeignKeys
<1>11. \A c \in confirmations : ~(c.key = key /\ c.invoice = i)
  BY <1>7, ForeignKeys DEF ReconInv, ConfirmationsBooked
<1>12. ConfirmationsBooked'
  <2>1. \A c \in confirmations' : HasKey(events'[c.invoice], OperatorKey(c.key))
    BY <1>1, <1>9, <1>10
  <2>2. \A c, d \in confirmations' : c.key = d.key /\ c.invoice = d.invoice => c = d
    BY <1>1, <1>11 DEF ReconInv, ConfirmationsBooked
  <2> QED
    BY <2>1, <2>2 DEF ConfirmationsBooked
<1>13. ReconTypeOK' /\ MatchedInvoicesKnown'
  <2>1. Matched(i) \in [decision : Decisions, invoice : Invoices \cup {NoInvoice}]
    BY DEF Matched, Decisions
  <2>2. confirmations' \subseteq [entry : DOMAIN entry', key : OperatorKeys, invoice : Invoices]
    BY <1>1, <1>8 DEF ReconInv, ReconTypeOK
  <2>3. Matched(i).invoice = i
    BY DEF Matched
  <2> QED
    BY <1>6, <1>8, <2>1, <2>2, <2>3 DEF ReconInv, ReconTypeOK, MatchedInvoicesKnown
<1>14. MatchesAreAudited'
  <2> SUFFICES ASSUME NEW x \in DOMAIN entry', NEW j \in Invoices
               PROVE  entry'[x] = Matched(j) <=>
                         \/ HasKey(events'[j], BankKey(x))
                         \/ \E c \in confirmations' :
                               c.entry = x /\ c.invoice = j /\ HasKey(events'[j], OperatorKey(c.key))
    BY DEF MatchesAreAudited, Matched
  <2>1. HasKey(events'[j], BankKey(x)) <=> HasKey(events[j], BankKey(x))
    BY <1>4, <1>6, ForeignKeys, KeysTell
  <2>2. \A c \in confirmations : HasKey(events[c.invoice], OperatorKey(c.key))
    BY DEF ReconInv, ConfirmationsBooked
  <2>3. x \in DOMAIN entry
    BY <1>8
  <2>4. entry[x] = Matched(j) <=>
           \/ HasKey(events[j], BankKey(x))
           \/ \E c \in confirmations : c.entry = x /\ c.invoice = j /\ HasKey(events[j], OperatorKey(c.key))
    BY <2>3 DEF ReconInv, MatchesAreAudited, Matched
  <2>5. CASE x = id
    <3>1. entry[id] # Matched(j)
      BY <1>1 DEF Matched
    <3>2. ~HasKey(events'[j], BankKey(x)) /\ \A c \in confirmations : ~(c.entry = x /\ c.invoice = j)
      BY <2>1, <2>2, <2>4, <2>5, <3>1
    <3>3. entry'[x] = Matched(j) <=> i = j
      <4>1. Matched(i).invoice = i /\ Matched(j).invoice = j
        BY DEF Matched
      <4> QED
        BY <1>8, <2>5, <4>1
    <3>4. (\E c \in confirmations' :
              c.entry = x /\ c.invoice = j /\ HasKey(events'[j], OperatorKey(c.key))) <=> i = j
      <4>1. new \in confirmations' /\ new.entry = id /\ new.key = key /\ new.invoice = i
        BY <1>1
      <4>2. \A c \in confirmations' : c \in confirmations \/ c = new
        BY <1>1
      <4> HIDE DEF new
      <4>3. ASSUME i = j
            PROVE  new.entry = x /\ new.invoice = j /\ HasKey(events'[j], OperatorKey(new.key))
        BY <1>10, <2>5, <4>1, <4>3
      <4> QED
        BY <2>5, <3>2, <4>1, <4>2, <4>3
    <3> QED
      BY <3>2, <3>3, <3>4
  <2>6. CASE x # id
    <3>1. \A c \in confirmations' : c.entry = x => c \in confirmations
      BY <1>1, <2>6
    <3>2. \A c \in confirmations : c.invoice = j =>
              HasKey(events'[j], OperatorKey(c.key)) /\ HasKey(events[j], OperatorKey(c.key))
      BY <1>9, <2>2
    <3>3. (\E c \in confirmations' :
              c.entry = x /\ c.invoice = j /\ HasKey(events'[j], OperatorKey(c.key)))
          <=> \E c \in confirmations :
                 c.entry = x /\ c.invoice = j /\ HasKey(events[j], OperatorKey(c.key))
      BY <1>1, <3>1, <3>2
    <3> QED
      BY <1>8, <2>1, <2>3, <2>4, <2>6, <3>3
  <2> QED
    BY <2>5, <2>6
<1> QED
  BY <1>6, <1>9, <1>12, <1>13, <1>14 DEF ReconInv

\* No entry and no payment to begin with.
LEMMA ReconStart == ReconInit => ReconInv
<1> SUFFICES ASSUME ReconInit
             PROVE  ReconInv
  OBVIOUS
<1>1. Init /\ entry = <<>> /\ confirmations = {} /\ DOMAIN entry = {}
  BY DEF ReconInit
<1>2. TypeOK /\ AuditInv /\ PaidInv
  BY <1>1, TypeInit, AuditInit, PaidInit
<1>3. BookingsPay /\ EntriesKnown
  BY <1>1 DEF Init, BookingsPay, EntriesKnown
<1> QED
  BY <1>1, <1>2, <1>3 DEF ReconInv, ReconTypeOK, ConfirmationsBooked, MatchedInvoicesKnown,
       MatchesAreAudited

\* Every step keeps ReconInv.
LEMMA ReconStep ==
    ASSUME ReconInv, [ReconNext]_reconVars
    PROVE  ReconInv'
<1>1. CASE Next /\ UNCHANGED bankVars
  BY <1>1, ReconOwnStep
<1>2. CASE UNCHANGED reconVars
  BY <1>2, ReconOwnStep DEF reconVars, bankVars
<1>3. ASSUME NEW s \in Statements, ImportStatement(s)
      PROVE  ReconInv'
  BY <1>3, ReconImport
<1>4. ASSUME NEW id \in DOMAIN entry, NEW i \in Invoices, NEW key \in OperatorKeys,
             ConfirmPayment(id, i, key)
      PROVE  ReconInv'
  BY <1>4, ReconConfirm
<1> QED
  BY <1>1, <1>2, <1>3, <1>4 DEF ReconNext

\* No invoice is paid by two bank entries, and an entry is matched to an invoice
\* exactly when the invoice's trail holds its payment, whichever statements are
\* imported and confirmed beside every other request (store/billing.py
\* reconcile_bank_statement, confirm_payment).
THEOREM MatchesStandHolds == ReconSpec => []MatchesStand
<1>1. ReconSpec => []ReconInv
  BY ReconStart, ReconStep, PTL DEF ReconSpec
<1> QED
  BY <1>1, MatchesPayOnce, PTL

-----------------------------------------------------------------------------
(* Questions about an invoice.                                             *)

\* What a job or a correction holds in hand is about cases that were opened, and
\* a case that was opened stays opened.
InHandAreOpened ==
    /\ \A p \in Crons : \A c \in DOMAIN listed[p] : status[c] # "none"
    /\ \A i \in Disputed : \A c \in DOMAIN correction[i].seen : status[c] # "none"

\* The inductive invariant behind HistoryLeadsToStatus and RemindedOnce.
QueryInv == QueryTypeOK /\ HistoryLeadsToStatus /\ RemindedOnce /\ InHandAreOpened

\* A partial map is a function on some of the keys.
LEMMA MapIn ==
    ASSUME NEW S, NEW T, NEW f
    PROVE  f \in Maps(S, T) <=> f \in [DOMAIN f -> T] /\ DOMAIN f \subseteq S
BY DEF Maps

\* A table of tables keeps its type when a cell does.
LEMMA CellPut ==
    ASSUME NEW S, NEW T, NEW V, NEW f \in [S -> [T -> V]], NEW s \in S, NEW t \in T, NEW v \in V
    PROVE  [f EXCEPT ![s][t] = v] \in [S -> [T -> V]]
<1> DEFINE row == [f[s] EXCEPT ![t] = v]
<1>1. f[s] \in [T -> V]
  OBVIOUS
<1>2. row \in [T -> V]
  BY <1>1
<1>3. [f EXCEPT ![s][t] = v] = [f EXCEPT ![s] = row]
  OBVIOUS
<1> HIDE DEF row
<1> QED
  BY <1>2, <1>3

\* The empty list is the empty map.
LEMMA EmptyMap ==
    ASSUME NEW S, NEW T
    PROVE  << >> \in Maps(S, T) /\ DOMAIN << >> = {}
<1>1. << >> \in Seq(T) /\ Len(<< >>) = 0
  OBVIOUS
<1>2. << >> \in [1 .. 0 -> T]
  BY <1>1, LenProperties
<1>3. 1 .. 0 = {}
  OBVIOUS
<1> QED
  BY <1>2, <1>3 DEF Maps

\* An entry appended to a history takes the next place and leaves the others.
LEMMA Entered ==
    ASSUME NEW c \in Cases, queryEvents[c] \in Seq(QueryEvent), NEW e \in QueryEvent,
           queryEvents'[c] = Append(queryEvents[c], e)
    PROVE  /\ queryEvents'[c] \in Seq(QueryEvent) /\ Len(queryEvents'[c]) = Len(queryEvents[c]) + 1
           /\ queryEvents'[c] # << >>
           /\ DOMAIN queryEvents[c] = 1 .. Len(queryEvents[c]) /\ Len(queryEvents[c]) \in Nat
           /\ DOMAIN queryEvents'[c] = 1 .. Len(queryEvents[c]) + 1
           /\ \A n \in DOMAIN queryEvents[c] : queryEvents'[c][n] = queryEvents[c][n]
           /\ queryEvents'[c][Len(queryEvents[c]) + 1] = e
           /\ \A kinds : PlacesOf(c, kinds)' =
                  PlacesOf(c, kinds) \cup (IF e.kind \in kinds THEN {Len(queryEvents[c]) + 1} ELSE {})
<1> DEFINE h == queryEvents[c]
<1>1. /\ queryEvents'[c] \in Seq(QueryEvent) /\ Len(queryEvents'[c]) = Len(h) + 1
      /\ queryEvents'[c] # << >>
      /\ \A n \in 1 .. Len(h) : queryEvents'[c][n] = h[n]
      /\ queryEvents'[c][Len(h) + 1] = e
  BY AppendProperties
<1>2. DOMAIN h = 1 .. Len(h) /\ Len(h) \in Nat /\ DOMAIN queryEvents'[c] = 1 .. Len(h) + 1
  BY <1>1, LenProperties
<1>3. ASSUME NEW kinds
      PROVE  PlacesOf(c, kinds)' =
                 PlacesOf(c, kinds) \cup (IF e.kind \in kinds THEN {Len(h) + 1} ELSE {})
  <2>1. \A n \in 1 .. Len(h) + 1 : n \in 1 .. Len(h) \/ n = Len(h) + 1
    BY <1>2
  <2>2. \A n \in 1 .. Len(h) : n \in 1 .. Len(h) + 1
    BY <1>2
  <2>3. Len(h) + 1 \in 1 .. Len(h) + 1
    BY <1>2
  <2> HIDE DEF h
  <2>4. PlacesOf(c, kinds)' = {n \in 1 .. Len(h) + 1 : queryEvents'[c][n].kind \in kinds}
    BY <1>2 DEF PlacesOf
  <2>5. PlacesOf(c, kinds) = {n \in 1 .. Len(h) : h[n].kind \in kinds}
    BY <1>2 DEF PlacesOf, h
  <2> QED
    BY <1>1, <2>1, <2>2, <2>3, <2>4, <2>5
<1> QED
  BY <1>1, <1>2, <1>3

\* What led to a status before the last entry still does.
LEMMA LeadsToBefore ==
    ASSUME NEW c \in Cases, queryEvents[c] \in Seq(QueryEvent), NEW e \in QueryEvent,
           queryEvents'[c] = Append(queryEvents[c], e),
           NEW n \in 1 .. Len(queryEvents[c]) + 1, NEW s, LeadsTo(c, n, s)
    PROVE  LeadsTo(c, n, s)'
<1> DEFINE last == Len(queryEvents[c]) + 1
<1>1. /\ DOMAIN queryEvents[c] = 1 .. Len(queryEvents[c]) /\ Len(queryEvents[c]) \in Nat
      /\ \A m \in DOMAIN queryEvents[c] : queryEvents'[c][m] = queryEvents[c][m]
      /\ Steps(c)' \subseteq Steps(c) \cup {last} /\ Steps(c) \subseteq Steps(c)'
  BY Entered DEF Steps
<1>2. n <= last /\ Steps(c) \subseteq DOMAIN queryEvents[c]
  BY <1>1 DEF Steps, PlacesOf
<1>3. CASE s = "none" /\ \A m \in Steps(c) : m >= n
  <2>1. \A m \in Steps(c)' : m >= n
    BY <1>1, <1>2, <1>3
  <2> QED
    BY <1>3, <2>1 DEF LeadsTo
<1>4. ASSUME NEW m \in Steps(c), m < n, queryEvents[c][m].to = s,
             \A k \in Steps(c) : k <= m \/ k >= n
      PROVE  LeadsTo(c, n, s)'
  <2>1. m \in Steps(c)' /\ queryEvents'[c][m].to = s
    BY <1>1, <1>2, <1>4
  <2>2. \A k \in Steps(c)' : k <= m \/ k >= n
    BY <1>1, <1>2, <1>4
  <2> QED
    BY <1>4, <2>1, <2>2 DEF LeadsTo
<1> QED
  BY <1>3, <1>4 DEF LeadsTo

\* A step entered from the present status leads to the next one; a note leaves
\* it as it is.
LEMMA EntryLeads ==
    ASSUME NEW c \in Cases, queryEvents[c] \in Seq(QueryEvent), NEW e \in QueryEvent,
           queryEvents'[c] = Append(queryEvents[c], e), HistoryLeadsToStatus!(c), status'[c] # "none",
           \/ e.kind \in {"status", "reminder"} /\ e.from = status[c] /\ e.to = status'[c]
           \/ e.kind = "link" /\ status'[c] = status[c]
    PROVE  HistoryLeadsToStatus!(c)'
<1>0. PICK last : last = Len(queryEvents[c]) + 1
  OBVIOUS
<1>1. /\ DOMAIN queryEvents[c] = 1 .. Len(queryEvents[c]) /\ Len(queryEvents[c]) \in Nat
      /\ Len(queryEvents'[c]) = last
      /\ \A n \in DOMAIN queryEvents[c] : queryEvents'[c][n] = queryEvents[c][n]
      /\ queryEvents'[c][last] = e
      /\ Steps(c)' = Steps(c) \cup (IF e.kind \in {"status", "reminder"} THEN {last} ELSE {})
  BY <1>0, Entered DEF Steps
<1>2. Steps(c) \subseteq 1 .. Len(queryEvents[c])
  BY <1>1 DEF Steps, PlacesOf
<1>3. ASSUME NEW n \in 1 .. last, NEW s, LeadsTo(c, n, s)
      PROVE  LeadsTo(c, n, s)'
  BY <1>0, <1>3, LeadsToBefore
<1>4. PICK now : now = status[c]
  OBVIOUS
<1>5. LeadsTo(c, last, now) /\ last \in 1 .. last
  BY <1>0, <1>1, <1>4
<1>6. LeadsTo(c, last, now)'
  BY <1>3, <1>5
<1>7. \A n \in Steps(c) : LeadsTo(c, n, queryEvents[c][n].from)'
  <2> SUFFICES ASSUME NEW n \in Steps(c)
               PROVE  LeadsTo(c, n, queryEvents[c][n].from)'
    OBVIOUS
  <2>1. PICK s : s = queryEvents[c][n].from
    OBVIOUS
  <2>2. n \in 1 .. last /\ s = queryEvents'[c][n].from
    BY <1>0, <1>1, <1>2, <2>1
  <2>3. LeadsTo(c, n, s)'
    BY <1>3, <2>1, <2>2
  <2> QED
    BY <2>2, <2>3 DEF LeadsTo
<1>8. CASE e.kind \in {"status", "reminder"} /\ e.from = status[c] /\ e.to = status'[c]
  <2>1. Steps(c)' = Steps(c) \cup {last}
    BY <1>1, <1>8
  <2>2. LeadsTo(c, last, queryEvents[c][last].from)'
    <3>1. now = queryEvents'[c][last].from
      BY <1>1, <1>4, <1>8
    <3> QED
      BY <1>6, <3>1 DEF LeadsTo
  <2>3. \A n \in Steps(c)' : LeadsTo(c, n, queryEvents[c][n].from)'
    BY <1>7, <2>1, <2>2
  <2>4. LeadsTo(c, Len(queryEvents[c]) + 1, status[c])'
    <3>1. last \in Steps(c)' /\ last < Len(queryEvents'[c]) + 1 /\ queryEvents'[c][last].to = status'[c]
      BY <1>1, <1>8, <2>1
    <3>2. \A k \in Steps(c)' : k <= last
      BY <1>1, <1>2, <2>1
    <3> QED
      BY <3>1, <3>2 DEF LeadsTo
  <2> QED
    BY <2>3, <2>4
<1>9. CASE e.kind = "link" /\ status'[c] = status[c]
  <2>1. Steps(c)' = Steps(c)
    BY <1>1, <1>9
  <2>2. \A n \in Steps(c)' : LeadsTo(c, n, queryEvents[c][n].from)'
    BY <1>7, <2>1
  <2>3. now # "none"
    BY <1>4, <1>9
  <2>4. PICK m \in Steps(c)' : m < last /\ queryEvents'[c][m].to = now /\ \A k \in Steps(c)' : k <= m \/ k >= last
    BY <1>6, <2>3 DEF LeadsTo
  <2>5. LeadsTo(c, Len(queryEvents[c]) + 1, status[c])'
    <3>1. m < Len(queryEvents'[c]) + 1 /\ queryEvents'[c][m].to = status'[c]
      BY <1>1, <1>2, <1>4, <1>9, <2>1, <2>4
    <3>2. \A k \in Steps(c)' : k <= m
      BY <1>1, <1>2, <2>1, <2>4
    <3> QED
      BY <3>1, <3>2 DEF LeadsTo
  <2> QED
    BY <2>2, <2>5
<1> QED
  BY <1>8, <1>9

\* Nothing entered, and the status stands.
LEMMA HistoryStays ==
    ASSUME NEW c \in Cases, HistoryLeadsToStatus!(c), RemindedOnce!(c),
           queryEvents'[c] = queryEvents[c], status'[c] = status[c], reminded'[c] = reminded[c]
    PROVE  HistoryLeadsToStatus!(c)' /\ RemindedOnce!(c)'
BY DEF LeadsTo, Steps, PlacesOf

\* A reminder is entered with its mark, anything else leaves both.
LEMMA EntryReminds ==
    ASSUME NEW c \in Cases, queryEvents[c] \in Seq(QueryEvent), NEW e \in QueryEvent,
           queryEvents'[c] = Append(queryEvents[c], e), RemindedOnce!(c),
           \/ e.kind # "reminder" /\ reminded'[c] = reminded[c]
           \/ e.kind = "reminder" /\ ~reminded[c] /\ reminded'[c]
    PROVE  RemindedOnce!(c)'
<1> DEFINE last == Len(queryEvents[c]) + 1
<1>1. /\ last \in DOMAIN queryEvents'[c]
      /\ DOMAIN queryEvents[c] \subseteq DOMAIN queryEvents'[c]
      /\ PlacesOf(c, {"reminder"})' =
             PlacesOf(c, {"reminder"}) \cup (IF e.kind \in {"reminder"} THEN {last} ELSE {})
  BY Entered
<1>2. CASE e.kind # "reminder" /\ reminded'[c] = reminded[c]
  <2>1. PlacesOf(c, {"reminder"})' = PlacesOf(c, {"reminder"})
    BY <1>1, <1>2
  <2> QED
    BY <1>1, <1>2, <2>1
<1>3. CASE e.kind = "reminder" /\ ~reminded[c] /\ reminded'[c]
  <2>1. PlacesOf(c, {"reminder"})' = {last}
    BY <1>1, <1>3
  <2> QED
    BY <1>1, <1>3, <2>1
<1> QED
  BY <1>2, <1>3

\* Nothing is entered in any history.
LEMMA NoEntry ==
    ASSUME QueryInv, UNCHANGED <<queryEvents, status, reminded>>
    PROVE  HistoryLeadsToStatus' /\ RemindedOnce'
BY HistoryStays DEF QueryInv, HistoryLeadsToStatus, RemindedOnce

\* An entry in the history of one case.
LEMMA OneEntry ==
    ASSUME QueryInv, NEW c \in Cases, NEW e \in QueryEvent,
           queryEvents' = [queryEvents EXCEPT ![c] = Append(@, e)],
           \A d \in Cases \ {c} : status'[d] = status[d] /\ reminded'[d] = reminded[d],
           status'[c] # "none",
           \/ e.kind \in {"status", "reminder"} /\ e.from = status[c] /\ e.to = status'[c]
           \/ e.kind = "link" /\ status'[c] = status[c],
           \/ e.kind # "reminder" /\ reminded'[c] = reminded[c]
           \/ e.kind = "reminder" /\ ~reminded[c] /\ reminded'[c]
    PROVE  /\ queryEvents' \in [Cases -> Seq(QueryEvent)]
           /\ HistoryLeadsToStatus' /\ RemindedOnce'
<1>1. queryEvents \in [Cases -> Seq(QueryEvent)]
  BY DEF QueryInv, QueryTypeOK
<1>2. /\ queryEvents'[c] = Append(queryEvents[c], e) /\ queryEvents[c] \in Seq(QueryEvent)
      /\ \A d \in Cases \ {c} : queryEvents'[d] = queryEvents[d]
  BY <1>1
<1>3. queryEvents' \in [Cases -> Seq(QueryEvent)]
  BY <1>1, <1>2, AppendProperties
<1>4. HistoryLeadsToStatus!(c) /\ RemindedOnce!(c)
  BY DEF QueryInv, HistoryLeadsToStatus, RemindedOnce
<1>5. HistoryLeadsToStatus!(c)' /\ RemindedOnce!(c)'
  BY <1>2, <1>4, EntryLeads, EntryReminds
<1>6. ASSUME NEW d \in Cases \ {c}
      PROVE  HistoryLeadsToStatus!(d)' /\ RemindedOnce!(d)'
  <2>1. HistoryLeadsToStatus!(d) /\ RemindedOnce!(d)
    BY DEF QueryInv, HistoryLeadsToStatus, RemindedOnce
  <2> QED
    BY <1>2, <2>1, HistoryStays
<1>7. \A d \in Cases : d = c \/ d \in Cases \ {c}
  OBVIOUS
<1> QED
  BY <1>3, <1>5, <1>6, <1>7 DEF HistoryLeadsToStatus, RemindedOnce

\* A message more in a case.
LEMMA MessageCounted ==
    ASSUME QueryInv, NEW c \in Cases, NEW a \in AnswerKeys \cup {Unkeyed},
           messages' = [messages EXCEPT ![c][a] = @ + 1]
    PROVE  messages' \in [Cases -> [AnswerKeys \cup {Unkeyed} -> Nat]]
<1>1. messages \in [Cases -> [AnswerKeys \cup {Unkeyed} -> Nat]]
  BY DEF QueryInv, QueryTypeOK
<1>2. messages[c] \in [AnswerKeys \cup {Unkeyed} -> Nat]
  BY <1>1
<1>3. messages[c][a] + 1 \in Nat
  BY <1>2
<1>4. messages' = [messages EXCEPT ![c][a] = messages[c][a] + 1]
  BY <1>1
<1>5. PICK n \in Nat : n = messages[c][a] + 1
  BY <1>3
<1>6. [messages EXCEPT ![c][a] = n] \in [Cases -> [AnswerKeys \cup {Unkeyed} -> Nat]]
  BY <1>1, CellPut
<1> QED
  BY <1>4, <1>5, <1>6

\* Who opens a case enters its first step.
LEMMA OpenStep ==
    ASSUME QueryInv, NEW c \in Cases, open_invoice_query(c)
    PROVE  QueryInv'
<1>1. /\ status[c] = "none" /\ status' = [status EXCEPT ![c] = "open"]
      /\ messages' = [messages EXCEPT ![c][Unkeyed] = @ + 1]
      /\ UNCHANGED <<due, reminded, answers, queryOutbox, queryRegistered, correction, listed, aborts>>
  BY DEF open_invoice_query, Append_message
<1> DEFINE e == [kind |-> "status", from |-> "none", to |-> "open"]
<1>2. queryEvents' = [queryEvents EXCEPT ![c] = Append(@, e)] /\ e \in QueryEvent
  BY DEF open_invoice_query, Append_event, QueryEvent, Status, Live
<1>3. /\ status' \in [Cases -> Status] /\ status'[c] = "open"
      /\ \A d \in Cases \ {c} : status'[d] = status[d]
  BY <1>1 DEF QueryInv, QueryTypeOK, Status, Live
<1>4. queryEvents' \in [Cases -> Seq(QueryEvent)] /\ HistoryLeadsToStatus' /\ RemindedOnce'
  <2>1. e.kind = "status" /\ e.from = status[c] /\ e.to = status'[c]
    BY <1>1, <1>3
  <2> HIDE DEF e
  <2> QED
    BY <1>1, <1>2, <1>3, <2>1, OneEntry
<1>5. messages' \in [Cases -> [AnswerKeys \cup {Unkeyed} -> Nat]]
  BY <1>1, MessageCounted
<1>6. QueryTypeOK'
  BY <1>1, <1>3, <1>4, <1>5 DEF QueryInv, QueryTypeOK
<1>7. InHandAreOpened'
  BY <1>1, <1>3, MapIn DEF QueryInv, QueryTypeOK, InHandAreOpened
<1> QED
  BY <1>4, <1>6, <1>7 DEF QueryInv

\* Who changes the status of a case enters the step under its lock.
LEMMA ChangeKeeps ==
    ASSUME QueryInv, NEW c \in Cases, NEW to \in Status, ChangeStatus(c, to),
           UNCHANGED <<reminded, correction, listed>>
    PROVE  /\ status' \in [Cases -> Status] /\ queryEvents' \in [Cases -> Seq(QueryEvent)]
           /\ \A o \in queryOutbox' : o.case \in Cases /\ o.status \in Status
           /\ to \in {"acknowledged", "resolved"}
           /\ HistoryLeadsToStatus' /\ RemindedOnce' /\ InHandAreOpened'
<1>1. status[c] \in Status /\ status \in [Cases -> Status]
  BY DEF QueryInv, QueryTypeOK
<1>2. to \in {"acknowledged", "resolved"} /\ status' = [status EXCEPT ![c] = to]
  BY DEF ChangeStatus, Transitions
<1> DEFINE e == [kind |-> "status", from |-> status[c], to |-> to]
<1>3. queryEvents' = [queryEvents EXCEPT ![c] = Append(@, e)] /\ e \in QueryEvent
  BY <1>1 DEF ChangeStatus, Append_event, QueryEvent
<1>4. /\ status' \in [Cases -> Status] /\ status'[c] = to
      /\ \A d \in Cases \ {c} : status'[d] = status[d]
  BY <1>1, <1>2
<1>5. queryEvents' \in [Cases -> Seq(QueryEvent)] /\ HistoryLeadsToStatus' /\ RemindedOnce'
  <2>1. e.kind = "status" /\ e.from = status[c] /\ e.to = status'[c]
    BY <1>4
  <2> HIDE DEF e
  <2> QED
    BY <1>2, <1>3, <1>4, <2>1, OneEntry
<1>6. \A o \in queryOutbox' : o.case \in Cases /\ o.status \in Status
  BY DEF ChangeStatus, enqueue_event, QueryInv, QueryTypeOK
<1>7. InHandAreOpened'
  BY <1>2, <1>4, MapIn DEF QueryInv, QueryTypeOK, InHandAreOpened
<1> QED
  BY <1>2, <1>4, <1>5, <1>6, <1>7

\* A reply, a status, or both, from a member, the dashboard or a client.
LEMMA ReplyStep ==
    ASSUME QueryInv, NEW c \in Cases,
           \/ add_invoice_query_message(c) \/ update_invoice_query(c)
           \/ \E k \in AnswerKeys : respond_operator_invoice_case(c, k)
    PROVE  QueryInv'
<1>1. UNCHANGED <<due, reminded, queryRegistered, correction, listed, aborts>>
  BY DEF add_invoice_query_message, update_invoice_query, respond_operator_invoice_case
<1>2. \/ UNCHANGED messages
      \/ \E a \in AnswerKeys \cup {Unkeyed} : messages' = [messages EXCEPT ![c][a] = @ + 1]
  BY DEF add_invoice_query_message, update_invoice_query, respond_operator_invoice_case, Append_message
<1>3. messages' \in [Cases -> [AnswerKeys \cup {Unkeyed} -> Nat]]
  BY <1>2, MessageCounted DEF QueryInv, QueryTypeOK
<1>4. CASE UNCHANGED <<status, queryEvents, queryOutbox, answers>>
  <2>1. HistoryLeadsToStatus' /\ RemindedOnce'
    BY <1>1, <1>4, NoEntry
  <2> QED
    BY <1>1, <1>3, <1>4, <2>1 DEF QueryInv, QueryTypeOK, InHandAreOpened
<1>5. ASSUME NEW to \in Status, ChangeStatus(c, to),
             \/ UNCHANGED answers
             \/ \E k \in AnswerKeys : answers' = [answers EXCEPT ![c][k] = [to |-> to]]
      PROVE  QueryInv'
  <2>1. /\ status' \in [Cases -> Status] /\ queryEvents' \in [Cases -> Seq(QueryEvent)]
        /\ \A o \in queryOutbox' : o.case \in Cases /\ o.status \in Status
        /\ to \in {"acknowledged", "resolved"}
        /\ HistoryLeadsToStatus' /\ RemindedOnce' /\ InHandAreOpened'
    BY <1>1, <1>5, ChangeKeeps
  <2>2. answers' \in [Cases -> [AnswerKeys -> [to : {"none", "acknowledged", "resolved"}]]]
    <3>1. answers \in [Cases -> [AnswerKeys -> [to : {"none", "acknowledged", "resolved"}]]]
      BY DEF QueryInv, QueryTypeOK
    <3>2. [to |-> to] \in [to : {"none", "acknowledged", "resolved"}]
      BY <2>1
    <3>3. ASSUME NEW k \in AnswerKeys
          PROVE  [answers EXCEPT ![c][k] = [to |-> to]]
                     \in [Cases -> [AnswerKeys -> [to : {"none", "acknowledged", "resolved"}]]]
      BY <3>1, <3>2, CellPut
    <3> QED
      BY <1>5, <3>1, <3>3
  <2> QED
    BY <1>1, <1>3, <2>1, <2>2 DEF QueryInv, QueryTypeOK
<1>6. \/ UNCHANGED <<status, queryEvents, queryOutbox, answers>>
      \/ \E to \in Status :
            /\ ChangeStatus(c, to)
            /\ \/ UNCHANGED answers
               \/ \E k \in AnswerKeys : answers' = [answers EXCEPT ![c][k] = [to |-> to]]
  BY DEF add_invoice_query_message, update_invoice_query, respond_operator_invoice_case
<1> QED
  BY <1>4, <1>5, <1>6

\* Jobs start and die, corrections read, and time and the household move on:
\* no history changes.
LEMMA QuietStep ==
    ASSUME QueryInv,
           \/ \E c \in Cases : BecomeDue(c)
           \/ \E p \in Crons : due_invoice_query_reminders(p) \/ AbortReminders(p)
           \/ \E i \in Disputed : ReadLinkage(i) \/ ChangeRegistration(i)
           \/ UNCHANGED queryVars
    PROVE  QueryInv'
<1>1. UNCHANGED <<status, reminded, queryEvents, messages, answers, queryOutbox>>
  BY DEF BecomeDue, due_invoice_query_reminders, AbortReminders, ReadLinkage, ChangeRegistration, queryVars
<1>2. HistoryLeadsToStatus' /\ RemindedOnce'
  BY <1>1, NoEntry
<1>3. CASE (\E c \in Cases : BecomeDue(c)) \/ UNCHANGED queryVars
  BY <1>1, <1>2, <1>3 DEF BecomeDue, queryVars, QueryInv, QueryTypeOK, InHandAreOpened
<1>4. ASSUME NEW p \in Crons, due_invoice_query_reminders(p)
      PROVE  QueryInv'
  <2> DEFINE list == [c \in DueCases |-> status[c]]
  <2>1. /\ list \in Maps(Cases, Live) /\ DOMAIN list = DueCases
        /\ \A c \in DueCases : status[c] # "none"
    BY MapIn DEF DueCases, Live
  <2>2. listed' = [listed EXCEPT ![p] = list]
        /\ UNCHANGED <<due, queryRegistered, correction, aborts>>
    BY <1>4 DEF due_invoice_query_reminders
  <2> HIDE DEF list
  <2> QED
    BY <1>1, <1>2, <2>1, <2>2 DEF QueryInv, QueryTypeOK, InHandAreOpened
<1>5. ASSUME NEW p \in Crons, AbortReminders(p)
      PROVE  QueryInv'
  <2>1. << >> \in Maps(Cases, Live) /\ DOMAIN << >> = {}
    BY EmptyMap
  <2>2. aborts' \in 0 .. MaxAborts
    BY <1>5, QueriesAssumption DEF AbortReminders, QueryInv, QueryTypeOK
  <2> QED
    BY <1>1, <1>2, <1>5, <2>1, <2>2 DEF AbortReminders, QueryInv, QueryTypeOK, InHandAreOpened
<1>6. ASSUME NEW i \in Disputed, ReadLinkage(i)
      PROVE  QueryInv'
  <2> DEFINE list == [c \in LiveCases(i) |-> status[c]]
  <2>1. /\ list \in Maps(Cases, Live) /\ DOMAIN list = LiveCases(i)
        /\ \A c \in LiveCases(i) : status[c] # "none"
    BY MapIn DEF LiveCases, Live
  <2>2. correction' = [correction EXCEPT ![i] = [at |-> "writing", seen |-> list]]
        /\ UNCHANGED <<due, queryRegistered, listed, aborts>>
    BY <1>6 DEF ReadLinkage
  <2> HIDE DEF list
  <2> QED
    BY <1>1, <1>2, <2>1, <2>2 DEF QueryInv, QueryTypeOK, InHandAreOpened
<1>7. ASSUME NEW i \in Disputed, ChangeRegistration(i)
      PROVE  QueryInv'
  BY <1>1, <1>2, <1>7 DEF ChangeRegistration, QueryInv, QueryTypeOK, InHandAreOpened
<1> QED
  BY <1>3, <1>4, <1>5, <1>6, <1>7

\* Of the jobs that listed a case one marks it, and enters the reminder.
LEMMA RemindStep ==
    ASSUME QueryInv, NEW p \in Crons, mark_invoice_query_reminded(p)
    PROVE  QueryInv'
<1>1. PICK c \in DOMAIN listed[p] :
        /\ listed' = [listed EXCEPT ![p] = [d \in DOMAIN @ \ {c} |-> @[d]]]
        /\ IF Unmarked(c)
           THEN /\ reminded' = [reminded EXCEPT ![c] = TRUE]
                /\ Append_event(c, "reminder", StatusWhenMarked(p, c), StatusWhenMarked(p, c))
           ELSE UNCHANGED <<reminded, queryEvents>>
        /\ UNCHANGED <<status, due, messages, answers, queryOutbox, queryRegistered, correction, aborts>>
  BY DEF mark_invoice_query_reminded
<1>2. listed \in [Crons -> Maps(Cases, Live)]
  BY DEF QueryInv, QueryTypeOK
<1>3. c \in Cases /\ status[c] # "none" /\ status[c] \in Status
  BY <1>2, MapIn DEF QueryInv, QueryTypeOK, InHandAreOpened
<1> DEFINE rest == [d \in DOMAIN listed[p] \ {c} |-> listed[p][d]]
<1>4. rest \in Maps(Cases, Live) /\ DOMAIN rest \subseteq DOMAIN listed[p]
  BY <1>2, MapIn
<1>5. listed' = [listed EXCEPT ![p] = rest]
  BY <1>1, <1>2
<1> HIDE DEF rest
<1>6. listed' \in [Crons -> Maps(Cases, Live)] /\ InHandAreOpened'
  BY <1>1, <1>2, <1>4, <1>5 DEF QueryInv, InHandAreOpened
<1>7. CASE Unmarked(c)
  <2> DEFINE e == [kind |-> "reminder", from |-> status[c], to |-> status[c]]
  <2>1. /\ queryEvents' = [queryEvents EXCEPT ![c] = Append(@, e)] /\ e \in QueryEvent
        /\ e.kind = "reminder" /\ e.from = status[c] /\ e.to = status'[c]
    BY <1>1, <1>3, <1>7 DEF Append_event, StatusWhenMarked, QueryEvent
  <2>2. /\ reminded' \in [Cases -> BOOLEAN] /\ ~reminded[c] /\ reminded'[c]
        /\ \A d \in Cases \ {c} : reminded'[d] = reminded[d]
    BY <1>1, <1>3, <1>7 DEF Unmarked, QueryInv, QueryTypeOK
  <2> HIDE DEF e
  <2>3. queryEvents' \in [Cases -> Seq(QueryEvent)] /\ HistoryLeadsToStatus' /\ RemindedOnce'
    BY <1>1, <1>3, <2>1, <2>2, OneEntry
  <2> QED
    BY <1>1, <1>6, <2>2, <2>3 DEF QueryInv, QueryTypeOK
<1>8. CASE ~Unmarked(c)
  <2>1. HistoryLeadsToStatus' /\ RemindedOnce'
    BY <1>1, <1>8, NoEntry
  <2> QED
    BY <1>1, <1>6, <1>8, <2>1 DEF QueryInv, QueryTypeOK
<1> QED
  BY <1>7, <1>8

\* A correction adds a note to each case it read, whatever became of it.
LEMMA LinkStep ==
    ASSUME QueryInv, NEW i \in Disputed, record_invoice_query_linkage(i)
    PROVE  QueryInv'
<1> DEFINE seen == correction[i].seen
<1>1. /\ correction' = [correction EXCEPT ![i].at = "done"]
      /\ UNCHANGED <<status, due, reminded, messages, answers, queryOutbox, queryRegistered, listed, aborts>>
      /\ queryEvents' = [c \in Cases |-> IF c \in DOMAIN seen THEN Append(queryEvents[c], LinkEvent(seen[c]))
                                         ELSE queryEvents[c]]
  BY DEF record_invoice_query_linkage
<1>2. seen \in Maps(Cases, Live) /\ queryEvents \in [Cases -> Seq(QueryEvent)]
  BY DEF QueryInv, QueryTypeOK
<1>3. /\ correction' \in [Disputed -> [at : {"before", "writing", "done"}, seen : Maps(Cases, Live)]]
      /\ \A j \in Disputed : correction'[j].seen = correction[j].seen
  BY <1>1 DEF QueryInv, QueryTypeOK
<1>4. InHandAreOpened'
  BY <1>1, <1>3 DEF QueryInv, InHandAreOpened
<1>5. ASSUME NEW c \in Cases
      PROVE  queryEvents'[c] \in Seq(QueryEvent) /\ HistoryLeadsToStatus!(c)' /\ RemindedOnce!(c)'
  <2>1. HistoryLeadsToStatus!(c) /\ RemindedOnce!(c)
    BY DEF QueryInv, HistoryLeadsToStatus, RemindedOnce
  <2>2. CASE c \notin DOMAIN seen
    <3>1. queryEvents'[c] = queryEvents[c]
      BY <1>1, <2>2
    <3> QED
      BY <1>1, <1>2, <2>1, <3>1, HistoryStays
  <2>3. CASE c \in DOMAIN seen
    <3> DEFINE e == LinkEvent(seen[c])
    <3>1. queryEvents'[c] = Append(queryEvents[c], e) /\ queryEvents[c] \in Seq(QueryEvent)
      BY <1>1, <1>2, <2>3
    <3>2. seen[c] \in Live /\ status[c] # "none"
      BY <1>2, <2>3, MapIn DEF QueryInv, InHandAreOpened
    <3>3. e \in QueryEvent /\ e.kind = "link"
      BY <3>2 DEF LinkEvent, QueryEvent, Status
    <3> HIDE DEF e
    <3>4. queryEvents'[c] \in Seq(QueryEvent)
      BY <3>1, <3>3, AppendProperties
    <3>5. HistoryLeadsToStatus!(c)'
      BY <1>1, <2>1, <3>1, <3>2, <3>3, EntryLeads
    <3>6. RemindedOnce!(c)'
      BY <1>1, <2>1, <3>1, <3>3, EntryReminds
    <3> QED
      BY <3>4, <3>5, <3>6
  <2> QED
    BY <2>2, <2>3
<1>6. queryEvents' \in [Cases -> Seq(QueryEvent)]
  <2>1. DOMAIN queryEvents' = Cases /\ queryEvents' = [c \in Cases |-> queryEvents'[c]]
    BY <1>1
  <2> QED
    BY <1>5, <2>1
<1>7. HistoryLeadsToStatus' /\ RemindedOnce'
  BY <1>5 DEF HistoryLeadsToStatus, RemindedOnce
<1> QED
  BY <1>1, <1>3, <1>4, <1>6, <1>7 DEF QueryInv, QueryTypeOK

\* At first no case is opened.
LEMMA QueryInvInit == QueryInit => QueryInv
<1> SUFFICES ASSUME QueryInit PROVE QueryInv
  OBVIOUS
<1>1. << >> \in Maps(Cases, Live) /\ DOMAIN << >> = {} /\ << >> \in Seq(QueryEvent)
  BY EmptyMap
<1>2. QueryTypeOK
  BY <1>1, QueriesAssumption DEF QueryInit, QueryTypeOK, Status, NoReply
<1>3. \A c \in Cases : DOMAIN queryEvents[c] = {} /\ Len(queryEvents[c]) = 0
  BY <1>1 DEF QueryInit
<1>4. \A c \in Cases : Steps(c) = {} /\ PlacesOf(c, {"reminder"}) = {}
  BY <1>3 DEF Steps, PlacesOf
<1>5. HistoryLeadsToStatus /\ RemindedOnce
  BY <1>4 DEF QueryInit, HistoryLeadsToStatus, RemindedOnce, LeadsTo
<1>6. InHandAreOpened
  BY <1>1 DEF QueryInit, InHandAreOpened
<1> QED
  BY <1>2, <1>5, <1>6 DEF QueryInv

\* Every step keeps it.
LEMMA QueryInvStep == QueryInv /\ [QueryNext]_queryVars => QueryInv'
BY OpenStep, ReplyStep, QuietStep, RemindStep, LinkStep DEF QueryNext

\* Cases, their histories, answers and the lists in hand keep their types
\* (store/invoice_query.py).
THEOREM QueryTypes == QuerySpec => []QueryTypeOK
<1>1. QueryInv => QueryTypeOK
  BY DEF QueryInv
<1> QED
  BY <1>1, QueryInvInit, QueryInvStep, PTL DEF QuerySpec

\* The history of a case leads from nothing to its status, whoever replies,
\* reminds or corrects beside each other (_change, mark_invoice_query_reminded).
THEOREM HistoryLeadsToStatusHolds == QuerySpec => []HistoryLeadsToStatus
<1>1. QueryInv => HistoryLeadsToStatus
  BY DEF QueryInv
<1> QED
  BY <1>1, QueryInvInit, QueryInvStep, PTL DEF QuerySpec

\* However many reminder jobs overlap or die, a case is reminded of once
\* (mark_invoice_query_reminded).
THEOREM RemindedOnceHolds == QuerySpec => []RemindedOnce
<1>1. QueryInv => RemindedOnce
  BY DEF QueryInv
<1> QED
  BY <1>1, QueryInvInit, QueryInvStep, PTL DEF QuerySpec
=============================================================================
