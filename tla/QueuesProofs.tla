---------------------------- MODULE QueuesProofs ----------------------------
(***************************************************************************)
(* Proofs about the two outboxes: the deliveries of operator webhooks and  *)
(* the scheduled e-mails.  In both several workers hold rows they listed   *)
(* earlier; a webhook row is fenced by its claim, an e-mail row only by    *)
(* the address that is scrubbed with the first mark.  And about the calls  *)
(* of the operator's programs: their limit, and lists read page by page.   *)
(***************************************************************************)
EXTENDS OperatorWebhooks, EmailQueue, OperatorAccess, FiniteSetTheorems, SequenceTheorems,
        WellFoundedInduction, TLAPS

-----------------------------------------------------------------------------
(* Webhook deliveries.                                                     *)

\* A delivery that is being sent has an attempt left: the claim looks at
\* attempt_count, and recording the outcome ends the claim.
AttemptLeft == \A d \in Deliveries :
    hookStatus[d] = "processing" => attempts[d] < HookAttempts

\* The inductive invariant behind DeliveredIsFinal.
HookInv == HookTypeOK /\ AttemptLeft

\* The outbox starts empty: nothing is in "processing".
LEMMA HookInvInit == HookInit => HookInv
<1> SUFFICES ASSUME HookInit PROVE HookInv
    OBVIOUS
<1> USE WebhooksAssumption
<1>1. answer \in [Workers -> [of : Deliveries \cup {Nobody}, outcome : Outcomes]]
    BY DEF HookInit, NoAnswer, Outcomes
<1>2. log \in Seq(HookEvents)
    BY DEF HookInit
<1> QED BY <1>1, <1>2 DEF HookInit, HookInv, HookTypeOK, AttemptLeft, Statuses

\* A claim raises no count, and the record of an outcome, which does, leaves
\* "processing".
LEMMA HookInvStep == HookInv /\ [HookNext]_hookVars => HookInv'
<1> SUFFICES ASSUME HookInv, [HookNext]_hookVars PROVE HookInv'
    OBVIOUS
<1> USE WebhooksAssumption DEF HookInv, HookTypeOK, AttemptLeft, Statuses, run, table
<1>1. ASSUME NEW e \in HookEvents, EnqueueEvent(e) PROVE HookInv'
    BY <1>1, AppendProperties DEF EnqueueEvent
<1>2. ASSUME NEW w \in Workers, Claim(w) PROVE HookInv'
    <2>1. PICK S \in SUBSET Deliveries :
              /\ IsBatch(S)
              /\ hookStatus' = [d \in Deliveries |-> IF d \in S THEN "processing" ELSE hookStatus[d]]
              /\ claim' = [d \in Deliveries |-> IF d \in S THEN w ELSE claim[d]]
              /\ stale' = stale \ S
              /\ batch' = [batch EXCEPT ![w] = S]
        BY <1>2 DEF Claim
    <2>2. \A d \in S : attempts[d] < HookAttempts
        BY <2>1 DEF IsBatch, Claimable
    <2> QED BY <1>2, <2>1, <2>2 DEF Claim
<1>3. ASSUME NEW w \in Workers, NEW d \in Deliveries, Post(w, d) PROVE HookInv'
    <2>1. PICK outcome \in Outcomes : answer' = [answer EXCEPT ![w] = [of |-> d, outcome |-> outcome]]
        BY <1>3 DEF Post
    <2>2. answer' \in [Workers -> [of : Deliveries \cup {Nobody}, outcome : Outcomes]]
        BY <2>1
    <2> QED BY <1>3, <2>2 DEF Post
<1>4. ASSUME NEW w \in Workers, Record(w) PROVE HookInv'
    <2> DEFINE d == answer[w].of
    <2>1. answer' \in [Workers -> [of : Deliveries \cup {Nobody}, outcome : Outcomes]]
        BY <1>4 DEF Record, NoAnswer, Outcomes
    <2>2. CASE hookStatus[d] = "processing" /\ claim[d] = w
        <3> DEFINE result == IF answer[w].outcome = "2xx" THEN "delivered"
                             ELSE IF attempts[d] + 1 < HookAttempts THEN "retry" ELSE "failed"
        <3>1. /\ hookStatus' = [hookStatus EXCEPT ![d] = result]
              /\ attempts' = [attempts EXCEPT ![d] = @ + 1]
              /\ claim' = [claim EXCEPT ![d] = Nobody]
              /\ stale' = stale \ {d}
              /\ hookDue' \subseteq hookDue
              /\ UNCHANGED <<log, active, batch, crashes, reissues, overruns>>
            BY <1>4, <2>2 DEF Record
        <3>2. result \in {"delivered", "retry", "failed"}
            OBVIOUS
        <3> HIDE DEF result
        <3>3. d \in Deliveries => attempts[d] + 1 \in 0 .. HookAttempts
            BY <2>2
        <3>4. hookStatus' \in [Deliveries -> Statuses] /\ claim' \in [Deliveries -> Workers \cup {Nobody}]
            BY <3>1, <3>2
        <3>5. attempts' \in [Deliveries -> 0 .. HookAttempts]
            BY <3>1, <3>3
        <3>6. ASSUME NEW b \in Deliveries, hookStatus'[b] = "processing" PROVE attempts'[b] < HookAttempts
            <4>1. b # d
                BY <3>1, <3>2, <3>6
            <4> QED BY <3>1, <3>6, <4>1
        <3> QED BY <2>1, <3>1, <3>4, <3>5, <3>6
    <2>3. CASE ~(hookStatus[d] = "processing" /\ claim[d] = w)
        BY <1>4, <2>1, <2>3 DEF Record
    <2> QED BY <2>2, <2>3
<1>5. ASSUME NEW w \in Workers, WorkerCrash(w) PROVE HookInv'
    <2>1. answer' \in [Workers -> [of : Deliveries \cup {Nobody}, outcome : Outcomes]]
        BY <1>5 DEF WorkerCrash, NoAnswer, Outcomes
    <2> QED BY <1>5, <2>1 DEF WorkerCrash
<1>6. ASSUME NEW d \in Deliveries, ClaimGoesStale(d) PROVE HookInv'
    BY <1>6 DEF ClaimGoesStale
<1>7. ASSUME NEW d \in Deliveries, BackoffEnds(d) PROVE HookInv'
    BY <1>7 DEF BackoffEnds
<1>8. ASSUME NEW d \in Deliveries, RetryDelivery(d) PROVE HookInv'
    BY <1>8 DEF RetryDelivery
<1>9. ASSUME NEW c \in Clients, RevokeClient(c) PROVE HookInv'
    BY <1>9 DEF RevokeClient
<1>10. ASSUME NEW c \in Clients, RotateClient(c) PROVE HookInv'
    BY <1>10 DEF RotateClient
<1>11. CASE UNCHANGED hookVars
    BY <1>11 DEF hookVars
<1> QED BY <1>1, <1>2, <1>3, <1>4, <1>5, <1>6, <1>7, <1>8, <1>9, <1>10, <1>11 DEF HookNext, Dispatch

\* No delivery is tried more often than the cron route's max_attempts,
\* however claims are taken over, workers die and administrators re-arm.
THEOREM HookTypes == HookSpec => []HookInv
BY HookInvInit, HookInvStep, PTL DEF HookSpec

\* One step never changes a delivered row: an outcome is only recorded for a
\* row in "processing", a claim only takes open rows, a re-arming only failed
\* ones.
LEMMA DeliveredStep ==
    ASSUME HookInv, [HookNext]_hookVars, NEW d \in Deliveries, hookStatus[d] = "delivered"
    PROVE  hookStatus'[d] = "delivered" /\ attempts'[d] = attempts[d]
<1> USE DEF HookInv, HookTypeOK, run, table
<1>1. ASSUME NEW e \in HookEvents, EnqueueEvent(e)
      PROVE  hookStatus'[d] = "delivered" /\ attempts'[d] = attempts[d]
    BY <1>1 DEF EnqueueEvent
<1>2. ASSUME NEW w \in Workers, Claim(w)
      PROVE  hookStatus'[d] = "delivered" /\ attempts'[d] = attempts[d]
    <2>1. PICK S \in SUBSET Deliveries :
              /\ IsBatch(S)
              /\ hookStatus' = [b \in Deliveries |-> IF b \in S THEN "processing" ELSE hookStatus[b]]
        BY <1>2 DEF Claim
    <2>2. d \notin S
        BY <2>1 DEF IsBatch, Claimable
    <2> QED BY <1>2, <2>1, <2>2 DEF Claim
<1>3. ASSUME NEW w \in Workers, Record(w)
      PROVE  hookStatus'[d] = "delivered" /\ attempts'[d] = attempts[d]
    BY <1>3 DEF Record
<1>4. ASSUME NEW b \in Deliveries, RetryDelivery(b)
      PROVE  hookStatus'[d] = "delivered" /\ attempts'[d] = attempts[d]
    BY <1>4 DEF RetryDelivery
<1> QED BY <1>1, <1>2, <1>3, <1>4
        DEF HookNext, Dispatch, Post, WorkerCrash, ClaimGoesStale, BackoffEnds, RevokeClient, RotateClient, hookVars

\* Claim fencing for any number of workers, crashes and stale claims: once
\* delivered, a late answer of a worker whose claim was taken over changes
\* neither the status nor the count of a delivery.
THEOREM DeliveredIsFinalHolds == HookSpec => DeliveredIsFinal
<1>1. HookInv /\ [HookNext]_hookVars =>
          [\A d \in Deliveries : hookStatus[d] = "delivered"
              => hookStatus'[d] = "delivered" /\ attempts'[d] = attempts[d]]_hookVars
    BY DeliveredStep
<1> QED BY <1>1, HookTypes, PTL DEF HookSpec, DeliveredIsFinal

-----------------------------------------------------------------------------
(* Scheduled e-mails.                                                      *)

\* The templates of the drip sequence.
TemplateNames == {Templates[k] : k \in DOMAIN Templates}

\* A row of the listing: its id and whether the address was there.
Listing == [id : Nat, addressed : BOOLEAN]

\* Scheduling under way: the building, the templates left, the insert.
Task == [of : Buildings, todo : Seq(TemplateNames) \ {<< >>}, insert : BOOLEAN]

\* What the tables and the senders' lists look like; the rows of one list are
\* distinct.
MailTypes ==
    /\ signedUp \in SUBSET Buildings
    /\ mailRows \in Seq(Mail) /\ Len(mailRows) <= MaxMails
    /\ scheduling \in [Confirmers -> Task \cup {NotScheduling}]
    /\ held \in [Senders -> Seq(Listing)]
    /\ \A w \in Senders : \A n \in DOMAIN held[w] : held[w][n].id \in DOMAIN mailRows
    /\ \A w \in Senders : \A m, n \in DOMAIN held[w] :
           held[w][m].id = held[w][n].id => m = n
    /\ posted \in [Senders -> {"none", "taken", "refused"}]
    /\ \A w \in Senders : posted[w] # "none" => held[w] # << >>
    /\ accepted \in Seq(Nat) /\ Len(accepted) = Len(mailRows)
    /\ mailCrashes \in Nat

\* Senders that may still hand mail k to the server, and senders that just did.
Holds(w, k) == \E n \in DOMAIN held[w] :
    /\ held[w][n].id = k /\ held[w][n].addressed
    /\ ~(n = 1 /\ posted[w] # "none")

\* The senders that listed row k and have not posted it yet.
HoldersOf(k) == {w \in Senders : Holds(w, k)}

\* The senders that have row k in hand: posted and not yet marked.
TakersOf(k) == {w \in Senders : posted[w] # "none" /\ held[w][1].id = k}

\* A row that waits to be sent has an attempt left.
TriesLeft == \A k \in DOMAIN mailRows :
    mailRows[k].status \in {"later", "pending"} => mailRows[k].tries < MailAttempts

\* Each sender that holds a mail with its address counts as a taking to come.
HasRoom(k) ==
    accepted[k] + Cardinality(HoldersOf(k)) <= Cardinality(Senders) + mailCrashes + Returns(k)

RoomForHolders == \A k \in DOMAIN mailRows : HasRoom(k)

\* While a row can still be listed with its address, every taking so far is
\* in the hand of a sender, was lost with one or counted as a failure.
IsAccounted(k) == mailRows[k].addressed /\ mailRows[k].status # "gone" =>
    accepted[k] <= Cardinality(TakersOf(k)) + mailCrashes + mailRows[k].tries

TakingsAccounted == \A k \in DOMAIN mailRows : IsAccounted(k)

\* The inductive invariant behind TakingsBounded.
MailInv == MailTypes /\ TriesLeft /\ RoomForHolders /\ TakingsAccounted

\* Only finitely many rows exist, so a list of the first due ones is a
\* sequence of distinct rows.
LEMMA ListIsSequence ==
    ASSUME MailTypes, NEW list \in InOrder(FirstDue)
    PROVE  /\ Cardinality(FirstDue) \in Nat
           /\ list \in [1 .. Cardinality(FirstDue) -> FirstDue]
           /\ FirstDue \subseteq DOMAIN mailRows
           /\ \A m, n \in DOMAIN list : list[m] = list[n] => m = n
<1>1. Len(mailRows) \in Nat /\ FirstDue \subseteq 1 .. Len(mailRows)
    BY LenProperties DEF FirstDue, Due, MailTypes
<1>2. IsFiniteSet(FirstDue)
    <2>1. IsFiniteSet(1 .. Len(mailRows))
        BY <1>1, FS_Interval
    <2> QED BY <1>1, <2>1, FS_Subset
<1>3. Cardinality(FirstDue) \in Nat
    BY <1>2, FS_CardinalityType
<1>4. list \in [1 .. Cardinality(FirstDue) -> FirstDue] /\ \A m, n \in DOMAIN list : m < n => list[m] < list[n]
    BY DEF InOrder
<1>5. \A k \in FirstDue : k \in Nat
    <2>1. \A k \in 1 .. Len(mailRows) : k \in Nat
        BY <1>1
    <2> QED BY <1>1, <2>1
<1>6. ASSUME NEW m \in DOMAIN list, NEW n \in DOMAIN list, list[m] = list[n] PROVE m = n
    <2>1. m \in Nat /\ n \in Nat /\ list[m] \in Nat
        <3>1. DOMAIN list = 1 .. Cardinality(FirstDue)
            BY <1>4
        <3>2. list[m] \in FirstDue
            BY <1>4, <3>1
        <3> DEFINE size == Cardinality(FirstDue)
        <3>3. m \in 1 .. size /\ n \in 1 .. size /\ size \in Nat
            BY <1>3, <3>1
        <3> HIDE DEF size
        <3>4. m \in Nat /\ n \in Nat
            BY <3>3
        <3>5. list[m] \in Nat
            BY <1>5, <3>2
        <3> QED BY <3>4, <3>5
    <2>2. m \in DOMAIN list /\ n \in DOMAIN list
        OBVIOUS
    <2>3. ~(m < n) /\ ~(n < m)
        BY <1>4, <1>6, <2>1, <2>2
    <2> QED BY <2>1, <2>3
<1>7. DOMAIN mailRows = 1 .. Len(mailRows)
    BY DEF MailTypes
<1> QED BY <1>1, <1>3, <1>4, <1>6, <1>7

\* What a confirmation has left to schedule is again a task, or nothing.
LEMMA RestOfTask ==
    ASSUME NEW todo \in Seq(TemplateNames), todo # << >>, Len(todo) # 1
    PROVE  Tail(todo) \in Seq(TemplateNames) \ {<< >>}
<1>1. Len(todo) \in Nat /\ Len(todo) # 0
    BY EmptySeq
<1>2. Tail(todo) \in Seq(TemplateNames) /\ Len(Tail(todo)) = Len(todo) - 1
    BY HeadTailProperties
<1>3. Len(Tail(todo)) # 0
    BY <1>1, <1>2
<1> QED BY <1>2, <1>3, EmptySeq

\* Scheduling goes on with a task or ends.
LEMMA ProceedType == ASSUME NEW s \in Task PROVE Proceed(s) \in Task \cup {NotScheduling}
<1>1. s.of \in Buildings /\ s.todo \in Seq(TemplateNames) /\ s.todo # << >>
    BY DEF Task
<1>2. CASE Len(s.todo) = 1
    BY <1>2 DEF Proceed
<1>3. CASE Len(s.todo) # 1
    <2>1. Tail(s.todo) \in Seq(TemplateNames) \ {<< >>}
        BY <1>1, <1>3, RestOfTask
    <2> QED BY <1>1, <1>3, <2>1 DEF Proceed, Task
<1> QED BY <1>2, <1>3

\* A row rewritten in place leaves the other parts of the types alone.
LEMMA RowRewritten ==
    ASSUME MailTypes, NEW k \in DOMAIN mailRows, NEW r \in Mail,
           mailRows' = [mailRows EXCEPT ![k] = r]
    PROVE  /\ mailRows' \in Seq(Mail) /\ Len(mailRows') = Len(mailRows)
           /\ DOMAIN mailRows' = DOMAIN mailRows
BY ExceptSeq DEF MailTypes

\* The marks touch one row and never bring a deleted one back.
LEMMA MarkedType ==
    ASSUME MailTypes, NEW k \in DOMAIN mailRows
    PROVE  \E sent, failed \in Mail :
           /\ mark_email_sent(k) = [mailRows EXCEPT ![k] = sent]
           /\ mark_email_failed(k) = [mailRows EXCEPT ![k] = failed]
           /\ sent.status = "gone" \/ ~sent.addressed
           /\ failed.status = "gone" <=> mailRows[k].status = "gone"
           /\ failed.addressed = mailRows[k].addressed
           /\ failed.status # "gone" => failed.tries = mailRows[k].tries + 1
           /\ failed.status = "pending" => failed.tries < MailAttempts
           /\ sent.status \notin {"later", "pending"} /\ failed.status # "later"
           /\ sent.tries = mailRows[k].tries
           /\ sent.status = "gone" <=> mailRows[k].status = "gone"
<1> DEFINE old == mailRows[k]
           sent == IF old.status = "gone" THEN old ELSE Updated(old, "sent", old.tries, FALSE)
           failed == IF old.status = "gone" THEN old
                     ELSE Updated(old, IF old.tries + 1 >= MailAttempts THEN "failed" ELSE "pending",
                                  old.tries + 1, old.addressed)
<1>1. old \in Mail
    BY ElementOfSeq, LenProperties DEF MailTypes
<1>2. /\ sent \in Mail /\ (sent.status = "gone" \/ ~sent.addressed)
      /\ sent.status \notin {"later", "pending"} /\ sent.tries = old.tries
      /\ sent.status = "gone" <=> old.status = "gone"
    BY <1>1 DEF Updated, Mail, MailStatus
<1>3. /\ failed \in Mail
      /\ failed.status = "gone" <=> old.status = "gone"
      /\ failed.addressed = old.addressed
      /\ failed.status # "gone" => failed.tries = old.tries + 1
      /\ failed.status # "later"
    BY <1>1 DEF Updated, Mail, MailStatus
<1>6. failed.status = "pending" => failed.tries < MailAttempts
    <2>1. old.tries + 1 \in Nat /\ MailAttempts \in Nat
        BY <1>1, EmailQueueAssumption DEF Mail
    <2> QED BY <1>1, <2>1 DEF Updated, Mail, MailStatus
<1>4. mark_email_sent(k) = [mailRows EXCEPT ![k] = sent]
    BY DEF mark_email_sent
<1>5. mark_email_failed(k) = [mailRows EXCEPT ![k] = failed]
    BY DEF mark_email_failed
<1> HIDE DEF sent, failed
<1> QED BY <1>2, <1>3, <1>4, <1>5, <1>6

\* What is left of a list when its first row is done.
LEMMA RestOfList ==
    ASSUME MailTypes, NEW w \in Senders, held[w] # << >>
    PROVE  /\ Tail(held[w]) \in Seq(Listing)
           /\ \A n \in DOMAIN Tail(held[w]) :
                  n + 1 \in DOMAIN held[w] /\ n + 1 # 1 /\ Tail(held[w])[n] = held[w][n + 1]
           /\ \A n \in DOMAIN Tail(held[w]) : Tail(held[w])[n].id \in DOMAIN mailRows
           /\ \A m, n \in DOMAIN Tail(held[w]) : Tail(held[w])[m].id = Tail(held[w])[n].id => m = n
<1>1. held[w] \in Seq(Listing)
    BY DEF MailTypes
<1>2. /\ Tail(held[w]) \in Seq(Listing)
      /\ \A n \in DOMAIN Tail(held[w]) :
             n + 1 \in DOMAIN held[w] /\ n + 1 # 1 /\ Tail(held[w])[n] = held[w][n + 1]
    BY <1>1, HeadTailProperties, LenProperties
<1>3. \A n \in DOMAIN Tail(held[w]) : Tail(held[w])[n].id \in DOMAIN mailRows
    BY <1>2 DEF MailTypes
<1>4. ASSUME NEW m \in DOMAIN Tail(held[w]), NEW n \in DOMAIN Tail(held[w]),
             Tail(held[w])[m].id = Tail(held[w])[n].id
      PROVE  m = n
    <2>1. m \in Nat /\ n \in Nat
        BY <1>2, LenProperties
    <2>2. held[w][m + 1].id = held[w][n + 1].id
        BY <1>2, <1>4
    <2>3. m + 1 = n + 1
        BY <1>2, <2>2 DEF MailTypes
    <2> QED BY <2>1, <2>3
<1> QED BY <1>2, <1>3, <1>4

\* The types hold before the first mail.
LEMMA MailTypesInit == MailInit => MailTypes
BY EmailQueueAssumption DEF MailInit, MailTypes

\* Every step keeps the types.
LEMMA MailTypesStep == MailTypes /\ [MailNext]_mailVars => MailTypes'
<1> SUFFICES ASSUME MailTypes, [MailNext]_mailVars PROVE MailTypes'
    OBVIOUS
<1> USE EmailQueueAssumption
<1>1. ASSUME NEW c \in Confirmers, NEW b \in Buildings, ConfirmBuilding(c, b) PROVE MailTypes'
    <2>1. Templates \in Seq(TemplateNames) /\ Templates # << >>
        BY IsASeq, LenProperties DEF TemplateNames
    <2>2. [of |-> b, todo |-> Templates, insert |-> FALSE] \in Task
        BY <2>1 DEF Task
    <2> QED BY <1>1, <2>2 DEF ConfirmBuilding, MailTypes
<1>2. ASSUME NEW c \in Confirmers, CheckScheduled(c) PROVE MailTypes'
    <2>1. scheduling[c] \in Task
        BY <1>2 DEF CheckScheduled, MailTypes
    <2>2. [scheduling[c] EXCEPT !.insert = TRUE] \in Task
        BY <2>1 DEF Task
    <2>3. Proceed(scheduling[c]) \in Task \cup {NotScheduling}
        BY <2>1, ProceedType
    <2>4. PICK next \in Task \cup {NotScheduling} : scheduling' = [scheduling EXCEPT ![c] = next]
        BY <1>2, <2>2, <2>3 DEF CheckScheduled
    <2>5. scheduling' \in [Confirmers -> Task \cup {NotScheduling}]
        BY <2>4 DEF MailTypes
    <2> QED BY <1>2, <2>5 DEF CheckScheduled, MailTypes
<1>3. ASSUME NEW c \in Confirmers, InsertMail(c) PROVE MailTypes'
    <2> DEFINE s == scheduling[c]
               new == [of |-> s.of, template |-> Head(s.todo), status |-> "later", tries |-> 0, addressed |-> TRUE]
    <2>1. s \in Task
        BY <1>3 DEF InsertMail, NotScheduling, MailTypes
    <2>2. Proceed(s) \in Task \cup {NotScheduling}
        BY <2>1, ProceedType
    <2>3. scheduling' \in [Confirmers -> Task \cup {NotScheduling}]
        BY <1>3, <2>2 DEF InsertMail, MailTypes
    <2>4. new \in Mail
        <3>1. Head(s.todo) \in TemplateNames
            BY <2>1, HeadTailProperties DEF Task
        <3> QED BY <2>1, <3>1 DEF Mail, Task, MailStatus, TemplateNames
    <2> HIDE DEF new
    <2>5. CASE mailRows' = Append(mailRows, new) /\ accepted' = Append(accepted, 0) /\ Len(mailRows) < MaxMails
        <3>1. /\ mailRows' \in Seq(Mail) /\ Len(mailRows') = Len(mailRows) + 1
              /\ DOMAIN mailRows \subseteq DOMAIN mailRows'
            BY <2>4, <2>5, AppendProperties DEF MailTypes
        <3>2. accepted' \in Seq(Nat) /\ Len(accepted') = Len(accepted) + 1
            BY <2>5, AppendProperties DEF MailTypes
        <3> QED BY <1>3, <2>3, <2>5, <3>1, <3>2 DEF InsertMail, MailTypes
    <2>6. CASE UNCHANGED <<mailRows, accepted>>
        BY <1>3, <2>3, <2>6 DEF InsertMail, MailTypes
    <2> QED BY <1>3, <2>5, <2>6 DEF InsertMail, new
<1>4. ASSUME NEW b \in Buildings, DropBuilding(b) PROVE MailTypes'
    <2>1. \A k \in DOMAIN mailRows : mailRows'[k] \in Mail
        <3>1. \A k \in DOMAIN mailRows : mailRows[k] \in Mail
            BY ElementOfSeq, LenProperties DEF MailTypes
        <3>2. \A k \in DOMAIN mailRows : Deleted(mailRows[k]) \in Mail
            BY <3>1 DEF Deleted, Mail, MailStatus
        <3> QED BY <1>4, <3>1, <3>2 DEF DropBuilding
    <2>2. DOMAIN mailRows' = 1 .. Len(mailRows) /\ Len(mailRows) \in Nat
        BY <1>4, LenProperties DEF DropBuilding, MailTypes
    <2>3. mailRows' = [k \in 1 .. Len(mailRows) |-> mailRows'[k]]
        BY <1>4, <2>2 DEF DropBuilding
    <2>4. mailRows' \in Seq(Mail) /\ Len(mailRows') = Len(mailRows)
        BY <2>1, <2>2, <2>3, IsASeq, LenProperties
    <2> QED BY <1>4, <2>2, <2>4 DEF DropBuilding, MailTypes
<1>5. ASSUME NEW k \in DOMAIN mailRows, MailBecomesDue(k) \/ cleanup_finished_emails(k) PROVE MailTypes'
    <2>1. mailRows[k] \in Mail
        BY ElementOfSeq, LenProperties DEF MailTypes
    <2>2. PICK r \in Mail : mailRows' = [mailRows EXCEPT ![k] = r]
        BY <1>5, <2>1 DEF MailBecomesDue, cleanup_finished_emails, Deleted, Mail, MailStatus
    <2>3. /\ mailRows' \in Seq(Mail) /\ Len(mailRows') = Len(mailRows)
          /\ DOMAIN mailRows' = DOMAIN mailRows
        BY <2>2, RowRewritten
    <2> QED BY <1>5, <2>3 DEF MailBecomesDue, cleanup_finished_emails, MailTypes
<1>6. ASSUME NEW w \in Senders, get_pending_emails(w) PROVE MailTypes'
    <2>1. PICK list \in InOrder(FirstDue) :
              held' = [held EXCEPT ![w] = [n \in DOMAIN list |->
                  [id |-> list[n], addressed |-> mailRows[list[n]].addressed]]]
        BY <1>6 DEF get_pending_emails
    <2> DEFINE listed == [n \in DOMAIN list |-> [id |-> list[n], addressed |-> mailRows[list[n]].addressed]]
    <2>2. /\ Cardinality(FirstDue) \in Nat
          /\ list \in [1 .. Cardinality(FirstDue) -> FirstDue]
          /\ FirstDue \subseteq DOMAIN mailRows
          /\ \A m, n \in DOMAIN list : list[m] = list[n] => m = n
        BY ListIsSequence
    <2>3. \A n \in 1 .. Cardinality(FirstDue) : listed[n] \in Listing /\ listed[n].id \in DOMAIN mailRows
        <3>1. \A k \in DOMAIN mailRows : k \in Nat /\ mailRows[k] \in Mail
            BY ElementOfSeq, LenProperties DEF MailTypes
        <3>2. \A k \in DOMAIN mailRows : k \in Nat /\ mailRows[k].addressed \in BOOLEAN
            BY <3>1 DEF Mail
        <3>3. ASSUME NEW n \in 1 .. Cardinality(FirstDue)
              PROVE  listed[n] \in Listing /\ listed[n].id \in DOMAIN mailRows
            <4>1. n \in DOMAIN list /\ list[n] \in DOMAIN mailRows
                BY <2>2
            <4>2. listed[n] = [id |-> list[n], addressed |-> mailRows[list[n]].addressed]
                BY <4>1
            <4> HIDE DEF listed
            <4> QED BY <3>2, <4>1, <4>2 DEF Listing
        <3> HIDE DEF listed
        <3> QED BY <3>3
    <2>4. listed \in Seq(Listing)
        BY <2>2, <2>3, IsASeq
    <2>5. \A m, n \in DOMAIN listed : listed[m].id = listed[n].id => m = n
        BY <2>2
    <2>6. \A n \in DOMAIN listed : listed[n].id \in DOMAIN mailRows
        BY <2>2, <2>3
    <2>7. posted[w] = "none"
        BY <1>6 DEF get_pending_emails, MailTypes
    <2>8. held' = [held EXCEPT ![w] = listed]
        BY <2>1
    <2> HIDE DEF listed
    <2> QED BY <1>6, <2>4, <2>5, <2>6, <2>7, <2>8 DEF get_pending_emails, MailTypes
<1>7. ASSUME NEW w \in Senders, SendMail(w) PROVE MailTypes'
    <2> DEFINE k == Head(held[w]).id
    <2>1. accepted' \in Seq(Nat) /\ Len(accepted') = Len(accepted)
        <3>1. CASE UNCHANGED accepted
            BY <3>1 DEF MailTypes
        <3>2. CASE accepted' = [accepted EXCEPT ![k] = @ + 1]
            <4>1. held[w] # << >> /\ held[w] \in Seq(Listing)
                BY <1>7 DEF SendMail, MailTypes
            <4>2. Head(held[w]) = held[w][1] /\ 1 \in DOMAIN held[w]
                BY <4>1, EmptySeq, LenProperties, HeadTailProperties
            <4>3. k \in 1 .. Len(accepted)
                BY <4>2, LenProperties DEF MailTypes
            <4>4. accepted[k] \in Nat
                BY <4>3, ElementOfSeq DEF MailTypes
            <4>5. accepted' = [accepted EXCEPT ![k] = accepted[k] + 1]
                BY <3>2
            <4> HIDE DEF k
            <4> QED BY <4>3, <4>4, <4>5, ExceptSeq, LenProperties DEF MailTypes
        <3> QED BY <1>7, <3>1, <3>2 DEF SendMail
    <2> QED BY <1>7, <2>1 DEF SendMail, MailTypes
<1>8. ASSUME NEW w \in Senders, MarkMail(w) PROVE MailTypes'
    <2>1. held[w] \in Seq(Listing) /\ held[w] # << >>
        BY <1>8 DEF MarkMail, MailTypes
    <2>2. Head(held[w]) = held[w][1] /\ 1 \in DOMAIN held[w]
        BY <2>1, EmptySeq, LenProperties, HeadTailProperties
    <2>3. Head(held[w]).id \in DOMAIN mailRows
        BY <2>2 DEF MailTypes
    <2>4. PICK r \in Mail : mailRows' = [mailRows EXCEPT ![Head(held[w]).id] = r]
        BY <1>8, <2>3, MarkedType DEF MarkMail
    <2>5. /\ mailRows' \in Seq(Mail) /\ Len(mailRows') = Len(mailRows)
          /\ DOMAIN mailRows' = DOMAIN mailRows
        BY <2>3, <2>4, RowRewritten
    <2>6. /\ Tail(held[w]) \in Seq(Listing)
          /\ \A n \in DOMAIN Tail(held[w]) : Tail(held[w])[n].id \in DOMAIN mailRows
          /\ \A m, n \in DOMAIN Tail(held[w]) : Tail(held[w])[m].id = Tail(held[w])[n].id => m = n
        BY <2>1, RestOfList
    <2> QED BY <1>8, <2>5, <2>6 DEF MarkMail, MailTypes
<1>9. ASSUME NEW w \in Senders, SenderDies(w) PROVE MailTypes'
    BY <1>9 DEF SenderDies, MailTypes
<1>10. CASE UNCHANGED mailVars
    BY <1>10 DEF mailVars, MailTypes
<1>11. ASSUME NEW w \in Senders, MarkFails(w) PROVE MailTypes'
    <2>1. held[w] # << >>
        BY <1>11 DEF MarkFails, MailTypes
    <2>2. /\ Tail(held[w]) \in Seq(Listing)
          /\ \A n \in DOMAIN Tail(held[w]) : Tail(held[w])[n].id \in DOMAIN mailRows
          /\ \A m, n \in DOMAIN Tail(held[w]) : Tail(held[w])[m].id = Tail(held[w])[n].id => m = n
        BY <2>1, RestOfList
    <2> QED BY <1>11, <2>2 DEF MarkFails, MailTypes
<1> QED BY <1>1, <1>2, <1>3, <1>4, <1>5, <1>6, <1>7, <1>8, <1>9, <1>10, <1>11 DEF MailNext

\* Sets of senders are finite; a part is no larger than the whole, two
\* disjoint parts together neither, and leaving or joining counts one.
LEMMA SendersCounted ==
    ASSUME NEW A \in SUBSET Senders, NEW B \in SUBSET Senders
    PROVE  /\ Cardinality(A) \in Nat /\ Cardinality(Senders) \in Nat
           /\ Cardinality(A) <= Cardinality(Senders)
           /\ A \subseteq B => Cardinality(A) <= Cardinality(B)
           /\ A \cap B = {} => Cardinality(A) + Cardinality(B) <= Cardinality(Senders)
<1>1. IsFiniteSet(Senders)
    BY EmailQueueAssumption
<1>2. IsFiniteSet(A) /\ IsFiniteSet(B) /\ IsFiniteSet(A \cup B)
    BY <1>1, FS_Subset, FS_Union
<1>3. Cardinality(A) \in Nat /\ Cardinality(B) \in Nat /\ Cardinality(Senders) \in Nat
    BY <1>1, <1>2, FS_CardinalityType
<1>4. Cardinality(A) <= Cardinality(Senders)
    BY <1>1, FS_Subset
<1>5. A \subseteq B => Cardinality(A) <= Cardinality(B)
    BY <1>2, FS_Subset
<1>6. ASSUME A \cap B = {} PROVE Cardinality(A) + Cardinality(B) <= Cardinality(Senders)
    <2>1. A \cup B \in SUBSET Senders
        OBVIOUS
    <2>2. Cardinality(A \cup B) <= Cardinality(Senders)
        BY <1>1, <2>1, FS_Subset
    <2>3. Cardinality(A \cup B) = Cardinality(A) + Cardinality(B) - Cardinality({})
        BY <1>2, <1>6, FS_Union
    <2>4. Cardinality({}) = 0
        BY FS_EmptySet
    <2> QED BY <1>3, <2>2, <2>3, <2>4
<1> QED BY <1>3, <1>4, <1>5, <1>6

\* A set is one larger than it is without a member.
LEMMA OneLeaves ==
    ASSUME NEW A \in SUBSET Senders, NEW w \in Senders
    PROVE  /\ w \in A => Cardinality(A \ {w}) = Cardinality(A) - 1
           /\ w \notin A => Cardinality(A \cup {w}) = Cardinality(A) + 1
<1>1. IsFiniteSet(A)
    BY EmailQueueAssumption, FS_Subset
<1> QED BY <1>1, FS_RemoveElement, FS_AddElement

\* The senders that hold a mail still to be taken and those that just took it
\* are different ones, since the rows of a list are distinct.
HoldersAreNoTakers == \A k : HoldersOf(k) \cap TakersOf(k) = {}

\* A sender that is posting a row no longer has it in its listing.
LEMMA TakersDoNotHold == MailTypes => HoldersAreNoTakers
<1> SUFFICES ASSUME MailTypes, NEW k, NEW w \in HoldersOf(k) \cap TakersOf(k) PROVE FALSE
    BY DEF HoldersAreNoTakers
<1>1. w \in Senders /\ posted[w] # "none" /\ held[w][1].id = k
    BY DEF TakersOf
<1>2. PICK n \in DOMAIN held[w] : held[w][n].id = k /\ ~(n = 1 /\ posted[w] # "none")
    BY DEF HoldersOf, Holds
<1>3. held[w] \in Seq(Listing) /\ held[w] # << >>
    BY <1>1 DEF MailTypes
<1>4. 1 \in DOMAIN held[w]
    BY <1>3, EmptySeq, LenProperties
<1>5. n = 1
    BY <1>1, <1>2, <1>4 DEF MailTypes
<1> QED BY <1>1, <1>2, <1>5

\* How often a row may come back, and what its counts are.
LEMMA CountsTyped ==
    ASSUME MailTypes, NEW k \in DOMAIN mailRows
    PROVE  /\ mailRows[k] \in Mail /\ mailRows[k].tries \in Nat
           /\ accepted[k] \in Nat /\ mailCrashes \in Nat
           /\ Returns(k) \in Nat
           /\ MailAttempts \in Nat
<1>1. mailRows[k] \in Mail /\ accepted[k] \in Nat /\ mailCrashes \in Nat
    BY ElementOfSeq, LenProperties DEF MailTypes
<1>2. mailRows[k].tries \in Nat
    BY <1>1 DEF Mail
<1>3. MailAttempts - 1 \in Nat /\ MailAttempts \in Nat
    BY EmailQueueAssumption
<1>4. Returns(k) \in Nat
    BY <1>2, <1>3 DEF Returns
<1> QED BY <1>1, <1>2, <1>3, <1>4

\* The numbers of every row, together.
NumbersTyped == \A k \in DOMAIN mailRows : Returns(k) \in Nat /\ mailRows[k].tries \in Nat

\* They are numbers whatever the tables hold.
LEMMA ReturnsTyped == MailTypes => NumbersTyped
BY CountsTyped DEF NumbersTyped

\* A row never comes back less often than it did: its count only grows, and
\* a deleted row stays deleted.
LEMMA ReturnsGrow ==
    ASSUME MailTypes, MailTypes', NEW k \in DOMAIN mailRows, k \in DOMAIN mailRows',
           \/ mailRows'[k].status = "gone"
           \/ mailRows[k].status # "gone" /\ mailRows'[k].tries >= mailRows[k].tries
    PROVE  Returns(k)' >= Returns(k) /\ Returns(k)' \in Nat
<1>0. Returns(k)' \in Nat /\ mailRows'[k].tries \in Nat
    <2>1. NumbersTyped'
        BY ReturnsTyped, PTL
    <2> QED BY <2>1 DEF NumbersTyped
<1>1. mailRows[k].tries \in Nat /\ MailAttempts \in Nat /\ MailAttempts - 1 \in Nat
    BY CountsTyped, EmailQueueAssumption
<1>2. Returns(k)' >= Returns(k)
    BY <1>0, <1>1 DEF Returns
<1> QED BY <1>0, <1>2

\* A mail nobody took and nobody newly lists with its address keeps its room.
LEMMA RoomKept ==
    ASSUME MailTypes, MailTypes', NEW k \in DOMAIN mailRows, HasRoom(k),
           accepted'[k] = accepted[k], HoldersOf(k)' \subseteq HoldersOf(k),
           mailCrashes' >= mailCrashes, Returns(k)' >= Returns(k), Returns(k)' \in Nat
    PROVE  HasRoom(k)'
<1>1. HoldersOf(k) \in SUBSET Senders /\ HoldersOf(k)' \in SUBSET Senders
    BY DEF HoldersOf
<1>2. /\ Cardinality(HoldersOf(k)') \in Nat /\ Cardinality(HoldersOf(k)) \in Nat
      /\ Cardinality(Senders) \in Nat
      /\ Cardinality(HoldersOf(k)') <= Cardinality(HoldersOf(k))
    BY <1>1, SendersCounted
<1>3. accepted[k] \in Nat /\ mailCrashes \in Nat /\ Returns(k) \in Nat
    BY CountsTyped
<1>4. mailCrashes' \in Nat
    BY DEF MailTypes
<1>5. accepted[k] + Cardinality(HoldersOf(k)) <= Cardinality(Senders) + mailCrashes + Returns(k)
    BY DEF HasRoom
<1>6. accepted'[k] + Cardinality(HoldersOf(k)') <= Cardinality(Senders) + mailCrashes' + Returns(k)'
    BY <1>2, <1>3, <1>4, <1>5
<1> QED BY <1>6 DEF HasRoom

\* What a step that only changes rows may do to one: delete it, or leave its
\* count and address alone.
Settles(k) ==
    \/ mailRows'[k].status = "gone"
    \/ /\ mailRows[k].status # "gone" /\ mailRows'[k].tries = mailRows[k].tries
       /\ mailRows'[k].addressed => mailRows[k].addressed

\* Nobody's list, no answer of the server and no count changes.
LEMMA RowsSettle ==
    ASSUME MailInv, MailTypes', DOMAIN mailRows' = DOMAIN mailRows,
           UNCHANGED <<held, posted, accepted, mailCrashes>>,
           \A k \in DOMAIN mailRows : Settles(k)
    PROVE  RoomForHolders' /\ TakingsAccounted'
<1>1. \A k : HoldersOf(k)' = HoldersOf(k) /\ TakersOf(k)' = TakersOf(k)
    BY DEF HoldersOf, TakersOf, Holds
<1>2. ASSUME NEW k \in DOMAIN mailRows PROVE HasRoom(k)' /\ IsAccounted(k)'
    <2>1. mailRows[k].tries \in Nat /\ mailCrashes \in Nat
        BY CountsTyped DEF MailInv
    <2>2. Returns(k)' >= Returns(k) /\ Returns(k)' \in Nat
        BY <2>1, ReturnsGrow DEF Settles, MailInv
    <2>4. HasRoom(k)'
        BY <1>1, <2>1, <2>2, RoomKept DEF MailInv, RoomForHolders
    <2>5. IsAccounted(k)
        BY DEF MailInv, TakingsAccounted
    <2>6. IsAccounted(k)'
        BY <1>1, <2>5 DEF IsAccounted, Settles
    <2> QED BY <2>4, <2>6
<1> QED BY <1>2 DEF RoomForHolders, TakingsAccounted

\* A row that stands as it was keeps its room, also when it fails once more
\* at its last attempt.
LEMMA RowStands ==
    ASSUME MailTypes, MailTypes', NEW k \in DOMAIN mailRows, mailRows' = mailRows
    PROVE  Returns(k)' = Returns(k) /\ Returns(k) \in Nat
BY CountsTyped DEF Returns

\* A new row is in nobody's list.
LEMMA InsertCounts ==
    ASSUME MailInv, MailTypes', NEW c \in Confirmers, InsertMail(c)
    PROVE  RoomForHolders' /\ TakingsAccounted'
<1>1. CASE UNCHANGED <<mailRows, accepted>>
    <2>1. UNCHANGED <<held, posted, accepted, mailCrashes>>
        BY <1>1 DEF InsertMail
    <2>2. \A k \in DOMAIN mailRows : Settles(k)
        BY <1>1 DEF Settles
    <2> QED BY <1>1, <2>1, <2>2, RowsSettle
<1>2. CASE ~UNCHANGED <<mailRows, accepted>>
    <2>1. PICK new : mailRows' = Append(mailRows, new) /\ accepted' = Append(accepted, 0)
        BY <1>2 DEF InsertMail
    <2>2. UNCHANGED <<held, posted, mailCrashes>>
        BY DEF InsertMail
    <2>3. \A k : HoldersOf(k)' = HoldersOf(k) /\ TakersOf(k)' = TakersOf(k)
        BY <2>2 DEF HoldersOf, TakersOf, Holds
    <2> PICK n \in Nat : n = Len(mailRows)
        BY LenProperties DEF MailInv, MailTypes
    <2>4. /\ Len(accepted) = n /\ DOMAIN mailRows = 1 .. n
          /\ accepted \in Seq(Nat)
        BY LenProperties DEF MailInv, MailTypes
    <2>5. Len(accepted') = n + 1
        BY <2>1, <2>4, AppendProperties
    <2>6. DOMAIN mailRows' = 1 .. n + 1
        BY <2>5, LenProperties DEF MailTypes
    <2>7. \A k \in 1 .. n : mailRows'[k] = mailRows[k] /\ accepted'[k] = accepted[k]
        BY <2>1, <2>4, AppendProperties DEF MailInv, MailTypes
    <2>8. accepted'[n + 1] = 0
        BY <2>1, <2>4, AppendProperties
    <2>9. ASSUME NEW k \in 1 .. n PROVE HasRoom(k)' /\ IsAccounted(k)'
        <3>1. HasRoom(k) /\ IsAccounted(k)
            BY <2>4 DEF MailInv, RoomForHolders, TakingsAccounted
        <3>2. Returns(k)' = Returns(k)
            BY <2>7 DEF Returns
        <3> QED BY <2>2, <2>3, <2>7, <3>1, <3>2 DEF HasRoom, IsAccounted
    <2>10. HasRoom(n + 1)' /\ IsAccounted(n + 1)'
        <3>1. HoldersOf(n + 1) \in SUBSET Senders /\ TakersOf(n + 1) \in SUBSET Senders
            BY DEF HoldersOf, TakersOf
        <3>2. /\ Cardinality(HoldersOf(n + 1)) \in Nat /\ Cardinality(TakersOf(n + 1)) \in Nat
              /\ Cardinality(Senders) \in Nat
              /\ Cardinality(HoldersOf(n + 1)) <= Cardinality(Senders)
            BY <3>1, SendersCounted
        <3>3. mailCrashes' \in Nat
            BY DEF MailTypes
        <3>4. n + 1 \in DOMAIN mailRows'
            BY <2>6
        <3>5. Returns(n + 1)' \in Nat /\ mailRows'[n + 1].tries \in Nat
            <4>1. NumbersTyped'
                BY ReturnsTyped, PTL
            <4> QED BY <3>4, <4>1 DEF NumbersTyped
        <3>7. HasRoom(n + 1)'
            BY <2>3, <2>8, <3>2, <3>3, <3>5 DEF HasRoom
        <3>8. IsAccounted(n + 1)'
            BY <2>3, <2>8, <3>2, <3>3, <3>5 DEF IsAccounted
        <3> QED BY <3>7, <3>8
    <2>11. \A k \in 1 .. n + 1 : k \in 1 .. n \/ k = n + 1
        BY <2>4
    <2>12. \A k \in DOMAIN mailRows' : HasRoom(k)' /\ IsAccounted(k)'
        BY <2>6, <2>9, <2>10, <2>11
    <2> QED BY <2>12 DEF RoomForHolders, TakingsAccounted
<1> QED BY <1>1, <1>2

\* A row is listed with its address only while the takings so far are
\* accounted for, and a sender that has it in hand does not list it.
LEMMA ListCounts ==
    ASSUME MailInv, MailTypes', NEW w \in Senders, get_pending_emails(w)
    PROVE  RoomForHolders' /\ TakingsAccounted'
<1>1. PICK list \in InOrder(FirstDue) :
          held' = [held EXCEPT ![w] = [n \in DOMAIN list |->
              [id |-> list[n], addressed |-> mailRows[list[n]].addressed]]]
    BY DEF get_pending_emails
<1>2. /\ UNCHANGED <<mailRows, posted, accepted, mailCrashes>>
      /\ held[w] = << >>
    BY DEF get_pending_emails
<1>3. /\ list \in [1 .. Cardinality(FirstDue) -> FirstDue]
      /\ FirstDue \subseteq DOMAIN mailRows
    BY ListIsSequence DEF MailInv
<1>4. posted[w] = "none" /\ held \in [Senders -> Seq(Listing)]
    BY <1>2 DEF MailInv, MailTypes
<1>5. \A k : TakersOf(k)' = TakersOf(k)
    BY <1>1, <1>2, <1>4 DEF TakersOf
<1>6. TakingsAccounted'
    BY <1>2, <1>5 DEF MailInv, TakingsAccounted, IsAccounted
<1>7. ASSUME NEW k \in DOMAIN mailRows PROVE HasRoom(k)'
    <2>0. Returns(k)' = Returns(k) /\ Returns(k) \in Nat
        BY <1>2, RowStands DEF MailInv
    <2>1. CASE HoldersOf(k)' \subseteq HoldersOf(k)
        <3>1. accepted'[k] = accepted[k] /\ mailCrashes' >= mailCrashes
            BY <1>2 DEF MailInv, MailTypes
        <3> QED BY <2>0, <2>1, <3>1, RoomKept DEF MailInv, RoomForHolders
    <2>2. CASE ~(HoldersOf(k)' \subseteq HoldersOf(k))
        <3>1. \A v \in Senders \ {w} : v \in HoldersOf(k)' => v \in HoldersOf(k)
            BY <1>1, <1>2, <1>4 DEF HoldersOf, Holds
        <3>2. w \in HoldersOf(k)'
            BY <2>2, <3>1 DEF HoldersOf
        <3>3. PICK n \in DOMAIN held'[w] : held'[w][n].id = k /\ held'[w][n].addressed
            BY <3>2 DEF HoldersOf, Holds
        <3>4. held'[w] = [i \in DOMAIN list |-> [id |-> list[i], addressed |-> mailRows[list[i]].addressed]]
            BY <1>1, <1>4
        <3>5. n \in DOMAIN list /\ list[n] = k /\ mailRows[k].addressed
            BY <3>3, <3>4
        <3>6. mailRows[k].status = "pending"
            BY <1>3, <3>5 DEF FirstDue, Due
        <3>7. accepted[k] <= Cardinality(TakersOf(k)) + mailCrashes + mailRows[k].tries
            BY <3>5, <3>6 DEF MailInv, TakingsAccounted, IsAccounted
        <3>8. /\ HoldersOf(k)' \in SUBSET Senders /\ TakersOf(k)' \in SUBSET Senders
              /\ HoldersOf(k)' \cap TakersOf(k)' = {}
            <4>1. HoldersAreNoTakers'
                BY TakersDoNotHold, PTL
            <4> QED BY <4>1 DEF HoldersAreNoTakers, HoldersOf, TakersOf
        <3>9. /\ Cardinality(HoldersOf(k)') + Cardinality(TakersOf(k)) <= Cardinality(Senders)
              /\ Cardinality(HoldersOf(k)') \in Nat /\ Cardinality(TakersOf(k)) \in Nat
              /\ Cardinality(Senders) \in Nat
            BY <1>5, <3>8, SendersCounted
        <3>10. /\ accepted[k] \in Nat /\ mailCrashes \in Nat /\ mailRows[k].tries \in Nat
               /\ UNCHANGED <<accepted, mailCrashes>>
            BY <1>2, CountsTyped DEF MailInv
        <3>11. Returns(k) = mailRows[k].tries
            BY <3>6 DEF Returns, MailInv, TriesLeft
        <3>12. accepted'[k] + Cardinality(HoldersOf(k)') <= Cardinality(Senders) + mailCrashes' + Returns(k)'
            BY <2>0, <3>7, <3>9, <3>10, <3>11
        <3> QED BY <3>12 DEF HasRoom
    <2> QED BY <2>1, <2>2
<1> QED BY <1>2, <1>6, <1>7 DEF RoomForHolders

\* The first listing of a sender at work.
LEMMA ListingInHand ==
    ASSUME MailTypes, NEW w \in Senders, held[w] # << >>
    PROVE  /\ held[w] \in Seq(Listing) /\ 1 \in DOMAIN held[w]
           /\ Head(held[w]) = held[w][1]
           /\ held[w][1].id \in DOMAIN mailRows
<1>1. held[w] \in Seq(Listing)
    BY DEF MailTypes
<1>2. 1 \in DOMAIN held[w] /\ Head(held[w]) = held[w][1]
    BY <1>1, EmptySeq, LenProperties, HeadTailProperties
<1> QED BY <1>1, <1>2 DEF MailTypes

\* Sums of counts when one holder becomes a taking.
LEMMA OneMovesOn ==
    ASSUME NEW taken \in Nat, NEW holding \in Nat, NEW left \in Nat, NEW bound \in Nat,
           NEW crashed \in Nat, NEW returned \in Nat,
           taken + holding <= bound + crashed + returned, left <= holding - 1
    PROVE  taken + 1 + left <= bound + crashed + returned
    OBVIOUS

\* Sums of counts when the takers grow.
LEMMA MoreInHand ==
    ASSUME NEW taken \in Nat, NEW hands \in Nat, NEW now \in Nat, NEW crashed \in Nat,
           NEW failed \in Nat, NEW more \in Nat,
           taken <= hands + crashed + failed, hands + more <= now
    PROVE  taken + more <= now + crashed + failed
    OBVIOUS

\* The sender that posts the row leaves its holders and has it in hand,
\* whether the server took the mail or not and whatever it answered.
LEMMA SendCounts ==
    ASSUME MailInv, MailTypes', NEW w \in Senders, SendMail(w)
    PROVE  RoomForHolders' /\ TakingsAccounted'
<1> PICK own \in DOMAIN mailRows : own = held[w][1].id /\ Head(held[w]).id = own
    BY ListingInHand DEF SendMail, MailInv
<1>1. /\ held[w] # << >> /\ posted[w] = "none" /\ 1 \in DOMAIN held[w]
      /\ UNCHANGED <<held, mailRows, mailCrashes>>
      /\ mailCrashes \in Nat
    BY ListingInHand DEF SendMail, MailInv, MailTypes
<1>2. posted'[w] # "none" /\ \A v \in Senders \ {w} : posted'[v] = posted[v]
    BY DEF SendMail, MailInv, MailTypes
<1>3. \A k : HoldersOf(k)' \subseteq HoldersOf(k)
    BY <1>1, <1>2 DEF HoldersOf, Holds
<1>4. \A k : TakersOf(k) \subseteq TakersOf(k)'
    BY <1>1, <1>2 DEF TakersOf
<1>5. \A k : /\ HoldersOf(k) \in SUBSET Senders /\ HoldersOf(k)' \in SUBSET Senders
             /\ TakersOf(k) \in SUBSET Senders /\ TakersOf(k)' \in SUBSET Senders
    BY DEF HoldersOf, TakersOf
<1>6. ASSUME NEW k \in DOMAIN mailRows
      PROVE  /\ Cardinality(HoldersOf(k)) \in Nat /\ Cardinality(HoldersOf(k)') \in Nat
             /\ Cardinality(TakersOf(k)) \in Nat /\ Cardinality(TakersOf(k)') \in Nat
             /\ Cardinality(Senders) \in Nat
             /\ Cardinality(TakersOf(k)) <= Cardinality(TakersOf(k)')
             /\ Returns(k)' = Returns(k) /\ Returns(k) \in Nat
             /\ accepted[k] \in Nat /\ mailRows[k].tries \in Nat
             /\ HasRoom(k) /\ IsAccounted(k)
    <2>1. /\ Cardinality(HoldersOf(k)) \in Nat /\ Cardinality(HoldersOf(k)') \in Nat
          /\ Cardinality(TakersOf(k)) \in Nat /\ Cardinality(TakersOf(k)') \in Nat
          /\ Cardinality(Senders) \in Nat
          /\ Cardinality(TakersOf(k)) <= Cardinality(TakersOf(k)')
        BY <1>4, <1>5, SendersCounted
    <2>2. Returns(k)' = Returns(k) /\ Returns(k) \in Nat
        BY <1>1, RowStands DEF MailInv
    <2>3. accepted[k] \in Nat /\ mailRows[k].tries \in Nat
        BY CountsTyped DEF MailInv
    <2> QED BY <2>1, <2>2, <2>3 DEF MailInv, RoomForHolders, TakingsAccounted
<1>7. ASSUME NEW k \in DOMAIN mailRows, accepted'[k] = accepted[k]
      PROVE  HasRoom(k)' /\ IsAccounted(k)'
    <2>1. HasRoom(k)'
        BY <1>1, <1>3, <1>6, <1>7, RoomKept DEF MailInv
    <2>2. ASSUME mailRows[k].addressed, mailRows[k].status # "gone"
          PROVE  accepted[k] <= Cardinality(TakersOf(k)') + mailCrashes + mailRows[k].tries
        <3>1. accepted[k] <= Cardinality(TakersOf(k)) + mailCrashes + mailRows[k].tries
            BY <1>6, <2>2 DEF IsAccounted
        <3>2. Cardinality(TakersOf(k)) + 0 <= Cardinality(TakersOf(k)')
            BY <1>6
        <3>3. accepted[k] + 0 <= Cardinality(TakersOf(k)') + mailCrashes + mailRows[k].tries
            BY <1>1, <1>6, <3>1, <3>2, MoreInHand
        <3> QED BY <1>6, <3>3
    <2>3. IsAccounted(k)'
        BY <1>1, <1>7, <2>2 DEF IsAccounted
    <2> QED BY <2>1, <2>3
<1>8. CASE UNCHANGED accepted
    BY <1>1, <1>7, <1>8 DEF RoomForHolders, TakingsAccounted
<1>9. CASE accepted' = [accepted EXCEPT ![own] = accepted[own] + 1] /\ Head(held[w]).addressed
    <2>1. /\ \A k \in DOMAIN mailRows \ {own} : accepted'[k] = accepted[k]
          /\ accepted'[own] = accepted[own] + 1
        <3>1. own \in 1 .. Len(accepted) /\ accepted \in Seq(Nat)
            BY LenProperties DEF MailInv, MailTypes
        <3> QED BY <1>9, <3>1, LenProperties
    <2>2. w \in HoldersOf(own) /\ w \notin TakersOf(own)
        <3>1. held[w][1].addressed
            BY <1>1, <1>9, ListingInHand DEF MailInv
        <3>2. Holds(w, own)
            BY <1>1, <3>1 DEF Holds
        <3> QED BY <1>1, <3>2 DEF HoldersOf, TakersOf
    <2>3. w \in TakersOf(own)'
        BY <1>1, <1>2 DEF TakersOf
    <2>4. HoldersOf(own)' \subseteq HoldersOf(own) \ {w}
        <3>1. HoldersAreNoTakers'
            BY TakersDoNotHold, PTL
        <3> QED BY <1>3, <2>3, <3>1 DEF HoldersAreNoTakers
    <2>5. TakersOf(own) \cup {w} \subseteq TakersOf(own)'
        BY <1>4, <2>3
    <2>6. /\ Cardinality(HoldersOf(own) \ {w}) = Cardinality(HoldersOf(own)) - 1
          /\ Cardinality(TakersOf(own) \cup {w}) = Cardinality(TakersOf(own)) + 1
        BY <1>5, <2>2, OneLeaves
    <2>7. /\ Cardinality(HoldersOf(own)') <= Cardinality(HoldersOf(own) \ {w})
          /\ Cardinality(TakersOf(own) \cup {w}) <= Cardinality(TakersOf(own)')
        <3>1. HoldersOf(own) \ {w} \in SUBSET Senders /\ TakersOf(own) \cup {w} \in SUBSET Senders
            BY <1>5
        <3> QED BY <1>5, <2>4, <2>5, <3>1, SendersCounted
    <2>8. /\ Cardinality(HoldersOf(own)') <= Cardinality(HoldersOf(own)) - 1
          /\ Cardinality(TakersOf(own)) + 1 <= Cardinality(TakersOf(own)')
        BY <2>6, <2>7
    <2>9. HasRoom(own)'
        <3>1. accepted[own] + Cardinality(HoldersOf(own)) <= Cardinality(Senders) + mailCrashes + Returns(own)
            BY <1>6 DEF HasRoom
        <3>2. accepted[own] + 1 + Cardinality(HoldersOf(own)') <= Cardinality(Senders) + mailCrashes + Returns(own)
            BY <1>1, <1>6, <2>8, <3>1, OneMovesOn
        <3> QED BY <1>1, <1>6, <2>1, <3>2 DEF HasRoom
    <2>10. ASSUME mailRows[own].addressed, mailRows[own].status # "gone"
           PROVE  accepted[own] + 1 <= Cardinality(TakersOf(own)') + mailCrashes + mailRows[own].tries
        <3>1. accepted[own] <= Cardinality(TakersOf(own)) + mailCrashes + mailRows[own].tries
            BY <1>6, <2>10 DEF IsAccounted
        <3> QED BY <1>1, <1>6, <2>8, <3>1, MoreInHand
    <2>11. IsAccounted(own)'
        BY <1>1, <2>1, <2>10 DEF IsAccounted
    <2> QED BY <1>1, <1>7, <2>1, <2>9, <2>11 DEF RoomForHolders, TakingsAccounted
<1> QED BY <1>8, <1>9 DEF SendMail

\* A sender that goes on with its list holds no row it did not hold, and only
\* the row in hand leaves its hand.
LEMMA GoesOn ==
    ASSUME MailTypes, NEW w \in Senders, held[w] # << >>,
           held' = [held EXCEPT ![w] = Tail(@)], posted' = [posted EXCEPT ![w] = "none"]
    PROVE  /\ \A k : HoldersOf(k)' \subseteq HoldersOf(k)
           /\ \A k : TakersOf(k)' = TakersOf(k) \ {w}
<1>0. held \in [Senders -> Seq(Listing)] /\ posted \in [Senders -> {"none", "taken", "refused"}]
    BY DEF MailTypes
<1>1. ASSUME NEW k, NEW v \in HoldersOf(k)' PROVE v \in HoldersOf(k)
    <2>1. v \in Senders /\ Holds(v, k)'
        BY <1>1 DEF HoldersOf
    <2>2. CASE v = w
        <3>1. PICK n \in DOMAIN Tail(held[w]) : Tail(held[w])[n].id = k /\ Tail(held[w])[n].addressed
            BY <1>0, <2>1, <2>2 DEF Holds
        <3>2. n + 1 \in DOMAIN held[w] /\ n + 1 # 1 /\ Tail(held[w])[n] = held[w][n + 1]
            BY <3>1, RestOfList
        <3>3. Holds(w, k)
            BY <3>1, <3>2 DEF Holds
        <3> QED BY <2>2, <3>3 DEF HoldersOf
    <2>3. CASE v # w
        <3>1. held'[v] = held[v] /\ posted'[v] = posted[v]
            BY <1>0, <2>1, <2>3
        <3> QED BY <2>1, <3>1 DEF HoldersOf, Holds
    <2> QED BY <2>2, <2>3
<1>2. \A k : TakersOf(k)' = TakersOf(k) \ {w}
    BY <1>0 DEF TakersOf
<1> QED BY <1>1, <1>2

\* The same for a sender that gives up its list.
LEMMA GivesUp ==
    ASSUME MailTypes, NEW w \in Senders,
           held' = [held EXCEPT ![w] = << >>], posted' = [posted EXCEPT ![w] = "none"]
    PROVE  /\ \A k : HoldersOf(k)' \subseteq HoldersOf(k)
           /\ \A k : TakersOf(k)' = TakersOf(k) \ {w}
<1>0. held \in [Senders -> Seq(Listing)] /\ posted \in [Senders -> {"none", "taken", "refused"}]
    BY DEF MailTypes
<1>1. \A k : HoldersOf(k)' \subseteq HoldersOf(k)
    BY <1>0 DEF HoldersOf, Holds
<1>2. \A k : TakersOf(k)' = TakersOf(k) \ {w}
    BY <1>0 DEF TakersOf
<1> QED BY <1>1, <1>2

\* One sender fewer has the row in hand.
LEMMA HandEmptied ==
    ASSUME NEW A \in SUBSET Senders, NEW w \in Senders
    PROVE  /\ Cardinality(A \ {w}) \in Nat /\ Cardinality(A) \in Nat
           /\ Cardinality(A) <= Cardinality(A \ {w}) + 1
           /\ w \notin A => A \ {w} = A
<1>1. A \ {w} \in SUBSET Senders
    OBVIOUS
<1>2. Cardinality(A \ {w}) \in Nat /\ Cardinality(A) \in Nat
    BY <1>1, SendersCounted
<1>3. w \notin A => A \ {w} = A
    OBVIOUS
<1>4. CASE w \in A
    <2>1. Cardinality(A \ {w}) = Cardinality(A) - 1
        BY <1>4, OneLeaves
    <2> QED BY <1>2, <1>3, <2>1
<1>5. CASE w \notin A
    BY <1>2, <1>3, <1>5
<1> QED BY <1>2, <1>3, <1>4, <1>5

\* A mark ends the taking: a row marked sent has lost its address, a row
\* marked failed has counted it.
LEMMA MarkCounts ==
    ASSUME MailInv, MailTypes', NEW w \in Senders, MarkMail(w)
    PROVE  RoomForHolders' /\ TakingsAccounted'
<1>1. /\ held[w] # << >> /\ posted[w] # "none"
      /\ UNCHANGED <<accepted, mailCrashes>> /\ mailCrashes \in Nat
      /\ held' = [held EXCEPT ![w] = Tail(@)] /\ posted' = [posted EXCEPT ![w] = "none"]
    BY DEF MarkMail, MailInv, MailTypes
<1> PICK own \in DOMAIN mailRows : own = held[w][1].id /\ Head(held[w]).id = own
    BY <1>1, ListingInHand DEF MailInv
<1>2. /\ \A k : HoldersOf(k)' \subseteq HoldersOf(k)
      /\ \A k : TakersOf(k)' = TakersOf(k) \ {w}
    BY <1>1, GoesOn DEF MailInv
<1>3. PICK r \in Mail :
          /\ mailRows' = [mailRows EXCEPT ![own] = r]
          /\ r.status = "gone" <=> mailRows[own].status = "gone"
          /\ posted[w] = "taken" => /\ r.status = "gone" \/ ~r.addressed
                                    /\ r.tries = mailRows[own].tries
          /\ posted[w] # "taken" => /\ r.addressed = mailRows[own].addressed
                                    /\ r.status # "gone" => r.tries = mailRows[own].tries + 1
    <2>1. CASE posted[w] = "taken"
        <3>1. mailRows' = mark_email_sent(own)
            BY <2>1 DEF MarkMail
        <3> QED BY <2>1, <3>1, MarkedType DEF MailInv
    <2>2. CASE posted[w] # "taken"
        <3>1. mailRows' = mark_email_failed(own)
            BY <2>2 DEF MarkMail
        <3> QED BY <2>2, <3>1, MarkedType DEF MailInv
    <2> QED BY <2>1, <2>2
<1>4. /\ DOMAIN mailRows' = DOMAIN mailRows /\ mailRows'[own] = r
      /\ \A k \in DOMAIN mailRows \ {own} : mailRows'[k] = mailRows[k]
    BY <1>3
<1>5. ASSUME NEW k \in DOMAIN mailRows PROVE HasRoom(k)' /\ IsAccounted(k)'
    <2>1. /\ mailRows[k].tries \in Nat /\ accepted[k] \in Nat /\ mailRows[own].tries \in Nat
          /\ HasRoom(k) /\ IsAccounted(k)
        BY CountsTyped DEF MailInv, RoomForHolders, TakingsAccounted
    <2>2. \/ mailRows'[k].status = "gone"
          \/ mailRows[k].status # "gone" /\ mailRows'[k].tries >= mailRows[k].tries
        <3>1. CASE k = own
            BY <1>3, <1>4, <2>1, <3>1
        <3>2. CASE k # own
            BY <1>4, <2>1, <3>2
        <3> QED BY <3>1, <3>2
    <2>3. Returns(k)' >= Returns(k) /\ Returns(k)' \in Nat
        BY <1>4, <2>2, ReturnsGrow DEF MailInv
    <2>4. HasRoom(k)'
        BY <1>1, <1>2, <2>1, <2>3, RoomKept DEF MailInv
    <2>5. TakersOf(k) \in SUBSET Senders
        BY DEF TakersOf
    <2>6. /\ Cardinality(TakersOf(k)) \in Nat /\ Cardinality(TakersOf(k)') \in Nat
          /\ Cardinality(TakersOf(k)) <= Cardinality(TakersOf(k)') + 1
          /\ w \notin TakersOf(k) => TakersOf(k)' = TakersOf(k)
        BY <1>2, <2>5, HandEmptied
    <2>7. ASSUME mailRows'[k].addressed, mailRows'[k].status # "gone"
          PROVE  accepted[k] <= Cardinality(TakersOf(k)') + mailCrashes + mailRows'[k].tries
        <3>1. CASE k # own
            <4>1. w \notin TakersOf(k)
                BY <3>1 DEF TakersOf
            <4>2. mailRows'[k] = mailRows[k]
                BY <1>4, <3>1
            <4> QED BY <2>1, <2>6, <2>7, <4>1, <4>2 DEF IsAccounted
        <3>2. CASE k = own
            <4>1. posted[w] # "taken" /\ mailRows'[k].tries = mailRows[k].tries + 1
                BY <1>3, <1>4, <2>7, <3>2
            <4>2. mailRows[k].addressed /\ mailRows[k].status # "gone"
                BY <1>3, <1>4, <2>7, <3>2, <4>1
            <4>3. accepted[k] <= Cardinality(TakersOf(k)) + mailCrashes + mailRows[k].tries
                BY <2>1, <4>2 DEF IsAccounted
            <4> QED BY <1>1, <2>1, <2>6, <4>1, <4>3
        <3> QED BY <3>1, <3>2
    <2>8. IsAccounted(k)'
        BY <1>1, <2>7 DEF IsAccounted
    <2> QED BY <2>4, <2>8
<1> QED BY <1>4, <1>5 DEF RoomForHolders, TakingsAccounted

\* A sender that dies, or a mark that fails, takes a taking out of the count,
\* and is counted.
LEMMA LossCounts ==
    ASSUME MailInv, MailTypes', NEW w \in Senders, SenderDies(w) \/ MarkFails(w)
    PROVE  RoomForHolders' /\ TakingsAccounted'
<1>1. /\ UNCHANGED <<accepted, mailRows>> /\ mailCrashes \in Nat /\ mailCrashes' = mailCrashes + 1
      /\ posted' = [posted EXCEPT ![w] = "none"]
    BY DEF SenderDies, MarkFails, MailInv, MailTypes
<1>2. /\ \A k : HoldersOf(k)' \subseteq HoldersOf(k)
      /\ \A k : TakersOf(k)' = TakersOf(k) \ {w}
    <2>1. CASE SenderDies(w)
        BY <2>1, GivesUp DEF SenderDies, MailInv
    <2>2. CASE MarkFails(w)
        <3>1. held[w] # << >> /\ held' = [held EXCEPT ![w] = Tail(@)]
            BY <2>2 DEF MarkFails, MailInv, MailTypes
        <3> QED BY <1>1, <3>1, GoesOn DEF MailInv
    <2> QED BY <2>1, <2>2
<1>3. ASSUME NEW k \in DOMAIN mailRows PROVE HasRoom(k)' /\ IsAccounted(k)'
    <2>1. /\ mailRows[k].tries \in Nat /\ accepted[k] \in Nat
          /\ HasRoom(k) /\ IsAccounted(k)
        BY CountsTyped DEF MailInv, RoomForHolders, TakingsAccounted
    <2>2. Returns(k)' = Returns(k) /\ Returns(k) \in Nat
        BY <1>1, RowStands DEF MailInv
    <2>3. HasRoom(k)'
        BY <1>1, <1>2, <2>1, <2>2, RoomKept DEF MailInv
    <2>4. TakersOf(k) \in SUBSET Senders
        BY DEF TakersOf
    <2>5. /\ Cardinality(TakersOf(k)) \in Nat /\ Cardinality(TakersOf(k)') \in Nat
          /\ Cardinality(TakersOf(k)) <= Cardinality(TakersOf(k)') + 1
        BY <1>2, <2>4, HandEmptied
    <2>6. ASSUME mailRows[k].addressed, mailRows[k].status # "gone"
          PROVE  accepted[k] <= Cardinality(TakersOf(k)') + mailCrashes' + mailRows[k].tries
        <3>1. accepted[k] <= Cardinality(TakersOf(k)) + mailCrashes + mailRows[k].tries
            BY <2>1, <2>6 DEF IsAccounted
        <3> QED BY <1>1, <2>1, <2>5, <3>1
    <2>7. IsAccounted(k)'
        BY <1>1, <2>6 DEF IsAccounted
    <2> QED BY <2>3, <2>7
<1> QED BY <1>1, <1>3 DEF RoomForHolders, TakingsAccounted

\* A row is put back only below the last attempt, and a new row is below it.
LEMMA TriesLeftStep ==
    ASSUME MailInv, MailTypes', [MailNext]_mailVars PROVE TriesLeft'
<1> USE DEF MailInv
<1>1. CASE UNCHANGED mailRows
    BY <1>1 DEF TriesLeft
<1>2. ASSUME NEW c \in Confirmers, InsertMail(c), ~UNCHANGED mailRows PROVE TriesLeft'
    <2>1. PICK new : mailRows' = Append(mailRows, new) /\ new.tries = 0
        BY <1>2 DEF InsertMail
    <2> PICK n \in Nat : n = Len(mailRows)
        BY LenProperties DEF MailTypes
    <2>2. Len(mailRows') = n + 1 /\ mailRows'[n + 1] = new /\ DOMAIN mailRows = 1 .. n
          /\ \A k \in 1 .. n : mailRows'[k] = mailRows[k]
        BY <2>1, AppendProperties, LenProperties DEF MailTypes
    <2>3. DOMAIN mailRows' = 1 .. n + 1
        BY <2>2, LenProperties DEF MailTypes
    <2>4. \A k \in 1 .. n + 1 : k \in 1 .. n \/ k = n + 1
        OBVIOUS
    <2>5. 0 < MailAttempts
        BY EmailQueueAssumption
    <2> QED BY <2>1, <2>2, <2>3, <2>4, <2>5 DEF TriesLeft
<1>3. ASSUME NEW b \in Buildings, DropBuilding(b) PROVE TriesLeft'
    <2>1. /\ DOMAIN mailRows' = DOMAIN mailRows
          /\ \A k \in DOMAIN mailRows : mailRows'[k] = mailRows[k] \/ mailRows'[k].status = "gone"
        BY <1>3 DEF DropBuilding, Deleted
    <2> QED BY <2>1 DEF TriesLeft
<1>4. ASSUME NEW k \in DOMAIN mailRows, MailBecomesDue(k) \/ cleanup_finished_emails(k) PROVE TriesLeft'
    <2>1. mailRows[k] \in Mail
        BY CountsTyped
    <2>2. /\ DOMAIN mailRows' = DOMAIN mailRows
          /\ \A j \in DOMAIN mailRows \ {k} : mailRows'[j] = mailRows[j]
          /\ \/ mailRows'[k].status = "gone"
             \/ mailRows[k].status = "later" /\ mailRows'[k].tries = mailRows[k].tries
        BY <1>4, <2>1 DEF MailBecomesDue, cleanup_finished_emails, Deleted, Mail
    <2> QED BY <2>2 DEF TriesLeft
<1>5. ASSUME NEW w \in Senders, MarkMail(w) PROVE TriesLeft'
    <2>1. held[w] # << >> /\ posted[w] # "none"
        BY <1>5 DEF MarkMail, MailTypes
    <2> PICK own \in DOMAIN mailRows : Head(held[w]).id = own
        BY <2>1, ListingInHand
    <2>2. PICK r \in Mail :
              /\ mailRows' = [mailRows EXCEPT ![own] = r]
              /\ r.status # "later" /\ (r.status = "pending" => r.tries < MailAttempts)
        BY <1>5, MarkedType DEF MarkMail
    <2> QED BY <2>2 DEF TriesLeft
<1> QED BY <1>1, <1>2, <1>3, <1>4, <1>5
        DEF MailNext, mailVars, ConfirmBuilding, CheckScheduled, get_pending_emails, SendMail, SenderDies, MarkFails

\* The inductive invariant holds before the first mail.
LEMMA MailInvInit == MailInit => MailInv
<1> SUFFICES ASSUME MailInit PROVE MailInv
    OBVIOUS
<1>1. MailTypes
    BY MailTypesInit
<1>2. DOMAIN mailRows = {}
    BY DEF MailInit
<1> QED BY <1>1, <1>2 DEF MailInv, TriesLeft, RoomForHolders, TakingsAccounted

\* Every step keeps the inductive invariant.
LEMMA MailInvStep == MailInv /\ [MailNext]_mailVars => MailInv'
<1> SUFFICES ASSUME MailInv, [MailNext]_mailVars PROVE MailInv'
    OBVIOUS
<1>0. MailTypes'
    BY MailTypesStep DEF MailInv
<1>1. ASSUME UNCHANGED <<mailRows, held, posted, accepted, mailCrashes>>
      PROVE  RoomForHolders' /\ TakingsAccounted'
    <2>1. \A k \in DOMAIN mailRows : Settles(k)
        <3>1. \A k \in DOMAIN mailRows : mailRows[k].tries \in Nat
            BY CountsTyped DEF MailInv
        <3> QED BY <1>1, <3>1 DEF Settles
    <2> QED BY <1>0, <1>1, <2>1, RowsSettle
<1>2. ASSUME NEW c \in Confirmers, InsertMail(c) PROVE RoomForHolders' /\ TakingsAccounted'
    BY <1>0, <1>2, InsertCounts
<1>3. ASSUME NEW b \in Buildings, DropBuilding(b) PROVE RoomForHolders' /\ TakingsAccounted'
    <2>1. /\ UNCHANGED <<held, posted, accepted, mailCrashes>>
          /\ DOMAIN mailRows' = DOMAIN mailRows
          /\ \A k \in DOMAIN mailRows : mailRows'[k] = mailRows[k] \/ mailRows'[k].status = "gone"
        BY <1>3 DEF DropBuilding, Deleted
    <2>2. \A k \in DOMAIN mailRows : Settles(k)
        BY <2>1 DEF Settles
    <2> QED BY <1>0, <2>1, <2>2, RowsSettle
<1>4. ASSUME NEW k \in DOMAIN mailRows, MailBecomesDue(k) \/ cleanup_finished_emails(k)
      PROVE  RoomForHolders' /\ TakingsAccounted'
    <2>1. mailRows[k] \in Mail
        BY CountsTyped DEF MailInv
    <2>2. /\ DOMAIN mailRows' = DOMAIN mailRows
          /\ \A j \in DOMAIN mailRows \ {k} : mailRows'[j] = mailRows[j]
          /\ \/ mailRows'[k].status = "gone"
             \/ /\ mailRows[k].status = "later" /\ mailRows'[k].tries = mailRows[k].tries
                /\ mailRows'[k].addressed = mailRows[k].addressed
        BY <1>4, <2>1 DEF MailBecomesDue, cleanup_finished_emails, Deleted, Mail
    <2>3. UNCHANGED <<held, posted, accepted, mailCrashes>>
        BY <1>4 DEF MailBecomesDue, cleanup_finished_emails
    <2>4. \A j \in DOMAIN mailRows : Settles(j)
        BY <2>2 DEF Settles
    <2> QED BY <1>0, <2>2, <2>3, <2>4, RowsSettle
<1>5. ASSUME NEW w \in Senders, get_pending_emails(w) PROVE RoomForHolders' /\ TakingsAccounted'
    BY <1>0, <1>5, ListCounts
<1>6. ASSUME NEW w \in Senders, SendMail(w) PROVE RoomForHolders' /\ TakingsAccounted'
    BY <1>0, <1>6, SendCounts
<1>7. ASSUME NEW w \in Senders, MarkMail(w) PROVE RoomForHolders' /\ TakingsAccounted'
    BY <1>0, <1>7, MarkCounts
<1>8. ASSUME NEW w \in Senders, SenderDies(w) \/ MarkFails(w) PROVE RoomForHolders' /\ TakingsAccounted'
    BY <1>0, <1>8, LossCounts
<1>9. RoomForHolders' /\ TakingsAccounted'
    BY <1>1, <1>2, <1>3, <1>4, <1>5, <1>6, <1>7, <1>8 DEF MailNext, ConfirmBuilding, CheckScheduled, mailVars
<1>10. TriesLeft'
    BY <1>0, TriesLeftStep
<1> QED BY <1>0, <1>9, <1>10 DEF MailInv

\* For any number of overlapping cron calls, rows, lost answers and deaths, the
\* server takes no mail more often than there are calls, deaths or failed
\* marks, and counted failures that put it back; without a death that is less
\* than calls and attempts together.
THEOREM TakingsBoundedHolds == MailSpec => []TakingsBounded
<1>1. MailInv => TakingsBounded
    <2> SUFFICES ASSUME MailInv, NEW k \in DOMAIN mailRows
                 PROVE  accepted[k] <= Cardinality(Senders) + mailCrashes + Returns(k)
        BY DEF TakingsBounded
    <2>1. HoldersOf(k) \in SUBSET Senders
        BY DEF HoldersOf
    <2>2. Cardinality(HoldersOf(k)) \in Nat /\ Cardinality(Senders) \in Nat
        BY <2>1, SendersCounted
    <2>3. accepted[k] \in Nat /\ mailCrashes \in Nat /\ Returns(k) \in Nat
        BY CountsTyped DEF MailInv
    <2>4. accepted[k] + Cardinality(HoldersOf(k)) <= Cardinality(Senders) + mailCrashes + Returns(k)
        BY DEF MailInv, RoomForHolders, HasRoom
    <2> QED BY <2>2, <2>3, <2>4
<1> QED BY <1>1, MailInvInit, MailInvStep, PTL DEF MailSpec

-----------------------------------------------------------------------------
(* Calls over the API.                                                     *)

\* A program between its first page and the end of the list.
Paging(r) == reader[r].at \in {"asking", "known", "claimed"}

\* What has been there all the while is still there, and up to the cursor it was
\* seen; at the end of the list all of it was.
NothingIsSkipped == \A r \in Readers :
    /\ Paging(r) => \A i \in reader[r].awaited :
           /\ i \in Matching(reader[r].filter)
           /\ i <= reader[r].cursor => i \in reader[r].seen
    /\ reader[r].at = "ended" => reader[r].awaited \subseteq reader[r].seen

\* The count of every hour, also of those that have not come.
Counted ==
    /\ IsFiniteSet(usage)
    /\ \A c \in Credentials, h \in Nat : Cardinality({u \in usage : u.of = c /\ u.hour = h}) <= RateLimit

\* The inductive invariant behind CallsAreServed.
AccessInv ==
    /\ AccessTypeOK
    /\ NothingIsSkipped
    /\ Counted

\* A set of natural numbers up to some number has a greatest one.
LEMMA GreatestNatural ==
    ASSUME NEW N \in Nat, NEW S \in SUBSET (0 .. N), S # {}
    PROVE  Max(S) \in S
<1> DEFINE Below(k) == N - k
           T == {Below(k) : k \in S}
<1>1. PICK m \in T : \A n \in T : ~(<<n, m>> \in OpToRel(<, Nat))
  <2>1. T \in SUBSET Nat /\ T # {}
    <3>1. \A k \in S : N - k \in Nat
      OBVIOUS
    <3> QED
      BY <3>1
  <2> QED
    BY <2>1, NatLessThanWellFounded, WFMin
<1>2. PICK k \in S : m = N - k
  BY <1>1
<1>3. ASSUME NEW j \in S
      PROVE  k >= j
  <2>1. ~(N - j < N - k)
    <3>1. N - j \in T /\ N - j \in Nat /\ N - k \in Nat
      OBVIOUS
    <3>2. ~(<<N - j, N - k>> \in OpToRel(<, Nat))
      BY <1>1, <1>2, <3>1
    <3> QED
      BY <3>1, <3>2 DEF OpToRel
  <2>2. j \in 0 .. N /\ k \in 0 .. N
    OBVIOUS
  <2> QED
    BY <2>1, <2>2
<1> QED
  BY <1>3 DEF Max

\* A list has few rows, and a set of them can be counted.
LEMMA RowsCounted ==
    ASSUME AccessTypeOK
    PROVE  /\ DOMAIN items \subseteq 1 .. MaxItems
           /\ \A S \in SUBSET DOMAIN items : IsFiniteSet(S) /\ Cardinality(S) \in Nat
           /\ \E n \in 0 .. MaxItems : DOMAIN items = 1 .. n /\ Cardinality(DOMAIN items) = n
<1>1. PICK n \in 0 .. MaxItems : items \in [1 .. n -> Item]
  BY DEF AccessTypeOK
<1>2. DOMAIN items = 1 .. n /\ n \in Nat /\ n <= MaxItems
  BY <1>1, AccessAssumption
<1>3. IsFiniteSet(1 .. n) /\ Cardinality(1 .. n) = n
  BY <1>2, FS_Interval
<1>4. \A S \in SUBSET DOMAIN items : IsFiniteSet(S) /\ Cardinality(S) \in Nat
  BY <1>2, <1>3, FS_Subset, FS_CardinalityType
<1>5. DOMAIN items \subseteq 1 .. MaxItems
  BY <1>2, AccessAssumption
<1> QED
  BY <1>1, <1>2, <1>3, <1>4, <1>5

\* A page is a beginning of what was found: up to its last row nothing is left out,
\* and if not more was found than fits, nothing at all.
LEMMA PagesAreWhole ==
    ASSUME AccessTypeOK, NEW S \in SUBSET DOMAIN items, NEW n \in PageSizes
    PROVE  /\ Cardinality(S) > n =>
                  /\ Cursor(S, n) \in FirstOf(S, n)
                  /\ \A i \in S : i <= Cursor(S, n) => i \in FirstOf(S, n)
           /\ ~(Cardinality(S) > n) => FirstOf(S, n) = S
<1> DEFINE Before(i) == {j \in S : j < i}
<1>1. /\ n \in Nat /\ n >= 1 /\ MaxItems \in Nat
      /\ S \subseteq 1 .. MaxItems /\ S \subseteq 0 .. MaxItems
      /\ IsFiniteSet(S) /\ Cardinality(S) \in Nat
      /\ \A i \in S : IsFiniteSet(Before(i)) /\ Cardinality(Before(i)) \in Nat
  <2>1. DOMAIN items \subseteq 1 .. MaxItems
    BY RowsCounted
  <2>2. \A i \in S : Before(i) \in SUBSET DOMAIN items
    OBVIOUS
  <2>3. n \in Nat /\ n >= 1 /\ MaxItems \in Nat
    BY AccessAssumption
  <2> QED
    BY <2>1, <2>2, <2>3, RowsCounted
<1>2. \A i, k \in S : i <= k => Cardinality(Before(i)) <= Cardinality(Before(k))
  <2> SUFFICES ASSUME NEW i \in S, NEW k \in S, i <= k
               PROVE  Cardinality(Before(i)) <= Cardinality(Before(k))
    OBVIOUS
  <2>1. Before(i) \in SUBSET Before(k)
    BY <1>1
  <2> QED
    BY <1>1, <2>1, FS_Subset
<1>3. ASSUME Cardinality(S) > n
      PROVE  Cursor(S, n) \in FirstOf(S, n)
  <2>1. FirstOf(S, n) # {}
    <3>1. S # {}
      BY <1>1, <1>3, FS_EmptySet
    <3>2. PICK i \in S : \A j \in S : ~(<<j, i>> \in OpToRel(<, Nat))
      <4>1. S \in SUBSET Nat
        BY <1>1
      <4> QED
        BY <3>1, <4>1, NatLessThanWellFounded, WFMin
    <3>3. Before(i) = {}
      <4>1. \A j \in S : ~(j < i)
        <5> SUFFICES ASSUME NEW j \in S
                     PROVE  ~(j < i)
          OBVIOUS
        <5>1. j \in Nat /\ i \in Nat
          BY <1>1
        <5>2. ~(<<j, i>> \in OpToRel(<, Nat))
          BY <3>2
        <5> QED
          BY <5>1, <5>2 DEF OpToRel
      <4> QED
        BY <4>1
    <3>4. Cardinality(Before(i)) = 0
      BY <3>3, FS_EmptySet
    <3> QED
      BY <1>1, <3>4 DEF FirstOf
  <2>2. FirstOf(S, n) \in SUBSET (0 .. MaxItems)
    BY <1>1 DEF FirstOf
  <2> QED
    BY <1>1, <2>1, <2>2, GreatestNatural DEF Cursor
<1>4. ASSUME Cardinality(S) > n, NEW i \in S, i <= Cursor(S, n)
      PROVE  i \in FirstOf(S, n)
  <2>1. Cursor(S, n) \in S /\ Cardinality(Before(Cursor(S, n))) < n
    BY <1>3, <1>4 DEF FirstOf
  <2>2. Cardinality(Before(i)) <= Cardinality(Before(Cursor(S, n)))
    BY <1>2, <1>4, <2>1
  <2> QED
    BY <1>1, <2>1, <2>2 DEF FirstOf
<1>5. ASSUME ~(Cardinality(S) > n), NEW i \in S
      PROVE  Cardinality(Before(i)) < n
  <2>1. Before(i) \in SUBSET S /\ Before(i) # S
    BY <1>1
  <2>2. Cardinality(Before(i)) <= Cardinality(S) /\ Cardinality(Before(i)) # Cardinality(S)
    BY <1>1, <2>1, FS_Subset
  <2> QED
    BY <1>1, <1>5, <2>2
<1> QED
  BY <1>3, <1>4, <1>5 DEF FirstOf

\* No credential, no program, no row.
LEMMA AccessInvInit == AccessInit => AccessInv
<1> SUFFICES ASSUME AccessInit
             PROVE  AccessInv
  OBVIOUS
<1>1. AccessTypeOK
  <2>1. 0 \in 0 .. MaxTokens /\ 0 \in 0 .. MaxItems /\ 0 \in 0 .. MaxHour
    BY AccessAssumption
  <2>2. items \in [1 .. 0 -> Item]
    BY DEF AccessInit
  <2> QED
    BY <2>1, <2>2 DEF AccessInit, AccessTypeOK
<1>2. NothingIsSkipped
  BY DEF AccessInit, NothingIsSkipped, Paging, NoReading
<1>3. Counted
  <2>1. \A c \in Credentials, h \in Nat : {u \in usage : u.of = c /\ u.hour = h} = {}
    BY DEF AccessInit
  <2>2. usage = {} /\ IsFiniteSet({}) /\ Cardinality({}) = 0 /\ RateLimit \in Nat
    BY AccessAssumption, FS_EmptySet DEF AccessInit
  <2> QED
    BY <2>1, <2>2 DEF Counted
<1> QED
  BY <1>1, <1>2, <1>3 DEF AccessInv

\* Steps that leave the uses alone leave their count alone.
LEMMA CountStays == Counted /\ UNCHANGED usage => Counted'
BY DEF Counted

\* Credentials and the clock: no list is read on.
LEMMA CredentialStep ==
    ASSUME AccessInv,
           \/ \E c \in Credentials : create_credential(c) \/ rotate_credential(c) \/ revoke_credential(c)
           \/ HourPasses
    PROVE  AccessInv'
<1>1. UNCHANGED <<usage, items, reader>>
  BY DEF create_credential, rotate_credential, revoke_credential, HourPasses
<1>2. AccessTypeOK'
  <2>1. /\ client' \in [Credentials -> [token : 0 .. MaxTokens, active : BOOLEAN]]
        /\ tokens' \in 0 .. MaxTokens /\ clockHour' \in 0 .. MaxHour
    <3>1. /\ client \in [Credentials -> [token : 0 .. MaxTokens, active : BOOLEAN]]
          /\ tokens \in 0 .. MaxTokens /\ clockHour \in 0 .. MaxHour
          /\ MaxTokens \in Nat /\ MaxHour \in Nat
      BY AccessAssumption DEF AccessInv, AccessTypeOK
    <3>2. ASSUME NEW c \in Credentials, create_credential(c) \/ rotate_credential(c)
          PROVE  <2>1!:
      <4>1. tokens + 1 \in 0 .. MaxTokens
        BY <3>1, <3>2 DEF create_credential, rotate_credential
      <4>2. /\ client' = [client EXCEPT ![c] = [token |-> tokens + 1, active |-> TRUE]]
            /\ tokens' = tokens + 1 /\ clockHour' = clockHour
        BY <3>2 DEF create_credential, rotate_credential
      <4>3. [token |-> tokens + 1, active |-> TRUE] \in [token : 0 .. MaxTokens, active : BOOLEAN]
        BY <4>1
      <4> QED
        BY <3>1, <4>1, <4>2, <4>3
    <3>3. ASSUME NEW c \in Credentials, revoke_credential(c)
          PROVE  <2>1!:
      BY <3>1, <3>3 DEF revoke_credential
    <3>4. CASE HourPasses
      BY <3>1, <3>4 DEF HourPasses
    <3> QED
      BY <3>2, <3>3, <3>4
  <2> QED
    BY <1>1, <2>1 DEF AccessInv, AccessTypeOK
<1>3. NothingIsSkipped'
  BY <1>1 DEF AccessInv, NothingIsSkipped, Paging, Matching
<1> QED
  BY <1>1, <1>2, <1>3, CountStays DEF AccessInv

\* A row gets the next id; it is shown later, below the cursor of somebody perhaps.
LEMMA DrawIdStep ==
    ASSUME AccessInv, DrawId
    PROVE  AccessInv'
<1>1. PICK n \in 0 .. MaxItems : DOMAIN items = 1 .. n /\ Cardinality(DOMAIN items) = n
  BY RowsCounted DEF AccessInv
<1>2. /\ n + 1 \in 0 .. MaxItems /\ n \in Nat /\ items \in [1 .. n -> Item]
      /\ UNCHANGED <<client, tokens, usage, reader, clockHour>>
      /\ items' = [i \in 1 .. n + 1 |->
                       IF i \in 1 .. n THEN items[i] ELSE [status |-> "open", shown |-> FALSE]]
  BY <1>1, AccessAssumption DEF AccessInv, AccessTypeOK, DrawId
<1>3. items' \in [1 .. n + 1 -> Item]
  <2>1. [status |-> "open", shown |-> FALSE] \in Item
    BY DEF Item
  <2> QED
    BY <1>2, <2>1
<1>4. AccessTypeOK'
  BY <1>2, <1>3 DEF AccessInv, AccessTypeOK
<1>5. \A i \in DOMAIN items : i \in DOMAIN items' /\ items'[i] = items[i]
  BY <1>1, <1>2
<1>6. NothingIsSkipped'
  BY <1>2, <1>5 DEF AccessInv, NothingIsSkipped, Paging, Matching
<1> QED
  BY <1>2, <1>4, <1>6, CountStays DEF AccessInv

\* Rows are shown, and closed before the eyes of those that read.
LEMMA ItemStep ==
    ASSUME AccessInv, NEW i \in DOMAIN items, CommitItem(i) \/ CloseItem(i)
    PROVE  AccessInv'
<1>1. PICK n \in 0 .. MaxItems : items \in [1 .. n -> Item]
  BY DEF AccessInv, AccessTypeOK
<1>2. UNCHANGED <<client, tokens, usage, clockHour>>
  BY DEF CommitItem, CloseItem
<1>3. items' \in [1 .. n -> Item] /\ DOMAIN items' = DOMAIN items
  <2>1. items[i] \in Item
    BY <1>1
  <2>2. [items[i] EXCEPT !.shown = TRUE] \in Item /\ [items[i] EXCEPT !.status = "closed"] \in Item
    BY <2>1 DEF Item
  <2>3. CASE CommitItem(i)
    <3>1. items' = [items EXCEPT ![i] = [items[i] EXCEPT !.shown = TRUE]]
      BY <1>1, <2>3 DEF CommitItem
    <3> QED
      BY <1>1, <2>2, <3>1
  <2>4. CASE CloseItem(i)
    <3>1. items' = [items EXCEPT ![i] = [items[i] EXCEPT !.status = "closed"]]
      BY <1>1, <2>4 DEF CloseItem
    <3> QED
      BY <1>1, <2>2, <3>1
  <2> QED
    BY <2>3, <2>4
<1>4. \A r \in Readers : reader[r] \in ListReading \cup {NoReading}
  BY DEF AccessInv, AccessTypeOK
<1>5. CASE CommitItem(i)
  <2>1. reader' = reader /\ \A filter : Matching(filter) \subseteq Matching(filter)'
    BY <1>1, <1>5 DEF CommitItem, Matching, Item
  <2>2. NothingIsSkipped'
    BY <2>1 DEF AccessInv, NothingIsSkipped, Paging
  <2>3. AccessTypeOK'
    BY <1>2, <1>3, <2>1 DEF AccessInv, AccessTypeOK
  <2> QED
    BY <1>2, <2>2, <2>3, CountStays DEF AccessInv
<1>6. CASE CloseItem(i)
  <2>1. \A r \in Readers : reader'[r] =
            IF reader[r] # NoReading /\ reader[r].filter = "open"
            THEN [reader[r] EXCEPT !.awaited = reader[r].awaited \ {i}] ELSE reader[r]
    BY <1>6 DEF CloseItem
  <2>2. \A r \in Readers :
            /\ reader'[r] \in ListReading \cup {NoReading}
            /\ reader'[r].at = reader[r].at
            /\ Paging(r) \/ reader[r].at = "ended" =>
                   /\ reader'[r].filter = reader[r].filter /\ reader'[r].cursor = reader[r].cursor
                   /\ reader'[r].seen = reader[r].seen /\ reader'[r].awaited \subseteq reader[r].awaited
                   /\ reader[r].filter = "open" => i \notin reader'[r].awaited
                   /\ reader[r].filter \in {"open", Unlimited}
    <3> SUFFICES ASSUME NEW r \in Readers
                 PROVE  <2>2!(r)
      OBVIOUS
    <3>1. CASE reader[r] = NoReading
      BY <2>1, <3>1 DEF Paging, NoReading
    <3>2. CASE reader[r] \in ListReading /\ reader[r].filter = "open"
      <4>1. reader'[r] = [reader[r] EXCEPT !.awaited = reader[r].awaited \ {i}]
        BY <2>1, <3>2 DEF ListReading, NoReading
      <4>2. reader[r].awaited \ {i} \in SUBSET (1 .. MaxItems)
        BY <3>2 DEF ListReading
      <4> QED
        BY <3>2, <4>1, <4>2 DEF ListReading
    <3>3. CASE reader[r] \in ListReading /\ reader[r].filter # "open"
      <4>1. reader'[r] = reader[r]
        BY <2>1, <3>3
      <4> QED
        BY <3>3, <4>1 DEF ListReading
    <3> QED
      BY <1>4, <3>1, <3>2, <3>3
  <2>3. reader' \in [Readers -> ListReading \cup {NoReading}]
    <3>1. reader' = [r \in Readers |-> reader'[r]]
      BY <1>6 DEF CloseItem
    <3> QED
      BY <2>2, <3>1
  <2>4. /\ \A filter : Matching(filter) \ {i} \subseteq Matching(filter)'
        /\ Matching(Unlimited) \subseteq Matching(Unlimited)'
    BY <1>1, <1>6 DEF CloseItem, Matching, Item
  <2>5. NothingIsSkipped'
    BY <2>2, <2>4 DEF AccessInv, NothingIsSkipped, Paging
  <2>6. AccessTypeOK'
    BY <1>2, <1>3, <2>3 DEF AccessInv, AccessTypeOK
  <2> QED
    BY <1>2, <2>5, <2>6, CountStays DEF AccessInv
<1> QED
  BY <1>5, <1>6

\* A program begins, is let in or sent away, is told to wait, or gives up.
LEMMA CallStep ==
    ASSUME AccessInv, NEW r \in Readers,
           \/ \E c \in Credentials, f \in {"open", Unlimited}, n \in PageSizes : BeginReading(r, c, f, n)
           \/ Authenticate(r) \/ EndReading(r)
    PROVE  AccessInv'
<1>1. UNCHANGED <<client, tokens, usage, items, clockHour>>
  BY DEF BeginReading, Authenticate, EndReading
<1>2. reader \in [Readers -> ListReading \cup {NoReading}] /\ reader[r] \in ListReading \cup {NoReading}
  BY DEF AccessInv, AccessTypeOK
<1>3. /\ reader' \in [Readers -> ListReading \cup {NoReading}]
      /\ \A q \in Readers \ {r} : reader'[q] = reader[q]
      /\ NothingIsSkipped!(r)'
  <2>1. ASSUME NEW c \in Credentials, NEW f \in {"open", Unlimited}, NEW n \in PageSizes,
               BeginReading(r, c, f, n)
        PROVE  <1>3!:
    <3> DEFINE begun == [at |-> "asking", token |-> client[c].token, of |-> c, filter |-> f, size |-> n,
                         cursor |-> 0, seen |-> {}, awaited |-> Matching(f)]
    <3>1. reader' = [reader EXCEPT ![r] = begun]
      BY <2>1 DEF BeginReading
    <3>2. client[c].token \in 0 .. MaxTokens /\ 0 \in 0 .. MaxItems
      BY AccessAssumption DEF AccessInv, AccessTypeOK
    <3>3. Matching(f) \in SUBSET (1 .. MaxItems)
      BY RowsCounted DEF AccessInv, Matching
    <3>4. begun \in ListReading
      BY <3>2, <3>3 DEF ListReading
    <3>5. begun.at = "asking" /\ begun.filter = f /\ begun.cursor = 0 /\ begun.awaited = Matching(f)
      OBVIOUS
    <3> HIDE DEF begun
    <3>6. reader'[r] = begun /\ Matching(f)' = Matching(f)
      BY <1>1, <1>2, <3>1 DEF Matching
    <3>7. NothingIsSkipped!(r)'
      BY <3>3, <3>5, <3>6 DEF Paging
    <3> QED
      BY <1>2, <3>1, <3>4, <3>7
  <2>2. ASSUME reader' = [reader EXCEPT ![r] = NoReading]
        PROVE  <1>3!:
    <3>1. reader'[r].at = "resting"
      BY <1>2, <2>2 DEF NoReading
    <3> QED
      BY <1>2, <2>2, <3>1 DEF Paging
  <2>3. ASSUME reader[r].at = "asking", reader' = [reader EXCEPT ![r] = [reader[r] EXCEPT !.at = "known"]]
        PROVE  <1>3!:
    <3>1. reader[r] \in ListReading
      BY <1>2, <2>3 DEF NoReading
    <3>2. [reader[r] EXCEPT !.at = "known"] \in ListReading
      BY <3>1 DEF ListReading
    <3>3. /\ reader'[r].at = "known" /\ reader'[r].filter = reader[r].filter /\ reader'[r].seen = reader[r].seen
          /\ reader'[r].cursor = reader[r].cursor /\ reader'[r].awaited = reader[r].awaited
      BY <1>2, <2>3, <3>1 DEF ListReading
    <3>4. NothingIsSkipped!(r)'
      BY <1>1, <2>3, <3>3 DEF AccessInv, NothingIsSkipped, Paging, Matching
    <3> QED
      BY <1>2, <2>3, <3>2, <3>4
  <2>4. CASE Authenticate(r)
    BY <1>2, <2>2, <2>3, <2>4 DEF Authenticate
  <2>5. CASE EndReading(r)
    BY <2>2, <2>5 DEF EndReading
  <2> QED
    BY <2>1, <2>4, <2>5
<1>4. NothingIsSkipped'
  BY <1>1, <1>3 DEF AccessInv, NothingIsSkipped, Paging, Matching
<1>5. AccessTypeOK'
  BY <1>1, <1>3 DEF AccessInv, AccessTypeOK
<1> QED
  BY <1>1, <1>4, <1>5, CountStays DEF AccessInv

\* A use is counted before it is allowed; above the limit it is not one.
LEMMA ClaimStep ==
    ASSUME AccessInv, NEW r \in Readers, claim_usage(r)
    PROVE  AccessInv'
<1> DEFINE c == reader[r].of
           use == [of |-> c, hour |-> clockHour, token |-> reader[r].token,
                   number |-> Cardinality(UsedThisHour(r))]
<1>1. /\ reader[r] \in ListReading /\ reader[r].at = "known" /\ c \in Credentials
      /\ reader \in [Readers -> ListReading \cup {NoReading}]
      /\ usage \subseteq [of : Credentials, hour : 0 .. MaxHour, token : 0 .. MaxTokens, number : Nat]
      /\ clockHour \in 0 .. MaxHour /\ clockHour \in Nat /\ RateLimit \in Nat
      /\ UNCHANGED <<client, tokens, items, clockHour>>
  BY AccessAssumption DEF AccessInv, AccessTypeOK, claim_usage, NoReading, ListReading
<1>2. PICK at \in {"asking", "claimed"} : reader' = [reader EXCEPT ![r] = [reader[r] EXCEPT !.at = at]]
  BY <1>1 DEF claim_usage
<1>3. /\ reader' \in [Readers -> ListReading \cup {NoReading}]
      /\ \A q \in Readers \ {r} : reader'[q] = reader[q]
      /\ reader'[r].at = at /\ reader'[r].filter = reader[r].filter /\ reader'[r].seen = reader[r].seen
      /\ reader'[r].cursor = reader[r].cursor /\ reader'[r].awaited = reader[r].awaited
  <2>1. [reader[r] EXCEPT !.at = at] \in ListReading
    BY <1>1 DEF ListReading
  <2> QED
    BY <1>1, <1>2, <2>1 DEF ListReading
<1>4. NothingIsSkipped'
  BY <1>1, <1>3 DEF AccessInv, NothingIsSkipped, Paging, Matching
<1>5. IsFiniteSet(UsedThisHour(r)) /\ Cardinality(UsedThisHour(r)) \in Nat
  BY FS_Subset, FS_CardinalityType DEF AccessInv, Counted, UsedThisHour
<1>6. usage' = usage \/ (usage' = usage \cup {use} /\ Cardinality(UsedThisHour(r)) < RateLimit)
  BY <1>1, <1>5 DEF claim_usage
<1>7. CASE usage' = usage
  <2>1. AccessTypeOK'
    BY <1>1, <1>3, <1>7 DEF AccessInv, AccessTypeOK
  <2> QED
    BY <1>4, <1>7, <2>1, CountStays DEF AccessInv
<1>8. CASE usage' = usage \cup {use} /\ Cardinality(UsedThisHour(r)) < RateLimit
  <2>1. use \in [of : Credentials, hour : 0 .. MaxHour, token : 0 .. MaxTokens, number : Nat]
    BY <1>1, <1>5 DEF ListReading
  <2>2. use.of = c /\ use.hour = clockHour
    OBVIOUS
  <2> HIDE DEF use
  <2>3. AccessTypeOK'
    BY <1>1, <1>3, <1>8, <2>1 DEF AccessInv, AccessTypeOK
  <2>4. IsFiniteSet(usage')
    BY <1>8, FS_AddElement DEF AccessInv, Counted
  <2>5. ASSUME NEW d \in Credentials, NEW h \in Nat
        PROVE  Cardinality({u \in usage' : u.of = d /\ u.hour = h}) <= RateLimit
    <3>1. CASE d = c /\ h = clockHour
      <4>1. {u \in usage' : u.of = d /\ u.hour = h} = UsedThisHour(r) \cup {use}
        BY <1>8, <2>2, <3>1 DEF UsedThisHour
      <4>2. Cardinality(UsedThisHour(r) \cup {use})
                = IF use \in UsedThisHour(r) THEN Cardinality(UsedThisHour(r))
                  ELSE Cardinality(UsedThisHour(r)) + 1
        BY <1>5, FS_AddElement
      <4>3. Cardinality(UsedThisHour(r) \cup {use}) <= RateLimit
        BY <1>1, <1>5, <1>8, <4>2
      <4> QED
        BY <4>1, <4>3
    <3>2. CASE ~(d = c /\ h = clockHour)
      <4>1. {u \in usage' : u.of = d /\ u.hour = h} = {u \in usage : u.of = d /\ u.hour = h}
        BY <1>8, <2>2, <3>2
      <4> QED
        BY <4>1 DEF AccessInv, Counted
    <3> QED
      BY <3>1, <3>2
  <2>6. Counted'
    BY <2>4, <2>5 DEF Counted
  <2> QED
    BY <1>4, <2>3, <2>6 DEF AccessInv
<1> QED
  BY <1>6, <1>7, <1>8

\* The page is a beginning of what there is beyond the cursor.
LEMMA PageStep ==
    ASSUME AccessInv, NEW r \in Readers, _page(r)
    PROVE  AccessInv'
<1> DEFINE size == reader[r].size
           found == Found(r)
           more == Cardinality(found) > size
           next == IF more THEN Cursor(found, size) ELSE 0
           at == IF more THEN "asking" ELSE "ended"
           seen == reader[r].seen \cup FirstOf(found, size)
<1>1. /\ reader[r] \in ListReading /\ reader[r].at = "claimed" /\ size \in PageSizes
      /\ reader \in [Readers -> ListReading \cup {NoReading}]
      /\ UNCHANGED <<client, tokens, usage, items, clockHour>>
  BY DEF AccessInv, AccessTypeOK, _page, NoReading, ListReading
<1>2. found \in SUBSET DOMAIN items /\ DOMAIN items \subseteq 1 .. MaxItems
  BY RowsCounted DEF AccessInv, Found, Matching
<1>3. /\ more => next \in FirstOf(found, size) /\ \A i \in found : i <= next => i \in FirstOf(found, size)
      /\ ~more => FirstOf(found, size) = found /\ next = 0
  BY <1>1, <1>2, PagesAreWhole DEF AccessInv
<1>4. next \in 0 .. MaxItems /\ seen \in SUBSET (1 .. MaxItems) /\ at \in {"asking", "ended"}
  <2>1. FirstOf(found, size) \subseteq found /\ 0 \in 0 .. MaxItems
    BY AccessAssumption DEF FirstOf
  <2>2. reader[r].seen \in SUBSET (1 .. MaxItems)
    BY <1>1 DEF ListReading
  <2> QED
    BY <1>2, <1>3, <2>1, <2>2
<1>5. reader' = [reader EXCEPT ![r] = [reader[r] EXCEPT !.seen = seen, !.at = at, !.cursor = next]]
  BY <1>1 DEF _page
<1> HIDE DEF next, at, seen
<1>6. /\ reader' \in [Readers -> ListReading \cup {NoReading}]
      /\ \A q \in Readers \ {r} : reader'[q] = reader[q]
      /\ reader'[r].at = at /\ reader'[r].filter = reader[r].filter /\ reader'[r].seen = seen
      /\ reader'[r].cursor = next /\ reader'[r].awaited = reader[r].awaited
  <2>1. [reader[r] EXCEPT !.seen = seen, !.at = at, !.cursor = next] \in ListReading
    BY <1>1, <1>4 DEF ListReading
  <2> QED
    BY <1>1, <1>5, <2>1 DEF ListReading
<1>7. ASSUME NEW i \in reader[r].awaited
      PROVE  /\ i \in Matching(reader[r].filter)
             /\ i \in seen \/ i \in found
  <2>1. i \in Matching(reader[r].filter) /\ (i <= reader[r].cursor => i \in reader[r].seen)
    BY <1>1 DEF AccessInv, NothingIsSkipped, Paging
  <2>2. i \in Nat /\ reader[r].cursor \in Nat
    BY <1>1, AccessAssumption DEF ListReading
  <2> QED
    BY <2>1, <2>2 DEF Found, seen
<1>8. NothingIsSkipped!(r)'
  <2>1. CASE more
    <3>1. at = "asking"
      BY <2>1 DEF at
    <3>2. \A i \in reader[r].awaited : i <= next => i \in seen
      BY <1>3, <1>7, <2>1 DEF seen
    <3> QED
      BY <1>1, <1>6, <1>7, <3>1, <3>2 DEF Paging, Matching
  <2>2. CASE ~more
    <3>1. at = "ended"
      BY <2>2 DEF at
    <3>2. reader[r].awaited \subseteq seen
      BY <1>3, <1>7, <2>2 DEF seen
    <3> QED
      BY <1>6, <3>1, <3>2 DEF Paging
  <2> QED
    BY <2>1, <2>2
<1>9. NothingIsSkipped'
  BY <1>1, <1>6, <1>8 DEF AccessInv, NothingIsSkipped, Paging, Matching
<1>10. AccessTypeOK'
  BY <1>1, <1>6 DEF AccessInv, AccessTypeOK
<1> QED
  BY <1>1, <1>9, <1>10, CountStays DEF AccessInv

\* Every step keeps it.
LEMMA AccessInvStep == AccessInv /\ [AccessNext]_accessVars => AccessInv'
<1> SUFFICES ASSUME AccessInv, [AccessNext]_accessVars
             PROVE  AccessInv'
  OBVIOUS
<1>1. CASE UNCHANGED accessVars
  BY <1>1 DEF accessVars, AccessInv, AccessTypeOK, NothingIsSkipped, Paging, Matching, Counted
<1>2. CASE AccessNext
  BY <1>2, CredentialStep, DrawIdStep, ItemStep, CallStep, ClaimStep, PageStep DEF AccessNext
<1> QED
  BY <1>1, <1>2

\* A program that followed the cursors to the end has seen every row that was there
\* all the while, and no client is served more than its limit in an hour
\* (OperatorAccess!CallsAreServed, store/operator_operations.py _page,
\* store/operator_api.py claim_usage).
THEOREM CallsAreServedHolds == AccessSpec => []CallsAreServed
<1>1. AccessInv => CallsAreServed
  <2> SUFFICES ASSUME AccessInv
               PROVE  CallsAreServed
    OBVIOUS
  <2>1. ReadingIsComplete
    BY DEF AccessInv, NothingIsSkipped, ReadingIsComplete
  <2>2. RateIsKept
    <3>1. 0 .. clockHour \subseteq Nat
      BY AccessAssumption DEF AccessInv, AccessTypeOK
    <3> QED
      BY <3>1 DEF AccessInv, Counted, RateIsKept
  <2> QED
    BY <2>1, <2>2 DEF CallsAreServed
<1> QED
  BY <1>1, AccessInvInit, AccessInvStep, PTL DEF AccessSpec
=============================================================================
