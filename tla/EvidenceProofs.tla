--------------------------- MODULE EvidenceProofs ---------------------------
(***************************************************************************)
(* Proofs about the grid operator's files as evidence of a month: what is  *)
(* read under the locks still holds at the commit, a month has one live    *)
(* delivery, and requests that wait for locks never wait in a circle;      *)
(* about the portal in which those operators keep their accounts; and      *)
(* about the archive of a community, restored beside sessions that write.  *)
(***************************************************************************)
EXTENDS SourceEvidence, UtilityPortal, CommunityArchive,
        FiniteSetTheorems, SequenceTheorems, WellFoundedInduction, TLAPS

-----------------------------------------------------------------------------
(* The inductive invariant.                                                *)

\* A request that waits for its locks, by what it is going to do.
Waiting(kind, Args) == [at : {"waiting"}, kind : {kind}, arg : Args, plan : Seq(Lockables)]

\* Jobs between the request and the lock.
WaitingJobs ==
    Waiting("ingest", [file : Sources]) \cup Waiting("withdraw", [file : Sources])
    \cup Waiting("list", [point : Metered, binding : Bindings])
    \cup Waiting("statement", [point : Metered, covers : BOOLEAN])

\* The locks a waiting request needs before it goes on.
NeedsOf(job) ==
    IF job.kind = "ingest" THEN PointsIn(job.arg.file) \cup {"community"}
    ELSE IF job.kind = "withdraw" THEN {"community"}
    ELSE IF job.kind = "list" THEN {job.arg.point}
    ELSE {job.arg.point, "community"}

\* It holds what it needs or is going to take it, in the order of the places,
\* above everything it holds.
OrderlyWait(j) ==
    /\ \A l \in NeedsOf(work[j]) : lock[l] = j \/ \E n \in DOMAIN work[j].plan : work[j].plan[n] = l
    /\ \A m, n \in DOMAIN work[j].plan : m < n => Place(work[j].plan[m]) < Place(work[j].plan[n])
    /\ \A l \in Lockables, n \in DOMAIN work[j].plan : lock[l] = j => Place(l) < Place(work[j].plan[n])

\* It holds the locks of its points and of the community, and what it read
\* under them has not changed.
FirmEvidence(j) ==
    /\ work[j].file \in Sources
    /\ lock["community"] = j /\ \A p \in PointsIn(work[j].file) : lock[p] = j
    /\ DOMAIN work[j].mapping = PointsIn(work[j].file)
    /\ \A p \in DOMAIN work[j].mapping : LET m == work[j].mapping[p] IN
           /\ m.binding = binding[p] /\ enrolment[m.binding.house] = "confirmed"
           /\ m.statement.of = m.binding /\ m.statement.covers
    /\ LiveEvidence = {} /\ ~IdentityConflict(work[j].file)

\* What a job holds agrees with the rows it read, for as long as it holds the locks.
JobOK(j) ==
    \/ work[j] = NoJob /\ \A l \in Lockables : lock[l] # j
    \/ work[j] \in WaitingJobs /\ OrderlyWait(j)
    \/ work[j].at = "saving" /\ FirmEvidence(j)

\* Every lock is held by a job or by nobody, and every job has one of its shapes.
LocksAreKept ==
    /\ lock \in [Lockables -> Jobs \cup {Undated}]
    /\ \A j \in Jobs : JobOK(j)

\* A statement is of the binding of its point, evidence is one per point, and the stored
\* rows are of the accepted files.
RecordsAgree ==
    /\ binding \in [Metered -> Bindings]
    /\ \A p \in Metered : statement[p] # Undated => statement[p].of = binding[p]
    /\ \A x, y \in LiveEvidence : x = y
    /\ \A x, y \in stored : x[1] = y[1] => x = y
    /\ {x[2] : x \in stored} = {d.file : d \in accepted}

\* The inductive invariant behind EvidenceIsBound.
EvidenceInv == DOMAIN work = Jobs /\ DOMAIN statement = Metered /\ LocksAreKept /\ RecordsAgree

-----------------------------------------------------------------------------
(* Requests and their locks.                                               *)

\* The stages of a request cannot be confused.
LEMMA Stages ==
    ASSUME EvidenceInv, NEW j \in Jobs
    PROVE  /\ work[j].at = "idle" => work[j] = NoJob /\ \A l \in Lockables : lock[l] # j
           /\ work[j].at = "waiting" => work[j] \in WaitingJobs /\ OrderlyWait(j)
           /\ work[j].at = "saving" => FirmEvidence(j)
           /\ work[j].at \in {"idle", "waiting", "saving"}
<1>1. work[j] = NoJob => work[j].at = "idle"
    BY DEF NoJob
<1>2. work[j] \in WaitingJobs => work[j].at = "waiting"
    BY DEF WaitingJobs, Waiting
<1>3. JobOK(j)
    BY DEF EvidenceInv, LocksAreKept
<1> QED BY <1>1, <1>2, <1>3 DEF JobOK

\* Only one request at a time is between its last read and its commit.
LEMMA OneSaves ==
    ASSUME EvidenceInv, NEW i \in Jobs, NEW j \in Jobs, work[i].at = "saving", work[j].at = "saving"
    PROVE  i = j
BY Stages DEF FirmEvidence

\* What another request does leaves this one as it is, if it takes or frees
\* none of its locks and, while it saves, changes nothing it read.
LEMMA OthersKept ==
    ASSUME EvidenceInv, NEW i \in Jobs, work'[i] = work[i],
           \A l \in Lockables : lock'[l] = i <=> lock[l] = i,
           work[i].at = "saving" =>
               /\ \A p \in PointsIn(work[i].file) : binding'[p] = binding[p]
               /\ \A o : enrolment[o] = "confirmed" => enrolment'[o] = "confirmed"
               /\ LiveEvidence' = {} /\ \A x \in stored' : x[1] # IdOf[work[i].file]
    PROVE  JobOK(i)'
<1> USE DEF EvidenceInv
<1>1. CASE work[i].at = "idle"
    BY <1>1, Stages DEF JobOK
<1>2. CASE work[i].at = "waiting"
    <2>1. work[i] \in WaitingJobs /\ OrderlyWait(i)
        BY <1>2, Stages
    <2>2. NeedsOf(work[i]) \subseteq Lockables
        BY <2>1, SourceAssumption DEF NeedsOf, WaitingJobs, Waiting, Lockables, PointsIn
    <2>3. OrderlyWait(i)'
        BY <2>1, <2>2 DEF OrderlyWait
    <2> QED BY <2>1, <2>3 DEF JobOK
<1>3. CASE work[i].at = "saving"
    <2>1. FirmEvidence(i)
        BY <1>3, Stages
    <2>2. PointsIn(work[i].file) \subseteq Lockables /\ "community" \in Lockables
        BY <2>1, SourceAssumption DEF FirmEvidence, PointsIn, Lockables
    <2>3. FirmEvidence(i)'
        BY <1>3, <2>1, <2>2 DEF FirmEvidence, IdentityConflict
    <2> QED BY <1>3, <2>3 DEF JobOK
<1> QED BY <1>1, <1>2, <1>3, Stages

\* A request that ends frees its locks and no others.
LEMMA EndedJob ==
    ASSUME EvidenceInv, NEW j \in Jobs, End(j)
    PROVE  /\ lock' \in [Lockables -> Jobs \cup {Undated}] /\ DOMAIN work' = Jobs /\ JobOK(j)'
           /\ \A i \in Jobs \ {j} : /\ work'[i] = work[i]
                                    /\ \A l \in Lockables : lock'[l] = i <=> lock[l] = i
<1>1. work' = [work EXCEPT ![j] = NoJob] /\ lock' = [l \in Lockables |-> IF lock[l] = j THEN Undated ELSE lock[l]]
    BY DEF End, Release
<1>2. Undated # j /\ \A i \in Jobs : Undated # i
    BY SourceAssumption
<1>3. lock' \in [Lockables -> Jobs \cup {Undated}] /\ DOMAIN work' = Jobs
    BY <1>1 DEF EvidenceInv, LocksAreKept
<1>4. work'[j] = NoJob /\ \A l \in Lockables : lock'[l] # j
    BY <1>1, <1>2 DEF EvidenceInv
<1>5. JobOK(j)'
    BY <1>4 DEF JobOK
<1> QED BY <1>1, <1>2, <1>3, <1>5 DEF EvidenceInv

\* What may be asked for, and the points it is about.
Requested(kind, arg, S) ==
    \/ kind = "ingest" /\ \E s \in Sources : arg = [file |-> s] /\ S = PointsIn(s)
    \/ kind = "withdraw" /\ (\E s \in Sources : arg = [file |-> s]) /\ S = {}
    \/ kind = "list" /\ \E p \in Metered, b \in Bindings : arg = [point |-> p, binding |-> b] /\ S = {p}
    \/ kind = "statement" /\ \E p \in Metered, c \in BOOLEAN : arg = [point |-> p, covers |-> c] /\ S = {p}

\* A request that begins plans exactly the locks it needs, in order.
LEMMA BegunJob ==
    ASSUME EvidenceInv, NEW j \in Jobs, BeginSome(j)
    PROVE  /\ DOMAIN work' = Jobs /\ JobOK(j)' /\ \A i \in Jobs \ {j} : work'[i] = work[i]
           /\ UNCHANGED <<binding, statement, enrolment, accepted, withdrawn, stored, lock>>
<1>1. PICK kind, arg, S :
          /\ Begin(j, kind, arg, S)
          /\ Requested(kind, arg, S)
    <2>1. ASSUME NEW s \in Sources, Begin(j, "ingest", [file |-> s], PointsIn(s))
          PROVE  \E kind, arg, S : Begin(j, kind, arg, S) /\ Requested(kind, arg, S)
        <3>1. Requested("ingest", [file |-> s], PointsIn(s))
            BY DEF Requested
        <3> QED BY <2>1, <3>1
    <2>2. ASSUME NEW s \in Sources, Begin(j, "withdraw", [file |-> s], {})
          PROVE  \E kind, arg, S : Begin(j, kind, arg, S) /\ Requested(kind, arg, S)
        <3>1. Requested("withdraw", [file |-> s], {})
            BY DEF Requested
        <3> QED BY <2>2, <3>1
    <2>3. ASSUME NEW p \in Metered, NEW b \in Bindings, Begin(j, "list", [point |-> p, binding |-> b], {p})
          PROVE  \E kind, arg, S : Begin(j, kind, arg, S) /\ Requested(kind, arg, S)
        <3>1. Requested("list", [point |-> p, binding |-> b], {p})
            BY DEF Requested
        <3> QED BY <2>3, <3>1
    <2>4. ASSUME NEW p \in Metered, NEW c \in BOOLEAN, Begin(j, "statement", [point |-> p, covers |-> c], {p})
          PROVE  \E kind, arg, S : Begin(j, kind, arg, S) /\ Requested(kind, arg, S)
        <3>1. Requested("statement", [point |-> p, covers |-> c], {p})
            BY DEF Requested
        <3> QED BY <2>4, <3>1
    <2> QED BY <2>1, <2>2, <2>3, <2>4 DEF BeginSome
<1>2. PICK plan \in Sorted(LocksFor(kind, S)) :
          work' = [work EXCEPT ![j] = [at |-> "waiting", kind |-> kind, arg |-> arg, plan |-> plan]]
    BY <1>1 DEF Begin
<1>3. S \subseteq Metered /\ LocksFor(kind, S) \subseteq Lockables
    BY <1>1, SourceAssumption DEF Requested, PointsIn, LocksFor, Lockables
<1> DEFINE job == [at |-> "waiting", kind |-> kind, arg |-> arg, plan |-> plan]
<1>4. NeedsOf(job) = LocksFor(kind, S)
    BY <1>1 DEF Requested, NeedsOf, LocksFor
<1>5. plan \in Seq(Lockables)
    <2>1. IsFiniteSet(LocksFor(kind, S))
        <3>1. IsFiniteSet(S)
            BY <1>3, SourceAssumption, FS_Subset
        <3> QED BY <3>1, FS_AddElement DEF LocksFor
    <2>2. Cardinality(LocksFor(kind, S)) \in Nat
        BY <2>1, FS_CardinalityType
    <2>3. plan \in [1 .. Cardinality(LocksFor(kind, S)) -> LocksFor(kind, S)]
        BY <1>2 DEF Sorted
    <2> QED BY <1>3, <2>2, <2>3
<1>6. job \in WaitingJobs
    BY <1>1, <1>5 DEF Requested, WaitingJobs, Waiting
<1>7. work'[j] = job
    BY <1>2 DEF EvidenceInv
<1>8. UNCHANGED <<binding, statement, enrolment, accepted, withdrawn, stored, lock>> /\ work[j] = NoJob
    BY <1>1 DEF Begin
<1>9. \A l \in Lockables : lock[l] # j
    BY <1>8, Stages DEF NoJob
<1>10. /\ \A l \in LocksFor(kind, S) : \E n \in DOMAIN plan : plan[n] = l
       /\ \A m, n \in DOMAIN plan : m < n => Place(plan[m]) < Place(plan[n])
    BY <1>2 DEF Sorted
<1> HIDE DEF job
<1>11. job.plan = plan
    BY DEF job
<1>12. OrderlyWait(j)'
    BY <1>4, <1>7, <1>8, <1>9, <1>10, <1>11 DEF OrderlyWait, EvidenceInv, LocksAreKept
<1> QED BY <1>2, <1>6, <1>7, <1>8, <1>12 DEF JobOK, EvidenceInv

\* A lock taken is the first of the plan, above all that is held.
LEMMA AcquiredLock ==
    ASSUME EvidenceInv, NEW j \in Jobs, Acquire(j)
    PROVE  /\ lock' \in [Lockables -> Jobs \cup {Undated}] /\ DOMAIN work' = Jobs /\ JobOK(j)'
           /\ UNCHANGED <<binding, statement, enrolment, accepted, withdrawn, stored>>
           /\ \A i \in Jobs \ {j} : /\ work'[i] = work[i]
                                    /\ \A l \in Lockables : lock'[l] = i <=> lock[l] = i
<1> DEFINE old == work[j] plan == old.plan first == Head(plan)
           new == [at |-> "waiting", kind |-> old.kind, arg |-> old.arg, plan |-> Tail(plan)]
<1>1. /\ old \in WaitingJobs /\ OrderlyWait(j) /\ plan # << >>
      /\ lock[first] = Undated /\ lock' = [lock EXCEPT ![first] = j]
      /\ work' = [work EXCEPT ![j] = new]
      /\ UNCHANGED <<binding, statement, enrolment, accepted, withdrawn, stored>>
    BY Stages DEF Acquire
<1>2. plan \in Seq(Lockables) /\ new \in [at : {"waiting"}, kind : {old.kind}, arg : {old.arg}, plan : {Tail(plan)}]
    BY <1>1 DEF WaitingJobs, Waiting
<1>3. /\ first \in Lockables /\ first = plan[1] /\ 1 \in DOMAIN plan /\ Tail(plan) \in Seq(Lockables)
      /\ Len(plan) \in Nat /\ DOMAIN plan = 1 .. Len(plan) /\ DOMAIN Tail(plan) = 1 .. Len(plan) - 1
      /\ \A n \in DOMAIN Tail(plan) : Tail(plan)[n] = plan[n + 1]
    BY <1>1, <1>2, EmptySeq, LenProperties, HeadTailProperties
<1>4. new \in WaitingJobs
    BY <1>1, <1>3 DEF WaitingJobs, Waiting
<1>5. NeedsOf(new) = NeedsOf(old)
    BY DEF NeedsOf
<1>6. new.plan = Tail(plan)
    OBVIOUS
<1>7. lock \in [Lockables -> Jobs \cup {Undated}] /\ DOMAIN work = Jobs /\ \A i \in Jobs : i # Undated
    BY SourceAssumption DEF EvidenceInv, LocksAreKept
<1>8. lock' \in [Lockables -> Jobs \cup {Undated}] /\ work'[j] = new /\ DOMAIN work' = Jobs
    BY <1>1, <1>3, <1>7
<1>9. \A l \in Lockables : lock'[l] = j <=> lock[l] = j \/ l = first
    BY <1>1, <1>3, <1>7
<1>10. /\ \A l \in NeedsOf(old) : lock[l] = j \/ \E n \in DOMAIN plan : plan[n] = l
       /\ \A m, n \in DOMAIN plan : m < n => Place(plan[m]) < Place(plan[n])
       /\ \A l \in Lockables, n \in DOMAIN plan : lock[l] = j => Place(l) < Place(plan[n])
    BY <1>1 DEF OrderlyWait
<1>11. NeedsOf(old) \subseteq Lockables
    BY <1>1, SourceAssumption DEF NeedsOf, WaitingJobs, Waiting, Lockables, PointsIn
<1> HIDE DEF old, plan, first, new
<1>12. \A n \in DOMAIN Tail(plan) : n \in Nat /\ n + 1 \in DOMAIN plan /\ 1 < n + 1
    BY <1>3
<1>13. ASSUME NEW l \in NeedsOf(old)
       PROVE  lock'[l] = j \/ \E n \in DOMAIN Tail(plan) : Tail(plan)[n] = l
    <2>1. CASE lock[l] = j
        BY <1>9, <1>11, <2>1
    <2>2. CASE \E n \in DOMAIN plan : plan[n] = l
        <3>1. PICK n \in DOMAIN plan : plan[n] = l
            BY <2>2
        <3>2. CASE n = 1
            BY <1>3, <1>9, <3>1, <3>2
        <3>3. CASE n # 1
            <4>1. n - 1 \in DOMAIN Tail(plan) /\ (n - 1) + 1 = n
                BY <1>3, <3>3
            <4> QED BY <1>3, <3>1, <4>1
        <3> QED BY <3>2, <3>3
    <2> QED BY <1>10, <2>1, <2>2
<1>14. ASSUME NEW m \in DOMAIN Tail(plan), NEW n \in DOMAIN Tail(plan), m < n
       PROVE  Place(Tail(plan)[m]) < Place(Tail(plan)[n])
    BY <1>3, <1>10, <1>12, <1>14
<1>15. ASSUME NEW l \in Lockables, NEW n \in DOMAIN Tail(plan), lock'[l] = j
       PROVE  Place(l) < Place(Tail(plan)[n])
    BY <1>3, <1>9, <1>10, <1>12, <1>15
<1>16. OrderlyWait(j)'
    BY <1>5, <1>6, <1>8, <1>13, <1>14, <1>15 DEF OrderlyWait
<1>17. \A i \in Jobs \ {j} : work'[i] = work[i] /\ \A l \in Lockables : lock'[l] = i <=> lock[l] = i
    BY <1>1, <1>3, <1>7
<1> QED BY <1>1, <1>4, <1>8, <1>16, <1>17 DEF JobOK

\* A request with all its locks holds every one it needs.
LEMMA LocksHeld ==
    ASSUME EvidenceInv, NEW j \in Jobs, NEW kind, HasLocks(j, kind)
    PROVE  work[j] \in WaitingJobs /\ work[j].kind = kind /\ \A l \in NeedsOf(work[j]) : lock[l] = j
<1>1. work[j] \in WaitingJobs /\ OrderlyWait(j) /\ work[j].kind = kind /\ work[j].plan = << >>
    BY Stages DEF HasLocks
<1> QED BY <1>1 DEF OrderlyWait

\* Whoever holds the lock of the community saves alone.
LEMMA SavesAlone ==
    ASSUME EvidenceInv, NEW j \in Jobs, lock["community"] = j
    PROVE  \A i \in Jobs \ {j} : work[i].at # "saving"
BY Stages DEF FirmEvidence

-----------------------------------------------------------------------------
(* The steps.                                                              *)

\* A list of points changes a binding under the lock of its point, and the
\* statement made for another binding goes with it.
LEMMA ListStep ==
    ASSUME EvidenceInv, NEW j \in Jobs, upsert_binding(j)
    PROVE  EvidenceInv'
<1> DEFINE p == work[j].arg.point b == work[j].arg.binding
<1>1. /\ HasLocks(j, "list") /\ End(j)
      /\ binding' = [binding EXCEPT ![p] = b]
      /\ statement' = [statement EXCEPT ![p] = StatementAfter(p, b)]
      /\ UNCHANGED <<enrolment, accepted, withdrawn, stored, begun>>
    BY DEF upsert_binding
<1>2. p \in Metered /\ b \in Bindings /\ lock[p] = j
    <2>1. work[j] \in WaitingJobs /\ work[j].kind = "list" /\ \A l \in NeedsOf(work[j]) : lock[l] = j
        BY <1>1, LocksHeld
    <2>2. p \in Metered /\ b \in Bindings
        BY <2>1 DEF WaitingJobs, Waiting
    <2> QED BY <2>1, <2>2 DEF NeedsOf
<1> HIDE DEF p, b
<1>3. LiveEvidence' = LiveEvidence /\ \A s : IdentityConflict(s)' = IdentityConflict(s)
    BY <1>1 DEF LiveEvidence, IdentityConflict
<1>4. \A q \in Metered \ {p} : binding'[q] = binding[q] /\ statement'[q] = statement[q]
    BY <1>1 DEF EvidenceInv, RecordsAgree
<1>5. /\ lock' \in [Lockables -> Jobs \cup {Undated}] /\ DOMAIN work' = Jobs /\ JobOK(j)'
      /\ \A i \in Jobs \ {j} : /\ work'[i] = work[i]
                               /\ \A l \in Lockables : lock'[l] = i <=> lock[l] = i
    BY <1>1, EndedJob
<1>6. ASSUME NEW i \in Jobs \ {j} PROVE JobOK(i)'
    <2>1. ASSUME work[i].at = "saving"
          PROVE  /\ \A q \in PointsIn(work[i].file) : binding'[q] = binding[q]
                 /\ \A o : enrolment[o] = "confirmed" => enrolment'[o] = "confirmed"
                 /\ LiveEvidence' = {} /\ \A x \in stored' : x[1] # IdOf[work[i].file]
        <3>1. FirmEvidence(i)
            BY <2>1, Stages
        <3>2. PointsIn(work[i].file) \subseteq Metered /\ p \notin PointsIn(work[i].file)
            BY <1>2, <3>1, SourceAssumption DEF FirmEvidence, PointsIn
        <3> QED BY <1>1, <1>3, <1>4, <3>1, <3>2 DEF FirmEvidence, IdentityConflict
    <2> QED BY <1>5, <2>1, OthersKept
<1>7. statement'[p] # Undated => statement'[p].of = binding'[p]
    BY <1>1, <1>2 DEF EvidenceInv, RecordsAgree, StatementAfter
<1>8. RecordsAgree'
    BY <1>1, <1>2, <1>3, <1>4, <1>7 DEF EvidenceInv, RecordsAgree
<1> QED BY <1>1, <1>5, <1>6, <1>8 DEF EvidenceInv, LocksAreKept

\* A statement is dated for the binding read under the locks.
LEMMA StatementStep ==
    ASSUME EvidenceInv, NEW j \in Jobs, record_calculated_meter_assignment(j)
    PROVE  EvidenceInv'
<1> DEFINE p == work[j].arg.point dated == [covers |-> work[j].arg.covers, of |-> binding[p]]
<1>1. /\ End(j) /\ UNCHANGED <<binding, enrolment, accepted, withdrawn, stored, begun>>
      /\ statement' = [statement EXCEPT ![p] = dated] \/ UNCHANGED statement
    BY DEF record_calculated_meter_assignment
<1>2. dated.of = binding[p]
    OBVIOUS
<1> HIDE DEF p, dated
<1>3. LiveEvidence' = LiveEvidence /\ \A s : IdentityConflict(s)' = IdentityConflict(s)
    BY <1>1 DEF LiveEvidence, IdentityConflict
<1>4. /\ lock' \in [Lockables -> Jobs \cup {Undated}] /\ DOMAIN work' = Jobs /\ JobOK(j)'
      /\ \A i \in Jobs \ {j} : /\ work'[i] = work[i]
                               /\ \A l \in Lockables : lock'[l] = i <=> lock[l] = i
    BY <1>1, EndedJob
<1>5. ASSUME NEW i \in Jobs \ {j} PROVE JobOK(i)'
    <2>1. ASSUME work[i].at = "saving" PROVE LiveEvidence' = {} /\ \A x \in stored' : x[1] # IdOf[work[i].file]
        BY <1>1, <1>3, <2>1, Stages DEF FirmEvidence, IdentityConflict
    <2> QED BY <1>1, <1>4, <2>1, OthersKept
<1>6. RecordsAgree' /\ DOMAIN statement' = Metered
    BY <1>1, <1>2, <1>3 DEF EvidenceInv, RecordsAgree
<1> QED BY <1>1, <1>4, <1>5, <1>6 DEF EvidenceInv, LocksAreKept

\* A withdrawal holds the community's lock: nobody is about to commit.
LEMMA WithdrawStep ==
    ASSUME EvidenceInv, NEW j \in Jobs, withdraw_delivery(j)
    PROVE  EvidenceInv'
<1>1. /\ HasLocks(j, "withdraw") /\ End(j) /\ withdrawn \subseteq withdrawn'
      /\ UNCHANGED <<binding, statement, enrolment, accepted, stored, begun>>
    BY DEF withdraw_delivery
<1>2. lock["community"] = j
    BY <1>1, LocksHeld DEF NeedsOf
<1>3. LiveEvidence' \subseteq LiveEvidence
    BY <1>1 DEF LiveEvidence
<1>4. /\ lock' \in [Lockables -> Jobs \cup {Undated}] /\ DOMAIN work' = Jobs /\ JobOK(j)'
      /\ \A i \in Jobs \ {j} : /\ work'[i] = work[i]
                               /\ \A l \in Lockables : lock'[l] = i <=> lock[l] = i
    BY <1>1, EndedJob
<1>5. \A i \in Jobs \ {j} : JobOK(i)'
    BY <1>2, <1>4, SavesAlone, OthersKept
<1>6. RecordsAgree'
    BY <1>1, <1>3 DEF EvidenceInv, RecordsAgree
<1> QED BY <1>1, <1>4, <1>5, <1>6 DEF EvidenceInv, LocksAreKept

\* What a file is accepted by is read under its locks.
LEMMA ReadStep ==
    ASSUME EvidenceInv, NEW j \in Jobs, ReadMapping(j)
    PROVE  EvidenceInv'
<1> DEFINE s == work[j].arg.file mapping == MappingOf(s)
<1>1. HasLocks(j, "ingest") /\ UNCHANGED <<binding, statement, enrolment, accepted, withdrawn, stored, begun>>
    BY DEF ReadMapping
<1>2. work[j] \in WaitingJobs /\ work[j].kind = "ingest" /\ \A l \in NeedsOf(work[j]) : lock[l] = j
    BY <1>1, LocksHeld
<1>3. s \in Sources
    BY <1>2 DEF WaitingJobs, Waiting
<1>4. lock["community"] = j /\ \A p \in PointsIn(s) : lock[p] = j
    BY <1>2 DEF NeedsOf
<1>5. LiveEvidence' = LiveEvidence /\ \A x : IdentityConflict(x)' = IdentityConflict(x)
    BY <1>1 DEF LiveEvidence, IdentityConflict
<1>6. RecordsAgree' /\ DOMAIN statement' = Metered
    BY <1>1, <1>5 DEF EvidenceInv, RecordsAgree
<1>7. CASE End(j)
    <2>1. /\ lock' \in [Lockables -> Jobs \cup {Undated}] /\ DOMAIN work' = Jobs /\ JobOK(j)'
          /\ \A i \in Jobs \ {j} : /\ work'[i] = work[i]
                                   /\ \A l \in Lockables : lock'[l] = i <=> lock[l] = i
        BY <1>7, EndedJob
    <2>2. \A i \in Jobs \ {j} : JobOK(i)'
        BY <1>4, <2>1, SavesAlone, OthersKept
    <2> QED BY <1>6, <2>1, <2>2 DEF EvidenceInv, LocksAreKept
<1>8. CASE /\ ~IdentityConflict(s) /\ build_delivery(s, mapping) /\ accept_delivery(s, mapping)
           /\ work' = [work EXCEPT ![j] = [at |-> "saving", file |-> s, mapping |-> mapping]]
           /\ UNCHANGED lock
    <2>1. /\ DOMAIN mapping = PointsIn(s)
          /\ \A p \in DOMAIN mapping : mapping[p].statement # Undated /\ mapping[p].statement.covers
        BY <1>8 DEF build_delivery
    <2>2. LiveEvidence = {}
        BY <1>8 DEF accept_delivery
    <2>3. ASSUME NEW p \in DOMAIN mapping
          PROVE  /\ mapping[p].binding = binding[p] /\ enrolment[mapping[p].binding.house] = "confirmed"
                 /\ mapping[p].statement.of = mapping[p].binding /\ mapping[p].statement.covers
        <3>1. enrolment[binding[p].house] = "confirmed" /\ mapping[p] = [binding |-> binding[p], statement |-> statement[p]]
            BY DEF MappingOf
        <3>2. p \in Metered
            BY <1>3, <2>1, SourceAssumption DEF PointsIn
        <3>3. statement[p] # Undated => statement[p].of = binding[p]
            BY <3>2 DEF EvidenceInv, RecordsAgree
        <3> QED BY <2>1, <3>1, <3>3
    <2> HIDE DEF mapping, s
    <2>4. work'[j].at = "saving" /\ work'[j].file = s /\ work'[j].mapping = mapping
        BY <1>8 DEF EvidenceInv
    <2>5. FirmEvidence(j)'
        BY <1>1, <1>3, <1>4, <1>5, <1>8, <2>1, <2>2, <2>3, <2>4 DEF FirmEvidence
    <2>6. \A i \in Jobs \ {j} : work'[i] = work[i] /\ work[i].at # "saving"
        BY <1>4, <1>8, SavesAlone DEF EvidenceInv
    <2>7. \A i \in Jobs \ {j} : JobOK(i)'
        BY <1>8, <2>6, OthersKept
    <2>8. DOMAIN work' = Jobs /\ lock' \in [Lockables -> Jobs \cup {Undated}]
        BY <1>8 DEF EvidenceInv, LocksAreKept
    <2> QED BY <1>6, <2>4, <2>5, <2>7, <2>8 DEF EvidenceInv, LocksAreKept, JobOK
<1> QED BY <1>7, <1>8 DEF ReadMapping

\* The commit is the only delivery of the month, and the only one with its
\* document id.
LEMMA CommitStep ==
    ASSUME EvidenceInv, NEW j \in Jobs, CommitEvidence(j)
    PROVE  EvidenceInv'
<1> DEFINE s == work[j].file new == [file |-> s, mapping |-> work[j].mapping]
<1>1. /\ work[j].at = "saving" /\ End(j)
      /\ accepted' = accepted \cup {new} /\ stored' = stored \cup {<<IdOf[s], s>>}
      /\ UNCHANGED <<binding, statement, enrolment, withdrawn, begun>>
    BY DEF CommitEvidence
<1>2. FirmEvidence(j)
    BY <1>1, Stages
<1>3. new.file = s
    OBVIOUS
<1>4. \A x \in stored : x[1] # IdOf[s]
    BY <1>2 DEF FirmEvidence, IdentityConflict
<1> HIDE DEF s, new
<1>5. /\ lock' \in [Lockables -> Jobs \cup {Undated}] /\ DOMAIN work' = Jobs /\ JobOK(j)'
      /\ \A i \in Jobs \ {j} : /\ work'[i] = work[i]
                               /\ \A l \in Lockables : lock'[l] = i <=> lock[l] = i
    BY <1>1, EndedJob
<1>6. \A i \in Jobs \ {j} : JobOK(i)'
    BY <1>2, <1>5, SavesAlone, OthersKept DEF FirmEvidence
<1>7. LiveEvidence' \subseteq {new}
    BY <1>1, <1>2 DEF FirmEvidence, LiveEvidence
<1>8. {x[2] : x \in stored'} = {d.file : d \in accepted'}
    <2>1. {x[2] : x \in stored'} = {x[2] : x \in stored} \cup {s}
        <3>1. <<IdOf[s], s>>[2] = s /\ stored' = stored \cup {<<IdOf[s], s>>}
            BY <1>1
        <3> QED BY <3>1, Zenon
    <2>2. {d.file : d \in accepted'} = {d.file : d \in accepted} \cup {s}
        BY <1>1, <1>3
    <2> QED BY <2>1, <2>2 DEF EvidenceInv, RecordsAgree
<1>9. \A x, y \in stored' : x[1] = y[1] => x = y
    BY <1>1, <1>4 DEF EvidenceInv, RecordsAgree
<1>10. RecordsAgree'
    BY <1>1, <1>7, <1>8, <1>9 DEF EvidenceInv, RecordsAgree
<1> QED BY <1>1, <1>5, <1>6, <1>10 DEF EvidenceInv, LocksAreKept

\* A transaction that breaks leaves nothing but free locks.
LEMMA BreakStep ==
    ASSUME EvidenceInv, NEW j \in Jobs, Break(j)
    PROVE  EvidenceInv'
<1>1. End(j) /\ UNCHANGED <<binding, statement, enrolment, accepted, withdrawn, stored, begun>>
    BY DEF Break
<1>2. LiveEvidence' = LiveEvidence /\ \A s : IdentityConflict(s)' = IdentityConflict(s)
    BY <1>1 DEF LiveEvidence, IdentityConflict
<1>3. /\ lock' \in [Lockables -> Jobs \cup {Undated}] /\ DOMAIN work' = Jobs /\ JobOK(j)'
      /\ \A i \in Jobs \ {j} : /\ work'[i] = work[i]
                               /\ \A l \in Lockables : lock'[l] = i <=> lock[l] = i
    BY <1>1, EndedJob
<1>4. ASSUME NEW i \in Jobs \ {j} PROVE JobOK(i)'
    <2>1. ASSUME work[i].at = "saving" PROVE LiveEvidence' = {} /\ \A x \in stored' : x[1] # IdOf[work[i].file]
        BY <1>1, <1>2, <2>1, Stages DEF FirmEvidence, IdentityConflict
    <2> QED BY <1>1, <1>3, <2>1, OthersKept
<1>5. RecordsAgree' /\ DOMAIN statement' = Metered
    BY <1>1, <1>2 DEF EvidenceInv, RecordsAgree
<1> QED BY <1>3, <1>4, <1>5 DEF EvidenceInv, LocksAreKept

\* The inductive invariant holds before the first step.
LEMMA EvidenceInvInit == SourceInit => EvidenceInv
<1> SUFFICES ASSUME SourceInit PROVE EvidenceInv
    OBVIOUS
<1>1. work = [j \in Jobs |-> NoJob] /\ lock = [l \in Lockables |-> Undated] /\ accepted = {} /\ stored = {}
    BY DEF SourceInit
<1>2. \A j \in Jobs : JobOK(j)
    BY <1>1, SourceAssumption DEF JobOK
<1>3. PICK dated \in SUBSET Metered :
          statement = [p \in Metered |-> IF p \in dated THEN [covers |-> TRUE, of |-> binding[p]] ELSE Undated]
    BY DEF SourceInit
<1>4. \A p \in Metered : statement[p] # Undated => statement[p].of = binding[p]
    <2> SUFFICES ASSUME NEW p \in Metered, statement[p] # Undated PROVE statement[p].of = binding[p]
        OBVIOUS
    <2>1. statement[p] = [covers |-> TRUE, of |-> binding[p]]
        BY <1>3
    <2> QED BY <2>1
<1>5. LiveEvidence = {}
    BY <1>1 DEF LiveEvidence
<1>6. RecordsAgree
    BY <1>1, <1>4, <1>5 DEF RecordsAgree, SourceInit
<1> QED BY <1>1, <1>2, <1>3, <1>6 DEF EvidenceInv, LocksAreKept

\* Every step keeps the inductive invariant.
LEMMA EvidenceInvStep == EvidenceInv /\ [SourceNext]_sourceVars => EvidenceInv'
<1> SUFFICES ASSUME EvidenceInv, [SourceNext]_sourceVars PROVE EvidenceInv'
    OBVIOUS
<1>1. ASSUME UNCHANGED <<binding, statement, enrolment, accepted, withdrawn, stored>>
      PROVE  /\ RecordsAgree' /\ DOMAIN statement' = Metered
             /\ \A i \in Jobs : work[i].at = "saving" =>
                    /\ \A q \in PointsIn(work[i].file) : binding'[q] = binding[q]
                    /\ LiveEvidence' = {} /\ \A x \in stored' : x[1] # IdOf[work[i].file]
    <2>1. LiveEvidence' = LiveEvidence
        BY <1>1 DEF LiveEvidence
    <2>2. RecordsAgree' /\ DOMAIN statement' = Metered
        BY <1>1, <2>1 DEF EvidenceInv, RecordsAgree
    <2>3. ASSUME NEW i \in Jobs, work[i].at = "saving"
          PROVE  LiveEvidence' = {} /\ \A x \in stored' : x[1] # IdOf[work[i].file]
        BY <1>1, <2>1, <2>3, Stages DEF FirmEvidence, IdentityConflict
    <2> QED BY <1>1, <2>2, <2>3
<1>2. ASSUME NEW j \in Jobs, BeginSome(j) PROVE EvidenceInv'
    <2>1. /\ DOMAIN work' = Jobs /\ JobOK(j)' /\ \A i \in Jobs \ {j} : work'[i] = work[i]
          /\ UNCHANGED <<binding, statement, enrolment, accepted, withdrawn, stored, lock>>
        BY <1>2, BegunJob
    <2>2. \A i \in Jobs \ {j} : JobOK(i)'
        BY <1>1, <2>1, OthersKept
    <2> QED BY <1>1, <2>1, <2>2 DEF EvidenceInv, LocksAreKept
<1>3. ASSUME NEW j \in Jobs, Acquire(j) PROVE EvidenceInv'
    <2>1. /\ lock' \in [Lockables -> Jobs \cup {Undated}] /\ DOMAIN work' = Jobs /\ JobOK(j)'
          /\ UNCHANGED <<binding, statement, enrolment, accepted, withdrawn, stored>>
          /\ \A i \in Jobs \ {j} : /\ work'[i] = work[i]
                                   /\ \A l \in Lockables : lock'[l] = i <=> lock[l] = i
        BY <1>3, AcquiredLock
    <2>2. \A i \in Jobs \ {j} : JobOK(i)'
        BY <1>1, <2>1, OthersKept
    <2> QED BY <1>1, <2>1, <2>2 DEF EvidenceInv, LocksAreKept
<1>4. ASSUME NEW o \in Owners, Enrol(o) PROVE EvidenceInv'
    <2>1. /\ UNCHANGED <<binding, statement, accepted, withdrawn, stored, lock, work>>
          /\ \A i \in Jobs : work[i].at # "saving"
        BY <1>4 DEF Enrol
    <2>2. \A i \in Jobs : JobOK(i)'
        BY <2>1, OthersKept
    <2>3. LiveEvidence' = LiveEvidence
        BY <2>1 DEF LiveEvidence
    <2> QED BY <2>1, <2>2, <2>3 DEF EvidenceInv, LocksAreKept, RecordsAgree
<1>5. ASSUME UNCHANGED sourceVars PROVE EvidenceInv'
    <2>1. UNCHANGED <<binding, statement, enrolment, accepted, withdrawn, stored, lock, work>>
        BY <1>5 DEF sourceVars
    <2>2. \A i \in Jobs : JobOK(i)'
        BY <1>1, <2>1, OthersKept
    <2> QED BY <1>1, <2>1, <2>2 DEF EvidenceInv, LocksAreKept
<1> QED BY <1>2, <1>3, <1>4, <1>5, ListStep, StatementStep, WithdrawStep, ReadStep, CommitStep, BreakStep
        DEF SourceNext

\* What a request about to commit read under its locks still holds.
LEMMA FirmIsBound == EvidenceInv => BoundAtCommit
BY Stages DEF BoundAtCommit, FirmEvidence

\* No two live deliveries, no document stored twice.
LEMMA AgreedCountsOnce == EvidenceInv => SourceCountsOnce
<1> SUFFICES ASSUME EvidenceInv PROVE SourceCountsOnce
    OBVIOUS
<1>1. Cardinality(LiveEvidence) <= 1
    <2>1. CASE LiveEvidence = {}
        BY <2>1, FS_EmptySet
    <2>2. CASE LiveEvidence # {}
        <3>1. PICK d \in LiveEvidence : TRUE
            BY <2>2
        <3>2. LiveEvidence = {d}
            BY <3>1 DEF EvidenceInv, RecordsAgree
        <3>3. Cardinality({d}) = 1
            BY FS_Singleton
        <3> QED BY <3>2, <3>3
    <2> QED BY <2>1, <2>2
<1> QED BY <1>1 DEF SourceCountsOnce, EvidenceInv, RecordsAgree

\* A set of natural numbers has a least one.
LEMMA LeastNatural ==
    ASSUME NEW S \in SUBSET Nat, S # {}
    PROVE  \E m \in S : \A n \in S : m <= n
<1>1. PICK m \in S : \A n \in S : ~(<<n, m>> \in OpToRel(<, Nat))
    BY NatLessThanWellFounded, WFMin
<1>2. \A n \in S : <<n, m>> \in OpToRel(<, Nat) <=> n < m
    BY DEF OpToRel
<1>3. ASSUME NEW n \in S PROVE m <= n
    <2>1. n \in Nat /\ m \in Nat
        OBVIOUS
    <2>2. ~(n < m)
        BY <1>1, <1>2
    <2> QED BY <2>1, <2>2
<1> QED BY <1>3

\* A circle of waiting requests would have a request that waits for the
\* highest place of all, held by one that waits for a higher one.
LEMMA OrderMoves == EvidenceInv => SomebodyMoves
<1> SUFFICES ASSUME EvidenceInv, NEW j0 \in Jobs, work[j0].at = "waiting",
                    \A j \in Jobs : /\ work[j].at # "saving"
                                    /\ work[j].at = "waiting" =>
                                           work[j].plan # << >> /\ lock[Head(work[j].plan)] # Undated
             PROVE  FALSE
    BY DEF SomebodyMoves
<1> DEFINE N == Cardinality(Metered) + 1
           Blocked == {j \in Jobs : work[j].at = "waiting"}
           Next(j) == work[j].plan[1]
           Room(j) == N - Place(Next(j))
<1>1. N \in Nat \ {0}
    BY SourceAssumption, FS_CardinalityType
<1>2. \A l \in Lockables : Place(l) \in 1 .. N
    <2>1. \A p \in Metered : PointOrder[p] \in 1 .. Cardinality(Metered)
        BY SourceAssumption
    <2>2. Cardinality(Metered) \in Nat
        BY SourceAssumption, FS_CardinalityType
    <2> QED BY <2>1, <2>2 DEF Place, Lockables
<1>3. ASSUME NEW j \in Blocked
      PROVE  /\ Next(j) \in Lockables /\ lock[Next(j)] \in Blocked
             /\ \A l \in Lockables : lock[l] = j => Place(l) < Place(Next(j))
    <2>1. work[j] \in WaitingJobs /\ OrderlyWait(j) /\ work[j].plan # << >> /\ lock[Head(work[j].plan)] # Undated
        BY <1>3, Stages
    <2>2. work[j].plan \in Seq(Lockables)
        BY <2>1 DEF WaitingJobs, Waiting
    <2>3. Next(j) = Head(work[j].plan) /\ Next(j) \in Lockables /\ 1 \in DOMAIN work[j].plan
        BY <2>1, <2>2, EmptySeq, LenProperties, HeadTailProperties
    <2>4. lock[Next(j)] \in Jobs
        BY <2>1, <2>3 DEF EvidenceInv, LocksAreKept
    <2>5. work[lock[Next(j)]].at = "waiting"
        BY <2>3, <2>4, Stages
    <2> QED BY <2>1, <2>3, <2>4, <2>5 DEF OrderlyWait
<1> DEFINE Rooms == {Room(j) : j \in Blocked}
<1>4. \A j \in Blocked : Place(Next(j)) \in 1 .. N
    BY <1>2, <1>3
<1> HIDE DEF N, Next
<1>5. \A j \in Blocked : Room(j) \in Nat
    BY <1>1, <1>4
<1>6. Rooms \in SUBSET Nat /\ Rooms # {}
    BY <1>5
<1>7. PICK m \in Rooms : \A n \in Rooms : m <= n
    BY <1>6, LeastNatural
<1>8. PICK j \in Blocked : m = Room(j)
    BY <1>7
<1> DEFINE i == lock[Next(j)]
<1>9. i \in Blocked /\ Place(Next(j)) < Place(Next(i))
    BY <1>3
<1>10. Room(j) <= Room(i)
    BY <1>7, <1>8, <1>9
<1>11. Place(Next(j)) \in 1 .. N /\ Place(Next(i)) \in 1 .. N
    BY <1>4, <1>9
<1> QED BY <1>1, <1>9, <1>10, <1>11

\* For any points, files, bindings and requests: what is committed as evidence
\* of a month rests on bindings and statements that still hold, no month has
\* two live deliveries, and the requests never deadlock, since every one takes
\* the locks of its points in one order and the community's last
\* (store/calculated_values.py, store/metering.py).
THEOREM EvidenceIsBoundHolds == SourceSpec => []EvidenceIsBound
<1>1. EvidenceInv => EvidenceIsBound
    BY FirmIsBound, AgreedCountsOnce, OrderMoves DEF EvidenceIsBound
<1> QED BY <1>1, EvidenceInvInit, EvidenceInvStep, PTL DEF SourceSpec

-----------------------------------------------------------------------------
(* The portal in which those operators keep their accounts.                *)

\* Accounts are never deleted: whom a request or a session is about exists.
KnownClients ==
    /\ \A b \in Browsers : VisitAt(b, "linking") \/ VisitAt(b, "mailing")
                               => client[visit[b].request.client] # NoClient
    /\ \A b \in Browsers : visit[b].of # NoClient => client[visit[b].of] # NoClient
    /\ \A b \in Browsers : VisitAt(b, "entering") => visit[b].of # NoClient

\* A link of the account is waiting to be followed.
Linked(c) == client[c] # NoClient /\ client[c].link # 0

\* Every link there is has been given out.
GivenOut ==
    /\ \A c \in Clients : Linked(c) => client[c].link <= links
    /\ \A b \in Browsers : VisitAt(b, "mailing") => visit[b].request.link <= links
    /\ \A m \in inbox : m.link <= links
    /\ \A l \in logins : l.link <= links

\* No two accounts wait for one link, and none for a link that was used.
LinksDiffer ==
    /\ \A c, d \in Clients : Linked(c) /\ Linked(d) /\ client[c].link = client[d].link => c = d
    /\ \A c \in Clients : Linked(c) => \A l \in logins : l.link # client[c].link

\* The link an account waits for is the latest mailed, or about to be mailed, to it.
LatestStands == \A c \in Clients : Linked(c) =>
    /\ \A m \in inbox : m.of = c => m.link <= client[c].link
    /\ \A b \in Browsers : VisitAt(b, "mailing") /\ visit[b].request.client = c
                               => visit[b].request.link <= client[c].link

\* The inductive invariant behind PortalHolds.
PortalInv ==
    /\ UtilityTypeOK
    /\ KnownClients
    /\ GivenOut
    /\ LinksDiffer
    /\ LatestStands
    /\ PortalHolds

\* No account, no request.
LEMMA PortalInvInit == UtilityInit => PortalInv
<1> SUFFICES ASSUME UtilityInit
             PROVE  PortalInv
  OBVIOUS
<1>1. UtilityTypeOK
  BY UtilityAssumption DEF UtilityInit, UtilityTypeOK, PortalRequests
<1>2. \A b \in Browsers : visit[b].of = NoClient /\ visit[b].request.at = "resting"
  BY DEF UtilityInit, NoRequest
<1> QED
  BY <1>1, <1>2 DEF UtilityInit, PortalInv, KnownClients, Linked, GivenOut, LinksDiffer, LatestStands, VisitAt,
     PortalHolds, LinkSignsInOnce, AccountsAreEntered

\* What a request at each of its transactions knows.
LEMMA RequestShapes ==
    ASSUME PortalInv, NEW b \in Browsers
    PROVE  /\ visit[b].of \in Clients \cup {NoClient} /\ visit[b].request \in PortalRequests
           /\ VisitAt(b, "checked") => visit[b].request.mailbox \in Inboxes
           /\ VisitAt(b, "linking") => visit[b].request.client \in Clients
           /\ VisitAt(b, "mailing") => visit[b].request.client \in Clients
                                       /\ visit[b].request.link \in 1 .. MaxTokens
<1>1. visit[b] \in [of : Clients \cup {NoClient}, request : PortalRequests]
  BY DEF PortalInv, UtilityTypeOK
<1> QED
  BY <1>1 DEF PortalRequests, NoRequest, VisitAt

\* A browser goes on to another request.
LEMMA RequestMoves ==
    ASSUME PortalInv, NEW b \in Browsers, NEW request \in PortalRequests, Continue(b, request)
    PROVE  /\ visit' \in [Browsers -> [of : Clients \cup {NoClient}, request : PortalRequests]]
           /\ visit'[b].of = visit[b].of /\ visit'[b].request = request
           /\ \A a \in Browsers \ {b} : visit'[a] = visit[a]
<1>1. /\ visit \in [Browsers -> [of : Clients \cup {NoClient}, request : PortalRequests]]
      /\ visit' = [visit EXCEPT ![b].request = request]
  BY DEF PortalInv, UtilityTypeOK, Continue
<1> QED
  BY <1>1

\* An account changes: who had one still has.
LEMMA AccountMoves ==
    ASSUME PortalInv, NEW c \in Clients, NEW row \in Account, client' = [client EXCEPT ![c] = row]
    PROVE  /\ client' \in [Clients -> Account \cup {NoClient}]
           /\ client'[c] = row /\ row # NoClient
           /\ \A d \in Clients \ {c} : client'[d] = client[d]
           /\ \A d \in Clients : client[d] # NoClient => client'[d] # NoClient
<1>1. client \in [Clients -> Account \cup {NoClient}] /\ row # NoClient
  BY NoClientAssumption DEF PortalInv, UtilityTypeOK
<1> QED
  BY <1>1

\* Steps that give out no link, send no mail and open no session only lose links.
LEMMA LinksFade ==
    ASSUME PortalInv, UNCHANGED <<links, inbox, logins>>,
           \A c \in Clients : Linked(c)' => Linked(c) /\ client'[c].link = client[c].link,
           \A b \in Browsers : VisitAt(b, "mailing")' =>
               VisitAt(b, "mailing") /\ visit'[b].request = visit[b].request
    PROVE  GivenOut' /\ LinksDiffer' /\ LatestStands' /\ LinkSignsInOnce'
<1>1. GivenOut'
  BY DEF PortalInv, GivenOut
<1>2. LinksDiffer'
  BY DEF PortalInv, LinksDiffer
<1>3. LatestStands'
  BY DEF PortalInv, LatestStands
<1>4. LinkSignsInOnce'
  BY DEF PortalInv, PortalHolds, LinkSignsInOnce
<1> QED
  BY <1>1, <1>2, <1>3, <1>4

\* Asking, giving up and leaving change no account.
LEMMA VisitStep ==
    ASSUME PortalInv, NEW b \in Browsers,
           \/ \E m \in Inboxes : register(b, m) \/ login_submit(b, m)
           \/ logout(b) \/ RequestDies(b)
    PROVE  PortalInv'
<1>1. UNCHANGED <<client, links, keys, inbox, logins>>
  BY DEF register, login_submit, logout, RequestDies
<1>2. /\ visit' \in [Browsers -> [of : Clients \cup {NoClient}, request : PortalRequests]]
      /\ \A a \in Browsers \ {b} : visit'[a] = visit[a]
      /\ visit'[b].of \in {visit[b].of, NoClient}
      /\ VisitAt(b, "linking")' => /\ visit'[b].request.client \in Clients
                                   /\ client[visit'[b].request.client] # NoClient
      /\ visit'[b].request.at \notin {"mailing", "entering"}
  <2>1. ASSUME NEW m \in Inboxes, register(b, m)
        PROVE  <1>2!:
    <3>1. [at |-> "checked", mailbox |-> m] \in PortalRequests
      BY DEF PortalRequests
    <3> QED
      BY <2>1, <3>1, RequestMoves DEF register, VisitAt
  <2>2. ASSUME NEW m \in Inboxes, login_submit(b, m)
        PROVE  <1>2!:
    <3>1. PICK c \in get_utility_client_by_email(m) : Continue(b, [at |-> "linking", client |-> c])
      BY <2>2 DEF login_submit
    <3>2. c \in Clients /\ client[c] # NoClient /\ [at |-> "linking", client |-> c] \in PortalRequests
      BY DEF get_utility_client_by_email, PortalRequests
    <3> QED
      BY <3>1, <3>2, RequestMoves DEF VisitAt
  <2>3. CASE RequestDies(b)
    <3>1. NoRequest \in PortalRequests /\ NoRequest.at = "resting"
      BY DEF PortalRequests, NoRequest
    <3> QED
      BY <2>3, <3>1, RequestMoves DEF RequestDies, VisitAt
  <2>4. CASE logout(b)
    <3>1. visit \in [Browsers -> [of : Clients \cup {NoClient}, request : PortalRequests]]
      BY DEF PortalInv, UtilityTypeOK
    <3> QED
      BY <2>4, <3>1 DEF logout, VisitAt
  <2> QED
    BY <2>1, <2>2, <2>3, <2>4
<1>3. UtilityTypeOK'
  BY <1>1, <1>2 DEF PortalInv, UtilityTypeOK
<1>4. KnownClients'
  BY <1>1, <1>2 DEF PortalInv, KnownClients, VisitAt
<1>5. GivenOut' /\ LinksDiffer' /\ LatestStands' /\ LinkSignsInOnce'
  BY <1>1, <1>2, LinksFade DEF Linked, VisitAt
<1>6. AccountsAreEntered'
  BY <1>1, <1>2 DEF PortalInv, PortalHolds, AccountsAreEntered
<1> QED
  BY <1>3, <1>4, <1>5, <1>6 DEF PortalInv, PortalHolds

\* A new account waits for no link.
LEMMA SaveClientStep ==
    ASSUME PortalInv, NEW b \in Browsers, NEW c \in Clients, save_utility_client(b, c)
    PROVE  PortalInv'
<1> DEFINE row == [mailbox |-> visit[b].request.mailbox, status |-> "pending", link |-> 0, key |-> 0]
<1>1. /\ VisitAt(b, "checked") /\ client[c] = NoClient /\ client' = [client EXCEPT ![c] = row]
      /\ Continue(b, [at |-> "linking", client |-> c])
      /\ UNCHANGED <<links, keys, inbox, logins>>
  BY DEF save_utility_client
<1>2. row \in Account
  <2>1. 0 \in 0 .. MaxTokens /\ 0 \in 0 .. MaxApiKeys
    BY UtilityAssumption
  <2> QED
    BY <1>1, <2>1, RequestShapes DEF Account
<1>3. row.link = 0 /\ row.status = "pending" /\ row.key = 0
  OBVIOUS
<1> HIDE DEF row
<1>4. /\ client' \in [Clients -> Account \cup {NoClient}]
      /\ client'[c] = row /\ row # NoClient
      /\ \A d \in Clients \ {c} : client'[d] = client[d]
      /\ \A d \in Clients : client[d] # NoClient => client'[d] # NoClient
  BY <1>1, <1>2, AccountMoves
<1>5. [at |-> "linking", client |-> c] \in PortalRequests
  BY DEF PortalRequests
<1>6. /\ visit' \in [Browsers -> [of : Clients \cup {NoClient}, request : PortalRequests]]
      /\ visit'[b].of = visit[b].of /\ visit'[b].request = [at |-> "linking", client |-> c]
      /\ \A a \in Browsers \ {b} : visit'[a] = visit[a]
  BY <1>1, <1>5, RequestMoves
<1>7. UtilityTypeOK'
  BY <1>1, <1>4, <1>6 DEF PortalInv, UtilityTypeOK
<1>8. KnownClients'
  BY <1>4, <1>6, RequestShapes DEF PortalInv, KnownClients, VisitAt
<1>9. GivenOut' /\ LinksDiffer' /\ LatestStands' /\ LinkSignsInOnce'
  BY <1>1, <1>3, <1>4, <1>6, LinksFade DEF Linked, VisitAt
<1>10. AccountsAreEntered'
  BY <1>1, <1>3, <1>4, <1>6 DEF PortalInv, PortalHolds, AccountsAreEntered
<1> QED
  BY <1>7, <1>8, <1>9, <1>10 DEF PortalInv, PortalHolds

\* A link that expires, an account that is entered, and its keys.
LEMMA OwnerStep ==
    ASSUME PortalInv,
           \/ \E c \in Clients : LinkExpires(c)
           \/ \E b \in Browsers : update_utility_client_status(b) \/ generate_api_key(b) \/ revoke_api_key(b)
    PROVE  PortalInv'
<1>1. /\ UNCHANGED <<links, inbox, logins>>
      /\ \E c \in Clients, row \in Account :
             /\ client[c] # NoClient /\ client' = [client EXCEPT ![c] = row]
             /\ row.link \in {client[c].link, 0}
             /\ row.status # client[c].status \/ row.key \notin {client[c].key, 0} =>
                    \E b \in Browsers : visit[b].of = c
      /\ keys' \in 0 .. MaxApiKeys
      /\ visit' \in [Browsers -> [of : Clients \cup {NoClient}, request : PortalRequests]]
      /\ \A a \in Browsers :
             /\ visit'[a].of = visit[a].of
             /\ visit'[a].request = visit[a].request \/ visit'[a].request = NoRequest
  <2> DEFINE Typed == visit' \in [Browsers -> [of : Clients \cup {NoClient}, request : PortalRequests]]
             Same == \A a \in Browsers :
                         /\ visit'[a].of = visit[a].of
                         /\ visit'[a].request = visit[a].request \/ visit'[a].request = NoRequest
             Row(c, row) ==
                 /\ client[c] # NoClient /\ client' = [client EXCEPT ![c] = row]
                 /\ row.link \in {client[c].link, 0}
                 /\ row.status # client[c].status \/ row.key \notin {client[c].key, 0} =>
                        \E b \in Browsers : visit[b].of = c
  <2>1. /\ client \in [Clients -> Account \cup {NoClient}] /\ keys \in 0 .. MaxApiKeys
        /\ visit \in [Browsers -> [of : Clients \cup {NoClient}, request : PortalRequests]]
        /\ 0 \in 0 .. MaxTokens /\ 0 \in 0 .. MaxApiKeys
    BY UtilityAssumption DEF PortalInv, UtilityTypeOK
  <2>2. UNCHANGED visit => Typed /\ Same
    BY <2>1
  <2>3. ASSUME NEW c \in Clients, LinkExpires(c)
        PROVE  \E row \in Account : Row(c, row)
    <3>1. client[c] \in Account /\ client' = [client EXCEPT ![c] = [client[c] EXCEPT !.link = 0]]
      BY <2>1, <2>3 DEF LinkExpires
    <3>2. [client[c] EXCEPT !.link = 0] \in Account
      BY <2>1, <3>1 DEF Account
    <3> QED
      BY <2>3, <3>1, <3>2 DEF LinkExpires, Account
  <2>4. ASSUME NEW b \in Browsers, visit[b].of # NoClient, NEW status \in {"active", client[visit[b].of].status},
               NEW key \in 0 .. MaxApiKeys,
               client' = [client EXCEPT ![visit[b].of] =
                              [client[visit[b].of] EXCEPT !.status = status, !.key = key]]
        PROVE  \E c \in Clients, row \in Account : Row(c, row)
    <3>1. visit[b].of \in Clients /\ client[visit[b].of] # NoClient /\ client[visit[b].of] \in Account
      BY <2>1, <2>4 DEF PortalInv, KnownClients
    <3>2. [client[visit[b].of] EXCEPT !.status = status, !.key = key] \in Account
      BY <3>1 DEF Account
    <3> QED
      BY <2>4, <3>1, <3>2 DEF Account
  <2>5. ASSUME NEW b \in Browsers, update_utility_client_status(b)
        PROVE  <1>1!:
    <3>1. visit[b].of # NoClient /\ visit[b].of \in Clients
      BY <2>1, <2>5 DEF PortalInv, KnownClients, update_utility_client_status
    <3>2. client[visit[b].of] \in Account
      BY <2>1, <3>1 DEF PortalInv, KnownClients
    <3>3. client' = [client EXCEPT ![visit[b].of] =
                         [client[visit[b].of] EXCEPT !.status = "active", !.key = client[visit[b].of].key]]
      BY <2>1, <2>5, <3>1, <3>2 DEF update_utility_client_status, Account
    <3>4. client[visit[b].of].key \in 0 .. MaxApiKeys
      BY <3>2 DEF Account
    <3>5. NoRequest \in PortalRequests /\ Continue(b, NoRequest)
      BY <2>5 DEF PortalRequests, update_utility_client_status
    <3>6. Typed /\ Same
      BY <3>5, RequestMoves
    <3> QED
      BY <2>1, <2>4, <2>5, <3>1, <3>3, <3>4, <3>6 DEF update_utility_client_status
  <2>6. ASSUME NEW b \in Browsers, generate_api_key(b) \/ revoke_api_key(b)
        PROVE  <1>1!:
    <3>1. \E key \in 0 .. MaxApiKeys : client' = [client EXCEPT ![visit[b].of].key = key]
      <4>1. CASE generate_api_key(b)
        <5>1. keys + 1 \in 0 .. MaxApiKeys
          BY <2>1, <4>1, UtilityAssumption DEF generate_api_key
        <5> QED
          BY <4>1, <5>1 DEF generate_api_key
      <4>2. CASE revoke_api_key(b)
        BY <2>1, <4>2 DEF revoke_api_key
      <4> QED
        BY <2>6, <4>1, <4>2
    <3> PICK key \in 0 .. MaxApiKeys : client' = [client EXCEPT ![visit[b].of].key = key]
      BY <3>1
    <3>2. visit[b].of # NoClient /\ UNCHANGED <<links, inbox, logins, visit>> /\ keys' \in 0 .. MaxApiKeys
      BY <2>1, <2>6, UtilityAssumption DEF generate_api_key, revoke_api_key
    <3>3. visit[b].of \in Clients /\ client[visit[b].of] \in Account
      BY <2>1, <3>2 DEF PortalInv, KnownClients
    <3>4. client' = [client EXCEPT ![visit[b].of] =
                         [client[visit[b].of] EXCEPT !.status = client[visit[b].of].status, !.key = key]]
      BY <2>1, <3>3 DEF Account
    <3> QED
      BY <2>2, <2>4, <3>2, <3>4
  <2> QED
    BY <2>1, <2>2, <2>3, <2>5, <2>6 DEF LinkExpires
<1>2. PICK c \in Clients, row \in Account :
          /\ client[c] # NoClient /\ client' = [client EXCEPT ![c] = row]
          /\ row.link \in {client[c].link, 0}
          /\ row.status # client[c].status \/ row.key \notin {client[c].key, 0} =>
                 \E b \in Browsers : visit[b].of = c
  BY <1>1
<1>3. /\ client' \in [Clients -> Account \cup {NoClient}]
      /\ client'[c] = row /\ row # NoClient
      /\ \A d \in Clients \ {c} : client'[d] = client[d]
      /\ \A d \in Clients : client[d] # NoClient => client'[d] # NoClient
  BY <1>2, AccountMoves
<1>4. NoRequest.at = "resting"
  BY DEF NoRequest
<1>5. UtilityTypeOK'
  BY <1>1, <1>3 DEF PortalInv, UtilityTypeOK
<1>6. KnownClients'
  BY <1>1, <1>3, <1>4, RequestShapes DEF PortalInv, KnownClients, VisitAt
<1>7. GivenOut' /\ LinksDiffer' /\ LatestStands' /\ LinkSignsInOnce'
  BY <1>1, <1>2, <1>3, <1>4, LinksFade DEF Linked, VisitAt
<1>8. AccountsAreEntered'
  <2>1. \A b \in Browsers : visit'[b].of # NoClient => \E l \in logins' : l.of = visit'[b].of /\ l.browser = b
    BY <1>1 DEF PortalInv, PortalHolds, AccountsAreEntered
  <2>2. ASSUME NEW d \in Clients, client'[d] # NoClient, client'[d].status = "active" \/ client'[d].key # 0
        PROVE  \E l \in logins' : l.of = d
    <3>1. CASE d # c
      BY <1>1, <1>3, <2>2, <3>1 DEF PortalInv, PortalHolds, AccountsAreEntered
    <3>2. CASE \E b \in Browsers : visit[b].of = d
      <4>1. d # NoClient
        BY UtilityAssumption
      <4> QED
        BY <1>1, <3>2, <4>1 DEF PortalInv, PortalHolds, AccountsAreEntered
    <3>3. CASE d = c /\ row.status = client[c].status /\ row.key \in {client[c].key, 0}
      <4>1. client[c] # NoClient /\ (client[c].status = "active" \/ client[c].key # 0)
        BY <1>2, <1>3, <2>2, <3>3
      <4> QED
        BY <1>1, <3>3, <4>1 DEF PortalInv, PortalHolds, AccountsAreEntered
    <3> QED
      BY <1>2, <3>1, <3>2, <3>3
  <2> QED
    BY <2>1, <2>2 DEF AccountsAreEntered
<1> QED
  BY <1>5, <1>6, <1>7, <1>8 DEF PortalInv, PortalHolds

\* The new link is later than all there are, and takes the place of the one before.
LEMMA GiveLinkStep ==
    ASSUME PortalInv, NEW b \in Browsers, set_utility_magic_token(b)
    PROVE  PortalInv'
<1> PICK c : c = visit[b].request.client
  OBVIOUS
<1>1. /\ VisitAt(b, "linking") /\ c \in Clients /\ client[c] # NoClient /\ client[c] \in Account
      /\ links' = links + 1 /\ links \in Nat /\ links' \in 1 .. MaxTokens
      /\ UNCHANGED <<keys, inbox, logins>>
  BY UtilityAssumption, RequestShapes DEF PortalInv, UtilityTypeOK, KnownClients, set_utility_magic_token
<1> DEFINE row == [client[c] EXCEPT !.link = links + 1]
<1>2. /\ row \in Account /\ client' = [client EXCEPT ![c] = row]
      /\ row.link = links + 1 /\ row.status = client[c].status /\ row.key = client[c].key
  <2>1. links + 1 \in 0 .. MaxTokens
    BY <1>1
  <2> QED
    BY <1>1, <2>1 DEF set_utility_magic_token, Account, PortalInv, UtilityTypeOK
<1> HIDE DEF row
<1>3. /\ client' \in [Clients -> Account \cup {NoClient}]
      /\ client'[c] = row /\ row # NoClient
      /\ \A d \in Clients \ {c} : client'[d] = client[d]
      /\ \A d \in Clients : client[d] # NoClient => client'[d] # NoClient
  BY <1>1, <1>2, AccountMoves
<1>4. [at |-> "mailing", client |-> c, link |-> links + 1] \in PortalRequests
  BY <1>1 DEF PortalRequests
<1>5. /\ visit' \in [Browsers -> [of : Clients \cup {NoClient}, request : PortalRequests]]
      /\ visit'[b].of = visit[b].of
      /\ visit'[b].request = [at |-> "mailing", client |-> c, link |-> links + 1]
      /\ \A a \in Browsers \ {b} : visit'[a] = visit[a]
  <2>1. Continue(b, [at |-> "mailing", client |-> c, link |-> links + 1])
    BY DEF set_utility_magic_token
  <2> QED
    BY <1>4, <2>1, RequestMoves
<1>6. UtilityTypeOK'
  BY <1>1, <1>3, <1>5 DEF PortalInv, UtilityTypeOK
<1>7. KnownClients'
  BY <1>1, <1>3, <1>5, RequestShapes DEF PortalInv, KnownClients, VisitAt
<1>8. /\ \A a \in Browsers \ {b} : VisitAt(a, "mailing")' => VisitAt(a, "mailing")
      /\ \A d \in Clients \ {c} : Linked(d)' <=> Linked(d)
      /\ Linked(c)' /\ client'[c].link = links + 1
  BY <1>1, <1>2, <1>3, <1>5 DEF VisitAt, Linked
<1>9. /\ \A a \in Browsers : VisitAt(a, "mailing") =>
             visit[a].request.link \in Nat /\ visit[a].request.link <= links
      /\ \A m \in inbox : m.link \in Nat /\ m.link <= links
      /\ \A l \in logins : l.link \in Nat /\ l.link <= links
      /\ \A d \in Clients : Linked(d) => client[d].link \in Nat /\ client[d].link <= links
  <2>1. \A d \in Clients : Linked(d) => client[d].link \in Nat
    BY DEF PortalInv, UtilityTypeOK, Linked, Account
  <2>2. (\A m \in inbox : m.link \in Nat) /\ (\A l \in logins : l.link \in Nat)
    BY DEF PortalInv, UtilityTypeOK
  <2>3. \A a \in Browsers : VisitAt(a, "mailing") => visit[a].request.link \in Nat
    BY RequestShapes
  <2> QED
    BY <2>1, <2>2, <2>3 DEF PortalInv, GivenOut
<1>10. GivenOut'
  <2>1. \A d \in Clients : Linked(d)' => client'[d].link <= links'
    BY <1>1, <1>3, <1>8, <1>9
  <2>2. \A a \in Browsers : VisitAt(a, "mailing")' => visit'[a].request.link <= links'
    BY <1>1, <1>5, <1>8, <1>9
  <2> QED
    BY <1>1, <1>9, <2>1, <2>2 DEF GivenOut
<1>11. LinksDiffer'
  <2>1. \A d \in Clients \ {c} : Linked(d)' => client'[d].link # links + 1
    BY <1>1, <1>3, <1>8, <1>9
  <2>2. \A d, e \in Clients : Linked(d)' /\ Linked(e)' /\ client'[d].link = client'[e].link => d = e
    BY <1>3, <1>8, <2>1 DEF PortalInv, LinksDiffer
  <2>3. \A d \in Clients : Linked(d)' => \A l \in logins' : l.link # client'[d].link
    BY <1>1, <1>3, <1>8, <1>9 DEF PortalInv, LinksDiffer
  <2> QED
    BY <2>2, <2>3 DEF LinksDiffer
<1>12. LatestStands'
  <2> SUFFICES ASSUME NEW d \in Clients, Linked(d)'
               PROVE  /\ \A m \in inbox' : m.of = d => m.link <= client'[d].link
                      /\ \A a \in Browsers : VisitAt(a, "mailing")' /\ visit'[a].request.client = d
                             => visit'[a].request.link <= client'[d].link
    BY DEF LatestStands
  <2>1. CASE d = c
    BY <1>1, <1>5, <1>8, <1>9, <2>1
  <2>2. CASE d # c
    BY <1>1, <1>3, <1>5, <1>8, <2>2 DEF PortalInv, LatestStands
  <2> QED
    BY <2>1, <2>2
<1>13. LinkSignsInOnce'
  BY <1>1 DEF PortalInv, PortalHolds, LinkSignsInOnce
<1>14. AccountsAreEntered'
  BY <1>1, <1>2, <1>3, <1>5 DEF PortalInv, PortalHolds, AccountsAreEntered
<1> QED
  BY <1>6, <1>7, <1>10, <1>11, <1>12, <1>13, <1>14 DEF PortalInv, PortalHolds

\* A mail may leave late, and then brings an older link.
LEMMA MailLinkStep ==
    ASSUME PortalInv, NEW b \in Browsers, _send_magic_link(b)
    PROVE  PortalInv'
<1> PICK c, link : c = visit[b].request.client /\ link = visit[b].request.link
  OBVIOUS
<1> DEFINE mail == [link |-> link, of |-> c, mailbox |-> client[c].mailbox]
<1>1. /\ VisitAt(b, "mailing") /\ c \in Clients /\ client[c] \in Account /\ link \in 1 .. MaxTokens
      /\ inbox' = inbox \cup {mail} /\ Continue(b, NoRequest)
      /\ UNCHANGED <<client, links, keys, logins>>
  BY RequestShapes DEF PortalInv, UtilityTypeOK, KnownClients, _send_magic_link
<1>2. mail \in [link : 1 .. MaxTokens, of : Clients, mailbox : Inboxes]
  BY <1>1 DEF Account
<1>3. NoRequest \in PortalRequests /\ NoRequest.at = "resting"
  BY DEF PortalRequests, NoRequest
<1>4. /\ visit' \in [Browsers -> [of : Clients \cup {NoClient}, request : PortalRequests]]
      /\ visit'[b].of = visit[b].of /\ visit'[b].request = NoRequest
      /\ \A a \in Browsers \ {b} : visit'[a] = visit[a]
  BY <1>1, <1>3, RequestMoves
<1>5. UtilityTypeOK'
  BY <1>1, <1>2, <1>4 DEF PortalInv, UtilityTypeOK
<1>6. KnownClients'
  BY <1>1, <1>3, <1>4 DEF PortalInv, KnownClients, VisitAt
<1>7. GivenOut'
  BY <1>1, <1>3, <1>4 DEF PortalInv, GivenOut, VisitAt, Linked
<1>8. LinksDiffer'
  BY <1>1 DEF PortalInv, LinksDiffer, Linked
<1>9. LatestStands'
  BY <1>1, <1>3, <1>4 DEF PortalInv, LatestStands, VisitAt, Linked
<1>10. LinkSignsInOnce'
  BY <1>1 DEF PortalInv, PortalHolds, LinkSignsInOnce
<1>11. AccountsAreEntered'
  BY <1>1, <1>4 DEF PortalInv, PortalHolds, AccountsAreEntered
<1> QED
  BY <1>5, <1>6, <1>7, <1>8, <1>9, <1>10, <1>11 DEF PortalInv, PortalHolds

\* The link is consumed in the statement that finds it: the session it opens is
\* the only one, and no later link was mailed.
LEMMA EnterStep ==
    ASSUME PortalInv, NEW b \in Browsers, NEW c \in Clients, consume_utility_magic_token(b, c)
    PROVE  PortalInv'
<1> PICK link, newest : /\ link = client[c].link
                        /\ newest = (\A m \in inbox : m.of = c => m.link <= link)
  OBVIOUS
<1> DEFINE row == [client[c] EXCEPT !.link = 0]
           login == [link |-> link, of |-> c, browser |-> b, newest |-> newest]
           request == IF client[c].status = "pending" THEN [at |-> "entering"] ELSE NoRequest
<1>1. /\ VisitAt(b, "resting") /\ client[c] # NoClient /\ client[c] \in Account
      /\ client' = [client EXCEPT ![c].link = 0]
      /\ logins' = logins \cup {login}
      /\ visit' = [visit EXCEPT ![b] = [of |-> c, request |-> request]]
      /\ UNCHANGED <<links, keys, inbox>>
  BY DEF PortalInv, UtilityTypeOK, consume_utility_magic_token
<1>2. PICK m \in inbox : m.link = link /\ m.of = c
  BY DEF consume_utility_magic_token
<1>3. Linked(c) /\ link \in 1 .. MaxTokens
  BY <1>1, <1>2 DEF PortalInv, UtilityTypeOK, Linked
<1>4. newest = TRUE
  BY <1>3 DEF PortalInv, LatestStands
<1>5. /\ row \in Account /\ client' = [client EXCEPT ![c] = row]
      /\ row.link = 0 /\ row.status = client[c].status /\ row.key = client[c].key
  <2>1. 0 \in 0 .. MaxTokens
    BY UtilityAssumption
  <2> QED
    BY <1>1, <2>1 DEF Account, PortalInv, UtilityTypeOK
<1>6. login \in [link : 1 .. MaxTokens, of : Clients, browser : Browsers, newest : BOOLEAN]
  BY <1>3, <1>4
<1>7. /\ login.link = link /\ login.of = c /\ login.browser = b /\ login.newest
      /\ request \in PortalRequests /\ request.at \in {"entering", "resting"}
  BY <1>4 DEF PortalRequests, NoRequest
<1> HIDE DEF row, login, request
<1>8. /\ client' \in [Clients -> Account \cup {NoClient}]
      /\ client'[c] = row /\ row # NoClient
      /\ \A d \in Clients \ {c} : client'[d] = client[d]
      /\ \A d \in Clients : client[d] # NoClient => client'[d] # NoClient
  BY <1>5, AccountMoves
<1>9. /\ visit' \in [Browsers -> [of : Clients \cup {NoClient}, request : PortalRequests]]
      /\ visit'[b].of = c /\ visit'[b].request = request
      /\ \A a \in Browsers \ {b} : visit'[a] = visit[a]
  BY <1>1, <1>7 DEF PortalInv, UtilityTypeOK
<1>10. UtilityTypeOK'
  BY <1>1, <1>6, <1>8, <1>9 DEF PortalInv, UtilityTypeOK
<1>11. KnownClients'
  <2>1. \A a \in Browsers : visit'[a].request.at \in {"linking", "mailing"} =>
            a # b /\ visit[a].request.client \in Clients
    BY <1>7, <1>9, RequestShapes DEF VisitAt
  <2>2. \A a \in Browsers \ {b} : visit[a].of \in Clients \cup {NoClient}
    BY RequestShapes
  <2>3. \A a \in Browsers : visit'[a].of # NoClient => client'[visit'[a].of] # NoClient
    BY <1>1, <1>8, <1>9, <2>2 DEF PortalInv, KnownClients
  <2>4. \A a \in Browsers : VisitAt(a, "entering")' => visit'[a].of # NoClient
    BY <1>9, UtilityAssumption DEF PortalInv, KnownClients, VisitAt
  <2> QED
    BY <1>8, <1>9, <2>1, <2>3, <2>4 DEF PortalInv, KnownClients, VisitAt
<1>12. /\ \A d \in Clients : Linked(d)' => d # c /\ Linked(d) /\ client'[d].link = client[d].link
       /\ \A a \in Browsers : VisitAt(a, "mailing")' =>
              VisitAt(a, "mailing") /\ visit'[a].request = visit[a].request
  BY <1>5, <1>7, <1>8, <1>9 DEF Linked, VisitAt
<1>13. GivenOut'
  <2>1. login.link <= links
    BY <1>3, <1>7 DEF PortalInv, GivenOut
  <2> QED
    BY <1>1, <1>12, <2>1 DEF PortalInv, GivenOut
<1>14. LinksDiffer'
  <2>1. \A d \in Clients : Linked(d)' => client'[d].link # link
    BY <1>3, <1>12 DEF PortalInv, LinksDiffer
  <2> QED
    BY <1>1, <1>7, <1>12, <2>1 DEF PortalInv, LinksDiffer
<1>15. LatestStands'
  BY <1>1, <1>12 DEF PortalInv, LatestStands
<1>16. LinkSignsInOnce'
  <2>1. \A l \in logins : l.link # link
    BY <1>3 DEF PortalInv, LinksDiffer
  <2>2. login.newest /\ \E k \in inbox' : k.link = login.link /\ k.of = login.of
    BY <1>1, <1>2, <1>7
  <2> QED
    BY <1>1, <1>7, <2>1, <2>2 DEF PortalInv, PortalHolds, LinkSignsInOnce
<1>17. AccountsAreEntered'
  <2>1. \A a \in Browsers : visit'[a].of # NoClient => \E l \in logins' : l.of = visit'[a].of /\ l.browser = a
    BY <1>1, <1>7, <1>9 DEF PortalInv, PortalHolds, AccountsAreEntered
  <2>2. \A d \in Clients : client'[d] # NoClient /\ (client'[d].status = "active" \/ client'[d].key # 0)
                               => \E l \in logins' : l.of = d
    BY <1>1, <1>7, <1>8 DEF PortalInv, PortalHolds, AccountsAreEntered
  <2> QED
    BY <2>1, <2>2 DEF AccountsAreEntered
<1> QED
  BY <1>10, <1>11, <1>13, <1>14, <1>15, <1>16, <1>17 DEF PortalInv, PortalHolds

\* Every step keeps it.
LEMMA PortalInvStep == PortalInv /\ [UtilityNext]_utilityVars => PortalInv'
<1> SUFFICES ASSUME PortalInv, [UtilityNext]_utilityVars
             PROVE  PortalInv'
  OBVIOUS
<1>1. CASE UNCHANGED utilityVars
  BY <1>1 DEF utilityVars, PortalInv, UtilityTypeOK, KnownClients, Linked, GivenOut, LinksDiffer, LatestStands,
     VisitAt, PortalHolds, LinkSignsInOnce, AccountsAreEntered
<1>2. CASE UtilityNext
  BY <1>2, VisitStep, SaveClientStep, OwnerStep, GiveLinkStep, MailLinkStep, EnterStep DEF UtilityNext
<1> QED
  BY <1>1, <1>2

\* A link opens one session, that of the account it was mailed for and none that a
\* later link has replaced; an account is entered by its links only
\* (UtilityPortal!PortalHolds, store/utility.py consume_utility_magic_token).
THEOREM PortalHoldsAlways == UtilitySpec => []PortalHolds
<1>1. PortalInv => PortalHolds
  BY DEF PortalInv
<1> QED
  BY <1>1, PortalInvInit, PortalInvStep, PTL DEF UtilitySpec

-----------------------------------------------------------------------------
(* The archive of a community.  A restore owns the sequences it needs while *)
(* it fills the tables, so that no session has an id of them in hand, and   *)
(* an event comes with every invoice, so that none is paid meanwhile.       *)

AnyData == [TableNames -> SUBSET Records]
Archives == [version : Nat, of : Communities, data : AnyData, hashes : AnyData]

\* Ids name one record, those of serial tables are numbers, and every invoice has
\* an event.
DataOK(data) ==
    /\ \A s \in Serial : Ids(data[s]) \subseteq 1 .. MaxId
    /\ \A t \in TableNames : \A x, y \in data[t] : x.id = y.id => x = y
    /\ \A invoice \in data["invoices"] : \E event \in data["invoice_lifecycle_events"] :
           event.parent = invoice.id

\* An event belongs to the community of its invoice.
EventsHang(data) ==
    \A event \in data["invoice_lifecycle_events"] : \E invoice \in data["invoices"] :
        invoice.id = event.parent /\ invoice.of = event.of

\* The types of tables, sequences and transactions.
ArchiveTypes ==
    /\ tables \in AnyData
    /\ position \in [Serial -> Nat \ {0}] /\ users \in [Serial -> SUBSET Sessions]
    /\ owner \in [Serial -> Restorers \cup {Nobody}]
    /\ writes \in [Sessions -> Writing \cup {Nothing}]
    /\ archive # NoArchive => archive \in Archives /\ DataOK(archive.data)
    /\ DOMAIN restoring = Restorers
    /\ \A r \in Restorers :
           /\ restoring[r] = [at |-> restoring[r].at, of |-> restoring[r].of, new |-> restoring[r].new]
           /\ restoring[r].at \in Nat /\ restoring[r].new \in AnyData
           /\ restoring[r].at = 0 => restoring[r] = Resting /\ Locked(r) = {}
    /\ \A s \in Serial : owner[s] # Nobody => users[s] = {}

\* The committed rows, each below the next value of its sequence.
TablesHold ==
    /\ DataOK(tables) /\ EventsHang(tables)
    /\ \A s \in Serial : \A id \in Ids(tables[s]) : id < position[s]

\* Session w drew id from the sequence of s: it is nobody else's and not used yet.
Drawn(w, s, id) == id < position[s] /\ id \notin Ids(tables[s]) /\ w \in users[s]

\* What session w has in hand: new ids, or an invoice that is there.
InHand(w, x) ==
    /\ x.new => Drawn(w, "invoices", x.invoice)
    /\ ~x.new => \E row \in tables["invoices"] : row.id = x.invoice /\ row.of = x.of
    /\ x.event # 0 => Drawn(w, "invoice_lifecycle_events", x.event)

\* Two sessions have different ids in hand.
Apart(x, y) ==
    /\ x.new /\ y.new => x.invoice # y.invoice
    /\ x.event # 0 => x.event # y.event

DrawsHold ==
    /\ \A w \in Sessions : writes[w] # Nothing => InHand(w, writes[w])
    /\ \A v, w \in Sessions : v # w /\ writes[v] # Nothing /\ writes[w] # Nothing =>
           Apart(writes[v], writes[w])

\* What restore r has to put in place, and what is in place already.
RestoreHolds(r) ==
    LET data == restoring[r].of.data
        new == restoring[r].new
    IN  /\ restoring[r].of \in Archives /\ DataOK(data) /\ EventsHang(data)
        /\ restoring[r].at > 1 => Needed(r) \subseteq Locked(r)
        /\ \A t \in TableNames : new[t] \subseteq data[t] /\ Ids(new[t]) \cap Ids(tables[t]) = {}
        /\ \A n \in DOMAIN Tables :
               IF n < restoring[r].at THEN data[Tables[n]] \subseteq tables[Tables[n]] \cup new[Tables[n]]
               ELSE new[Tables[n]] = {}

RestoresHold ==
    /\ \A r \in Restorers : restoring[r].at > 0 => RestoreHolds(r)
    /\ \A q, r \in Restorers : q # r =>
           \A t \in TableNames : Ids(restoring[q].new[t]) \cap Ids(restoring[r].new[t]) = {}

\* The inductive invariant behind RecordsHangTogether and RestoreIsWhole.
ArchiveInv == ArchiveTypes /\ TablesHold /\ DrawsHold /\ RestoresHold

\* A restore goes on as it was when tables and owners stay.
LEMMA RestoresStay ==
    ASSUME RestoresHold, UNCHANGED <<tables, owner, restoring>>
    PROVE  RestoresHold'
<1>1. ASSUME NEW r \in Restorers, restoring[r].at > 0
      PROVE  RestoreHolds(r)'
  <2>1. RestoreHolds(r)
    BY <1>1 DEF RestoresHold
  <2>2. Needed(r)' = Needed(r) /\ Locked(r)' = Locked(r)
    BY DEF Needed, Locked
  <2>3. (restoring[r].of \in Archives /\ DataOK(restoring[r].of.data) /\ EventsHang(restoring[r].of.data))'
    BY <2>1 DEF RestoreHolds, DataOK, EventsHang, Ids
  <2> QED
    BY <2>1, <2>2, <2>3 DEF RestoreHolds, Ids
<1> QED
  BY <1>1 DEF RestoresHold, Ids

\* Rows stay below a sequence that moves on.
LEMMA TablesStay ==
    ASSUME TablesHold, ArchiveTypes, UNCHANGED tables, position' \in [Serial -> Nat \ {0}],
           \A s \in Serial : position[s] <= position'[s]
    PROVE  TablesHold'
<1> SUFFICES ASSUME NEW s \in Serial, NEW id \in Ids(tables[s])
             PROVE  id < position'[s]
  BY DEF TablesHold, DataOK, EventsHang, Ids
<1>1. id < position[s] /\ id \in 1 .. MaxId /\ position[s] \in Nat /\ position'[s] \in Nat
  BY DEF TablesHold, DataOK, ArchiveTypes
<1>2. position[s] <= position'[s]
  OBVIOUS
<1> QED
  BY <1>1, <1>2, ArchiveAssumption

\* What a session has in hand it keeps while the sequences move on.
LEMMA InHandStays ==
    ASSUME ArchiveTypes, NEW w \in Sessions, NEW x \in Writing, InHand(w, x),
           position' \in [Serial -> Nat \ {0}],
           \A s \in Serial : position[s] <= position'[s] /\ (w \in users[s] => w \in users'[s]),
           UNCHANGED tables
    PROVE  InHand(w, x)'
<1>1. \A s \in Serial : position[s] \in Nat /\ position'[s] \in Nat
  BY DEF ArchiveTypes
<1>2. x.invoice \in Nat /\ x.event \in Nat
  BY ArchiveAssumption DEF Writing
<1>3. "invoices" \in Serial /\ "invoice_lifecycle_events" \in Serial
  BY DEF Serial
<1>4. ASSUME NEW s \in Serial, NEW id \in Nat, Drawn(w, s, id)
      PROVE  Drawn(w, s, id)'
  BY <1>1, <1>4 DEF Drawn, Ids
<1> QED
  BY <1>2, <1>3, <1>4 DEF InHand

\* A session takes up x beside the others.
LEMMA TakesUp ==
    ASSUME ArchiveInv, NEW w \in Sessions, NEW x \in Writing, writes' = [writes EXCEPT ![w] = x],
           position' \in [Serial -> Nat \ {0}],
           \A s \in Serial : position[s] <= position'[s] /\ users[s] \subseteq users'[s],
           UNCHANGED tables, InHand(w, x)',
           \A v \in Sessions \ {w} : writes[v] # Nothing => Apart(x, writes[v]) /\ Apart(writes[v], x)
    PROVE  DrawsHold' /\ writes' \in [Sessions -> Writing \cup {Nothing}]
<1>1. writes' \in [Sessions -> Writing \cup {Nothing}] /\ writes'[w] = x
      /\ \A v \in Sessions \ {w} : writes'[v] = writes[v]
  BY DEF ArchiveInv, ArchiveTypes
<1>2. ASSUME NEW v \in Sessions, writes'[v] # Nothing
      PROVE  InHand(v, writes[v])'
  <2>1. PICK y : y = writes'[v]
    OBVIOUS
  <2>2. CASE v = w
    <3>1. InHand(v, y)'
      BY <1>1, <2>1, <2>2
    <3> QED
      BY <2>1, <3>1 DEF InHand
  <2>3. CASE v # w
    <3>1. y = writes[v] /\ y \in Writing /\ y # Nothing
      BY <1>1, <1>2, <2>1, <2>3
    <3>2. InHand(v, y)
      BY <3>1 DEF ArchiveInv, DrawsHold
    <3>3. InHand(v, y)'
      BY <3>1, <3>2, InHandStays DEF ArchiveInv
    <3> QED
      BY <2>1, <3>3 DEF InHand
  <2> QED
    BY <2>2, <2>3
<1>3. ASSUME NEW u \in Sessions, NEW v \in Sessions, u # v, writes'[u] # Nothing, writes'[v] # Nothing
      PROVE  Apart(writes'[u], writes'[v])
  BY <1>1, <1>3 DEF ArchiveInv, DrawsHold
<1> QED
  BY <1>1, <1>2, <1>3 DEF DrawsHold, Apart

\* A session draws an id, or goes on to pay.
LEMMA WriteStep ==
    ASSUME ArchiveInv, NEW w \in Sessions,
           \/ \E c \in Communities : insert_invoice(w, c)
           \/ \E row \in tables["invoices"] : pay(w, row)
           \/ insert_event(w)
    PROVE  ArchiveInv'
<1>1. UNCHANGED <<tables, owner, archive, moved, restoring>>
  BY DEF insert_invoice, pay, insert_event
<1>2. \A s \in Serial : position[s] \in Nat \ {0}
  BY DEF ArchiveInv, ArchiveTypes
<1>3. \/ UNCHANGED <<position, users>>
      \/ \E s \in Serial : /\ owner[s] = Nobody /\ position[s] <= MaxId
                           /\ position' = [position EXCEPT ![s] = @ + 1]
                           /\ users' = [users EXCEPT ![s] = @ \cup {w}]
  BY DEF insert_invoice, pay, insert_event, Draws, Serial
<1>4. /\ position' \in [Serial -> Nat \ {0}] /\ users' \in [Serial -> SUBSET Sessions]
      /\ \A s \in Serial : position[s] <= position'[s] /\ users[s] \subseteq users'[s]
      /\ \A s \in Serial : owner[s] # Nobody => users'[s] = {}
  BY <1>2, <1>3 DEF ArchiveInv, ArchiveTypes
<1>5. TablesHold' /\ RestoresHold'
  BY <1>1, <1>4, TablesStay, RestoresStay DEF ArchiveInv
<1>6. ASSUME NEW v \in Sessions, writes[v] # Nothing
      PROVE  /\ writes[v] \in Writing
             /\ writes[v].new => writes[v].invoice < position["invoices"]
             /\ writes[v].event # 0 => writes[v].event < position["invoice_lifecycle_events"]
  BY <1>6 DEF ArchiveInv, ArchiveTypes, DrawsHold, InHand, Drawn
<1>7. \A s \in Serial : position[s] \notin Ids(tables[s])
  BY <1>2 DEF ArchiveInv, TablesHold
<1>8. \E x \in Writing :
        /\ writes' = [writes EXCEPT ![w] = x] /\ InHand(w, x)'
        /\ \A v \in Sessions \ {w} : writes[v] # Nothing => Apart(x, writes[v]) /\ Apart(writes[v], x)
  <2>1. ASSUME NEW c \in Communities, insert_invoice(w, c)
        PROVE  <1>8!:
    <3>1. PICK x : x = [of |-> c, invoice |-> position["invoices"], event |-> 0, new |-> TRUE]
      OBVIOUS
    <3>2. /\ writes' = [writes EXCEPT ![w] = x] /\ position["invoices"] \in 1 .. MaxId
          /\ position' = [position EXCEPT !["invoices"] = @ + 1]
          /\ users' = [users EXCEPT !["invoices"] = @ \cup {w}]
      BY <1>2, <2>1, <3>1, ArchiveAssumption DEF insert_invoice, Draws, Serial
    <3>3. x \in Writing
      BY <3>1, <3>2, ArchiveAssumption DEF Writing
    <3>4. InHand(w, x)'
      BY <1>1, <1>2, <1>7, <3>1, <3>2 DEF InHand, Drawn, Ids, ArchiveInv, ArchiveTypes, Serial
    <3>5. \A v \in Sessions \ {w} : writes[v] # Nothing => Apart(x, writes[v]) /\ Apart(writes[v], x)
      BY <1>2, <1>6, <3>1 DEF Apart, Serial
    <3> QED
      BY <3>2, <3>3, <3>4, <3>5
  <2>2. ASSUME NEW row \in tables["invoices"], pay(w, row)
        PROVE  <1>8!:
    <3>1. PICK x : x = [of |-> row.of, invoice |-> row.id, event |-> 0, new |-> FALSE]
      OBVIOUS
    <3>2. writes' = [writes EXCEPT ![w] = x]
      BY <2>2, <3>1 DEF pay
    <3>3. x \in Writing
      BY <3>1, ArchiveAssumption DEF Writing, ArchiveInv, ArchiveTypes, TablesHold, DataOK, Ids, Serial, AnyData, TableNames, Records
    <3>4. InHand(w, x)'
      BY <1>1, <3>1 DEF InHand
    <3>5. \A v \in Sessions \ {w} : writes[v] # Nothing => Apart(x, writes[v]) /\ Apart(writes[v], x)
      BY <3>1 DEF Apart
    <3> QED
      BY <3>2, <3>3, <3>4, <3>5
  <2>3. CASE insert_event(w)
    <3>1. /\ writes[w] # Nothing /\ position["invoice_lifecycle_events"] \in 1 .. MaxId
          /\ writes' = [writes EXCEPT ![w].event = position["invoice_lifecycle_events"]]
          /\ position' = [position EXCEPT !["invoice_lifecycle_events"] = @ + 1]
          /\ users' = [users EXCEPT !["invoice_lifecycle_events"] = @ \cup {w}]
      BY <1>2, <2>3, ArchiveAssumption DEF insert_event, Draws, Serial
    <3>2. PICK x : x = [writes[w] EXCEPT !.event = position["invoice_lifecycle_events"]]
      OBVIOUS
    <3>3. writes[w] \in Writing /\ InHand(w, writes[w])
      BY <1>6, <3>1 DEF ArchiveInv, DrawsHold
    <3>4. /\ x \in Writing /\ x.event = position["invoice_lifecycle_events"]
          /\ x.new = writes[w].new /\ x.invoice = writes[w].invoice /\ x.of = writes[w].of
      BY <3>1, <3>2, <3>3 DEF Writing
    <3>5. writes' = [writes EXCEPT ![w] = x]
      BY <3>1, <3>2
    <3>6. InHand(w, x)'
      <4>1. Drawn(w, "invoice_lifecycle_events", x.event)'
        BY <1>1, <1>2, <1>7, <3>1, <3>4 DEF Drawn, Ids, ArchiveInv, ArchiveTypes, Serial
      <4>2. x.new => Drawn(w, "invoices", x.invoice)'
        BY <1>1, <3>1, <3>3, <3>4 DEF InHand, Drawn, Ids, ArchiveInv, ArchiveTypes, Serial
      <4> QED
        BY <1>1, <3>3, <3>4, <4>1, <4>2 DEF InHand
    <3>7. \A v \in Sessions \ {w} : writes[v] # Nothing => Apart(x, writes[v]) /\ Apart(writes[v], x)
      BY <1>2, <1>6, <3>1, <3>4 DEF Apart, Serial, ArchiveInv, DrawsHold
    <3> QED
      BY <3>4, <3>5, <3>6, <3>7
  <2> QED
    BY <2>1, <2>2, <2>3
<1>9. DrawsHold' /\ writes' \in [Sessions -> Writing \cup {Nothing}]
  BY <1>1, <1>4, <1>8, TakesUp
<1>10. ArchiveTypes'
  BY <1>1, <1>4, <1>9 DEF ArchiveInv, ArchiveTypes, Locked, DataOK, Ids
<1> QED
  BY <1>5, <1>9, <1>10 DEF ArchiveInv

\* A session that ends has nothing in hand and leaves the sequences.
LEMMA SessionEnds ==
    ASSUME ArchiveTypes, NEW w \in Sessions, Ends(w)
    PROVE  /\ writes' \in [Sessions -> Writing \cup {Nothing}] /\ writes'[w] = Nothing
           /\ \A v \in Sessions \ {w} : writes'[v] = writes[v]
           /\ users' \in [Serial -> SUBSET Sessions]
           /\ \A s \in Serial : users'[s] = users[s] \ {w}
           /\ UNCHANGED <<position, owner, archive, moved, restoring>>
BY DEF ArchiveTypes, Ends

\* The sessions left keep what they have in hand, and apart.
LEMMA OthersKeep ==
    ASSUME ArchiveInv, NEW w \in Sessions, Ends(w),
           \A v \in Sessions \ {w}, y \in Writing : InHand(v, y) /\ Apart(y, writes[w]) => InHand(v, y)'
    PROVE  DrawsHold' \/ writes[w] = Nothing
<1> SUFFICES ASSUME writes[w] # Nothing
             PROVE  DrawsHold'
  OBVIOUS
<1>1. /\ writes'[w] = Nothing /\ \A v \in Sessions \ {w} : writes'[v] = writes[v]
  BY SessionEnds DEF ArchiveInv
<1>2. ASSUME NEW v \in Sessions, writes'[v] # Nothing
      PROVE  InHand(v, writes[v])'
  <2>1. PICK y : y = writes'[v]
    OBVIOUS
  <2>2. v # w /\ y = writes[v] /\ y \in Writing
    BY <1>1, <1>2, <2>1 DEF ArchiveInv, ArchiveTypes
  <2>3. InHand(v, y) /\ Apart(y, writes[w])
    BY <1>2, <2>1, <2>2 DEF ArchiveInv, DrawsHold
  <2>4. InHand(v, y)'
    BY <2>2, <2>3
  <2> QED
    BY <2>1, <2>4 DEF InHand
<1>3. ASSUME NEW u \in Sessions, NEW v \in Sessions, u # v, writes'[u] # Nothing, writes'[v] # Nothing
      PROVE  Apart(writes'[u], writes'[v])
  BY <1>1, <1>3 DEF ArchiveInv, DrawsHold
<1> QED
  BY <1>2, <1>3 DEF DrawsHold, Apart

\* A rolled back session leaves its ids unused.
LEMMA RollBackSessionStep ==
    ASSUME ArchiveInv, NEW w \in Sessions, RollBackSession(w)
    PROVE  ArchiveInv'
<1>1. writes[w] # Nothing /\ Ends(w) /\ UNCHANGED tables
  BY DEF RollBackSession
<1>2. /\ writes' \in [Sessions -> Writing \cup {Nothing}] /\ users' \in [Serial -> SUBSET Sessions]
      /\ \A s \in Serial : users'[s] = users[s] \ {w}
      /\ UNCHANGED <<position, owner, archive, moved, restoring>>
  BY <1>1, SessionEnds DEF ArchiveInv
<1>3. position \in [Serial -> Nat \ {0}]
  BY DEF ArchiveInv, ArchiveTypes
<1>4. TablesHold' /\ RestoresHold'
  BY <1>1, <1>2, <1>3, TablesStay, RestoresStay DEF ArchiveInv
<1>5. ASSUME NEW v \in Sessions \ {w}, NEW y \in Writing, InHand(v, y)
      PROVE  InHand(v, y)'
  BY <1>1, <1>2, <1>3, <1>5, InHandStays DEF ArchiveInv
<1>6. DrawsHold'
  BY <1>1, <1>5, OthersKeep
<1>7. ArchiveTypes'
  BY <1>1, <1>2 DEF ArchiveInv, ArchiveTypes, Locked, DataOK, Ids
<1> QED
  BY <1>4, <1>6, <1>7 DEF ArchiveInv

\* A session that commits adds its rows under ids nobody else has, to tables no
\* restore is filling; an invoice it pays is not one a restore looked at.
LEMMA CommitSessionStep ==
    ASSUME ArchiveInv, NEW w \in Sessions, CommitSession(w)
    PROVE  ArchiveInv'
<1> DEFINE x == writes[w]
           invoice == [id |-> x.invoice, of |-> x.of, parent |-> 0,
                       body |-> IF x.new THEN "issued" ELSE "paid"]
           event == [id |-> x.event, of |-> x.of, parent |-> x.invoice, body |-> "-"]
<1>1. /\ x # Nothing /\ x.event # 0 /\ Ends(w)
      /\ tables' = [tables EXCEPT
             !["invoices"] = {row \in @ : row.id # x.invoice} \cup {invoice},
             !["invoice_lifecycle_events"] = @ \cup {event}]
  BY DEF CommitSession
<1>2. /\ writes' \in [Sessions -> Writing \cup {Nothing}] /\ users' \in [Serial -> SUBSET Sessions]
      /\ \A s \in Serial : users'[s] = users[s] \ {w}
      /\ UNCHANGED <<position, owner, archive, moved, restoring>>
  BY <1>1, SessionEnds DEF ArchiveInv
<1>3. x \in Writing /\ InHand(w, x) /\ tables \in AnyData /\ position \in [Serial -> Nat \ {0}]
  BY <1>1 DEF ArchiveInv, ArchiveTypes, DrawsHold
<1>4. /\ x.invoice \in 1 .. MaxId /\ x.event \in 1 .. MaxId /\ x.of \in Communities /\ x.new \in BOOLEAN
  BY <1>1, <1>3, ArchiveAssumption DEF Writing
<1>5. invoice \in Records /\ event \in Records
  BY <1>4, ArchiveAssumption DEF Records
<1>6. /\ invoice.id = x.invoice /\ invoice.of = x.of
      /\ event.id = x.event /\ event.of = x.of /\ event.parent = x.invoice
  OBVIOUS
<1> HIDE DEF invoice, event
<1>7. /\ tables'["invoices"] = {row \in tables["invoices"] : row.id # x.invoice} \cup {invoice}
      /\ tables'["invoice_lifecycle_events"] = tables["invoice_lifecycle_events"] \cup {event}
      /\ tables'["communities"] = tables["communities"]
      /\ tables' \in AnyData
  BY <1>1, <1>3, <1>5 DEF AnyData, TableNames
<1> HIDE DEF x
<1>8. /\ Drawn(w, "invoice_lifecycle_events", x.event)
      /\ x.new => Drawn(w, "invoices", x.invoice)
      /\ ~x.new => \E row \in tables["invoices"] : row.id = x.invoice /\ row.of = x.of
  BY <1>1, <1>3 DEF InHand
<1>9. /\ Ids(tables'["invoices"]) = Ids(tables["invoices"]) \cup {x.invoice}
      /\ Ids(tables'["invoice_lifecycle_events"]) = Ids(tables["invoice_lifecycle_events"]) \cup {x.event}
  BY <1>6, <1>7 DEF Ids
<1>10. DataOK(tables) /\ EventsHang(tables)
  BY DEF ArchiveInv, TablesHold
<1>11. \A row \in tables["invoices"] : row.id = x.invoice => row.of = x.of
  BY <1>8, <1>10 DEF DataOK, TableNames, Drawn, Ids
<1>12. TablesHold'
  <2>1. DataOK(tables')
    <3>1. \A s \in Serial : Ids(tables'[s]) \subseteq 1 .. MaxId
      BY <1>4, <1>9, <1>10 DEF Serial, DataOK
    <3>2. \A t \in TableNames : \A y, z \in tables'[t] : y.id = z.id => y = z
      <4>1. x.event \notin Ids(tables["invoice_lifecycle_events"])
        BY <1>8 DEF Drawn
      <4> QED
        BY <1>6, <1>7, <1>10, <4>1 DEF TableNames, DataOK, Ids
    <3>3. \A i \in tables'["invoices"] : \E e \in tables'["invoice_lifecycle_events"] : e.parent = i.id
      BY <1>6, <1>7, <1>10 DEF DataOK
    <3> QED
      BY <3>1, <3>2, <3>3 DEF DataOK
  <2>2. EventsHang(tables')
    <3> SUFFICES ASSUME NEW e \in tables'["invoice_lifecycle_events"]
                 PROVE  \E i \in tables'["invoices"] : i.id = e.parent /\ i.of = e.of
      BY DEF EventsHang
    <3>1. CASE e = event
      BY <1>6, <1>7, <3>1
    <3>2. CASE e # event
      <4>1. PICK i \in tables["invoices"] : i.id = e.parent /\ i.of = e.of
        BY <1>7, <1>10, <3>2 DEF EventsHang
      <4> QED
        BY <1>6, <1>7, <1>11, <4>1
    <3> QED
      BY <3>1, <3>2
  <2>3. \A s \in Serial : \A id \in Ids(tables'[s]) : id < position'[s]
    <3>1. \A s \in Serial : \A id \in Ids(tables[s]) : id < position[s]
      BY DEF ArchiveInv, TablesHold
    <3>2. x.invoice < position["invoices"]
      <4>1. CASE x.new
        BY <1>8, <4>1 DEF Drawn
      <4>2. CASE ~x.new
        BY <1>8, <3>1, <4>2 DEF Ids, Serial
      <4> QED
        BY <4>1, <4>2
    <3>3. x.event < position["invoice_lifecycle_events"]
      BY <1>8 DEF Drawn
    <3> QED
      BY <1>2, <1>9, <3>1, <3>2, <3>3 DEF Serial
  <2> QED
    BY <2>1, <2>2, <2>3 DEF TablesHold, DataOK, EventsHang, Ids
<1>13. DrawsHold'
  <2> SUFFICES ASSUME NEW v \in Sessions \ {w}, NEW y \in Writing, InHand(v, y), Apart(y, x)
               PROVE  InHand(v, y)'
    BY <1>1, OthersKeep DEF x
  <2>1. ASSUME y.new
        PROVE  Drawn(v, "invoices", y.invoice)'
    <3>1. Drawn(v, "invoices", y.invoice)
      BY <2>1 DEF InHand
    <3>2. y.invoice # x.invoice
      BY <1>8, <2>1, <3>1 DEF Apart, Drawn, Ids
    <3> QED
      BY <1>2, <1>9, <3>1, <3>2 DEF Drawn, Serial
  <2>2. ASSUME ~y.new
        PROVE  \E row \in tables'["invoices"] : row.id = y.invoice /\ row.of = y.of
    <3>1. PICK row \in tables["invoices"] : row.id = y.invoice /\ row.of = y.of
      BY <2>2 DEF InHand
    <3> QED
      BY <1>6, <1>7, <1>11, <3>1
  <2>3. ASSUME y.event # 0
        PROVE  Drawn(v, "invoice_lifecycle_events", y.event)'
    <3>1. Drawn(v, "invoice_lifecycle_events", y.event) /\ y.event # x.event
      BY <2>3 DEF InHand, Apart
    <3> QED
      BY <1>2, <1>9, <3>1 DEF Drawn, Serial
  <2> QED
    BY <2>1, <2>2, <2>3 DEF InHand
<1>14. ASSUME NEW r \in Restorers, restoring[r].at > 0
       PROVE  RestoreHolds(r)'
  <2> DEFINE data == restoring[r].of.data
             new == restoring[r].new
  <2>1. RestoreHolds(r)
    BY <1>14 DEF ArchiveInv, RestoresHold
  <2>2. Needed(r)' = Needed(r) /\ Locked(r)' = Locked(r)
    BY <1>2 DEF Needed, Locked
  <2>3. ASSUME NEW s \in Serial, restoring[r].at > 1, data[s] # {}
        PROVE  users[s] = {}
    <3>1. s \in Needed(r)
      BY <2>3 DEF Needed
    <3>2. owner[s] = r
      BY <2>1, <2>3, <3>1 DEF RestoreHolds, Locked
    <3> QED
      BY <3>2, ArchiveAssumption DEF ArchiveInv, ArchiveTypes
  <2>4. w \in users["invoice_lifecycle_events"] /\ (x.new => w \in users["invoices"])
    BY <1>8 DEF Drawn
  <2>5. restoring[r].at > 1 => data["invoice_lifecycle_events"] = {} /\ data["invoices"] = {}
    <3>1. restoring[r].at > 1 => data["invoice_lifecycle_events"] = {}
      BY <2>3, <2>4 DEF Serial
    <3>2. DataOK(data)
      BY <2>1 DEF RestoreHolds
    <3> QED
      BY <3>1, <3>2 DEF DataOK
  <2>6. \A s \in Serial : new[s] = {}
    <3>1. restoring[r].at > 1 => \A s \in Serial : new[s] \subseteq data[s] /\ data[s] = {}
      BY <2>1, <2>5 DEF RestoreHolds, Serial, TableNames
    <3>2. ~(restoring[r].at > 1) => \A n \in 1 .. 3 : new[Tables[n]] = {}
      <4>1. restoring[r].at \in Nat /\ DOMAIN Tables = 1 .. 3
        BY DEF ArchiveInv, ArchiveTypes, Tables
      <4> QED
        BY <2>1, <4>1 DEF RestoreHolds
    <3> QED
      BY <3>1, <3>2 DEF Serial, Tables
  <2>7. (restoring[r].of \in Archives /\ DataOK(restoring[r].of.data) /\ EventsHang(restoring[r].of.data))'
    BY <1>2, <2>1 DEF RestoreHolds, DataOK, EventsHang, Ids
  <2>8. \A t \in TableNames : new[t] \subseteq data[t] /\ Ids(new[t]) \cap Ids(tables'[t]) = {}
    BY <1>7, <2>1, <2>6 DEF RestoreHolds, TableNames, Serial, Ids
  <2>9. \A n \in DOMAIN Tables :
            IF n < restoring[r].at THEN data[Tables[n]] \subseteq tables'[Tables[n]] \cup new[Tables[n]]
            ELSE new[Tables[n]] = {}
    <3>1. \A n \in DOMAIN Tables : n < restoring[r].at /\ n # 1 => data[Tables[n]] = {}
      <4>1. restoring[r].at \in Nat /\ DOMAIN Tables = 1 .. 3
        BY DEF ArchiveInv, ArchiveTypes, Tables
      <4> QED
        BY <2>5, <4>1 DEF Tables
    <3>2. tables'[Tables[1]] = tables[Tables[1]]
      BY <1>7 DEF Tables
    <3> QED
      BY <2>1, <3>1, <3>2 DEF RestoreHolds
  <2> QED
    BY <1>2, <2>1, <2>2, <2>7, <2>8, <2>9 DEF RestoreHolds, Ids
<1>15. RestoresHold'
  BY <1>2, <1>14 DEF ArchiveInv, RestoresHold, Ids
<1>16. ArchiveTypes'
  BY <1>2, <1>7 DEF ArchiveInv, ArchiveTypes, Locked, DataOK, Ids
<1> QED
  BY <1>12, <1>13, <1>15, <1>16 DEF ArchiveInv

\* What is exported of a community hangs together as its tables do.
LEMMA OwnedOK ==
    ASSUME ArchiveInv
    PROVE  DataOK(Owned(Ours)) /\ Owned(Ours) \in AnyData
<1>1. DataOK(tables) /\ EventsHang(tables) /\ tables \in AnyData
  BY DEF ArchiveInv, ArchiveTypes, TablesHold
<1>2. \A t \in TableNames : Owned(Ours)[t] = {row \in tables[t] : row.of = Ours}
  BY DEF Owned
<1>3. \A s \in Serial : Ids(Owned(Ours)[s]) \subseteq 1 .. MaxId
  BY <1>1, <1>2 DEF DataOK, Serial, TableNames, Ids
<1>4. \A t \in TableNames : \A x, y \in Owned(Ours)[t] : x.id = y.id => x = y
  BY <1>1, <1>2 DEF DataOK
<1>5. ASSUME NEW invoice \in Owned(Ours)["invoices"]
      PROVE  \E event \in Owned(Ours)["invoice_lifecycle_events"] : event.parent = invoice.id
  <2>1. invoice \in tables["invoices"] /\ invoice.of = Ours
    BY <1>2 DEF TableNames
  <2>2. PICK event \in tables["invoice_lifecycle_events"] : event.parent = invoice.id
    BY <1>1, <2>1 DEF DataOK
  <2>3. PICK i \in tables["invoices"] : i.id = event.parent /\ i.of = event.of
    BY <1>1 DEF EventsHang
  <2>4. i = invoice
    BY <1>1, <2>1, <2>2, <2>3 DEF DataOK, TableNames
  <2> QED
    BY <1>2, <2>1, <2>2, <2>3, <2>4 DEF TableNames
<1>6. Owned(Ours) \in AnyData
  BY <1>1 DEF Owned, AnyData
<1> QED
  BY <1>3, <1>4, <1>5, <1>6 DEF DataOK

\* What becomes of a file outside leaves its rows, or takes a part of them away.
LEMMA DamagedOK ==
    ASSUME NEW a \in Archives, DataOK(a.data), NEW b \in Damaged(a)
    PROVE  b \in Archives /\ DataOK(b.data)
<1> DEFINE cut == [a.data EXCEPT !["invoices"] = {}]
<1>1. a = [version |-> a.version, of |-> a.of, data |-> a.data, hashes |-> a.hashes]
      /\ a.version \in Nat /\ a.of \in Communities /\ a.data \in AnyData /\ a.hashes \in AnyData
  BY DEF Archives
<1>2. cut \in AnyData /\ DataOK(cut)
  BY <1>1 DEF AnyData, DataOK, TableNames, Serial, Ids
<1>3. [a.hashes EXCEPT !["invoices"] = {}] \in AnyData
  BY <1>1 DEF AnyData
<1>4. b.data = a.data \/ b.data = cut
  BY <1>1 DEF Damaged
<1>5. PICK hashes \in AnyData : hashes = [a.hashes EXCEPT !["invoices"] = {}]
  BY <1>3
<1>6. PICK rows \in AnyData : rows = cut /\ DataOK(rows)
  BY <1>2
<1>7. \/ b = [a EXCEPT !.data = rows]
      \/ b = [a EXCEPT !.data = rows, !.hashes = hashes]
      \/ b = [a EXCEPT !.version = 4]
      \/ \E c \in Communities : b = [a EXCEPT !.of = c]
  BY <1>1, <1>5, <1>6 DEF Damaged
<1>8. b \in Archives
  <2>1. CASE b = [a EXCEPT !.data = rows]
    BY <1>1, <2>1 DEF Archives
  <2>2. CASE b = [a EXCEPT !.data = rows, !.hashes = hashes]
    BY <1>1, <2>2 DEF Archives
  <2>3. CASE b = [a EXCEPT !.version = 4]
    BY <1>1, <2>3 DEF Archives
  <2>4. ASSUME NEW c \in Communities, b = [a EXCEPT !.of = c]
        PROVE  b \in Archives
    BY <1>1, <2>4 DEF Archives
  <2> QED
    BY <1>7, <2>1, <2>2, <2>3, <2>4
<1> QED
  BY <1>2, <1>4, <1>8

\* An export, and what happens to the file.
LEMMA FileStep ==
    ASSUME ArchiveInv, export_community_archive \/ Damage
    PROVE  ArchiveInv'
<1>1. UNCHANGED <<tables, position, users, owner, writes, restoring>>
  BY DEF export_community_archive, Damage
<1>2. position \in [Serial -> Nat \ {0}]
  BY DEF ArchiveInv, ArchiveTypes
<1>3. archive' \in Archives /\ DataOK(archive.data)'
  <2>1. CASE export_community_archive
    <3>1. PICK d \in AnyData : d = Owned(Ours) /\ DataOK(d)
      BY OwnedOK
    <3>2. archive' = [version |-> 3, of |-> Ours, data |-> d, hashes |-> d]
      BY <2>1, <3>1 DEF export_community_archive
    <3>3. archive' \in Archives /\ archive'.data = d
      BY <3>2, ArchiveAssumption DEF Archives
    <3> QED
      BY <3>1, <3>3 DEF DataOK, Ids
  <2>2. CASE Damage
    <3>1. archive \in Archives /\ DataOK(archive.data)
      BY <2>2 DEF Damage, ArchiveInv, ArchiveTypes
    <3>2. PICK b \in Damaged(archive) : archive' = b
      BY <2>2 DEF Damage
    <3>3. b \in Archives /\ DataOK(b.data)
      BY <3>1, DamagedOK
    <3> QED
      BY <3>2, <3>3 DEF DataOK, Ids
  <2> QED
    BY <2>1, <2>2
<1>4. TablesHold' /\ RestoresHold'
  BY <1>1, <1>2, TablesStay, RestoresStay DEF ArchiveInv
<1>5. DrawsHold'
  BY <1>1 DEF ArchiveInv, DrawsHold, InHand, Drawn, Apart, Ids
<1>6. ArchiveTypes'
  BY <1>1, <1>3 DEF ArchiveInv, ArchiveTypes, Locked
<1> QED
  BY <1>4, <1>5, <1>6 DEF ArchiveInv

\* A new installation has nothing in hand.
LEMMA MoveStep ==
    ASSUME ArchiveInv, Move
    PROVE  ArchiveInv'
<1>1. /\ UNCHANGED <<users, owner, archive, writes, restoring>>
      /\ tables' = [NoRows EXCEPT !["communities"] = {CommunityRow(c) : c \in Communities \ {Ours}}]
      /\ position' = [s \in Serial |-> 1]
      /\ \A w \in Sessions : writes[w] = Nothing
      /\ \A r \in Restorers : restoring[r] = Resting
  BY DEF Move
<1>2. /\ tables'["communities"] = {CommunityRow(c) : c \in Communities \ {Ours}}
      /\ tables'["invoices"] = {} /\ tables'["invoice_lifecycle_events"] = {}
      /\ DOMAIN tables' = TableNames /\ tables' = [t \in TableNames |-> tables'[t]]
  BY <1>1 DEF NoRows, TableNames
<1>3. \A c \in Communities : CommunityRow(c) \in Records /\ CommunityRow(c).id = c
  BY ArchiveAssumption DEF CommunityRow, Records
<1>4. tables' \in AnyData
  BY <1>2, <1>3 DEF AnyData, TableNames
<1>5. \A s \in Serial : Ids(tables'[s]) = {}
  BY <1>2 DEF Serial, Ids
<1>6. \A x, y \in tables'["communities"] : x.id = y.id => x = y
  BY <1>2, <1>3
<1>7. DataOK(tables') /\ EventsHang(tables')
  BY <1>2, <1>5, <1>6 DEF DataOK, EventsHang, TableNames
<1>8. TablesHold'
  BY <1>5, <1>7 DEF TablesHold, DataOK, EventsHang, Ids
<1>9. DrawsHold'
  BY <1>1 DEF DrawsHold
<1>10. RestoresHold'
  BY <1>1 DEF RestoresHold, Resting, NoRows, Ids
<1>11. position' \in [Serial -> Nat \ {0}]
  BY <1>1
<1>12. ArchiveTypes'
  BY <1>1, <1>4, <1>11 DEF ArchiveInv, ArchiveTypes, Locked, DataOK, Ids
<1> QED
  BY <1>8, <1>9, <1>10, <1>12 DEF ArchiveInv

\* Tables and sessions do not see a restore that has not committed.
LEMMA Unseen ==
    ASSUME ArchiveInv, UNCHANGED <<tables, position, users, writes>>
    PROVE  TablesHold' /\ DrawsHold'
<1>1. position \in [Serial -> Nat \ {0}]
  BY DEF ArchiveInv, ArchiveTypes
<1>2. TablesHold'
  BY <1>1, TablesStay DEF ArchiveInv
<1>3. DrawsHold'
  BY DEF ArchiveInv, DrawsHold, InHand, Drawn, Apart, Ids
<1> QED
  BY <1>2, <1>3

\* Another restore goes on as it was when it keeps its sequences.
LEMMA OtherRestore ==
    ASSUME NEW r \in Restorers, RestoreHolds(r), UNCHANGED tables, restoring'[r] = restoring[r],
           Locked(r) \subseteq Locked(r)'
    PROVE  RestoreHolds(r)'
<1>1. Needed(r)' = Needed(r)
  BY DEF Needed
<1>2. (restoring[r].of \in Archives /\ DataOK(restoring[r].of.data) /\ EventsHang(restoring[r].of.data))'
  BY DEF RestoreHolds, DataOK, EventsHang, Ids
<1> QED
  BY <1>1, <1>2 DEF RestoreHolds, Ids

\* Resting has nothing to put in place.
LEMMA RestingShape ==
    /\ Resting = [at |-> Resting.at, of |-> Resting.of, new |-> Resting.new]
    /\ Resting.at = 0 /\ Resting.new \in AnyData /\ \A t \in TableNames : Resting.new[t] = {}
BY DEF Resting, NoRows, AnyData

\* An archive that was found valid is taken up.
LEMMA BeginStep ==
    ASSUME ArchiveInv, NEW r \in Restorers, restore_community_archive(r)
    PROVE  ArchiveInv'
<1>1. /\ archive # NoArchive /\ Valid(archive) /\ restoring[r] = Resting
      /\ restoring' = [restoring EXCEPT ![r] = [Resting EXCEPT !.at = 1, !.of = archive]]
      /\ UNCHANGED <<tables, position, users, owner, archive, moved, writes>>
  BY DEF restore_community_archive
<1>2. archive \in Archives /\ DataOK(archive.data)
  BY <1>1 DEF ArchiveInv, ArchiveTypes
<1>3. EventsHang(archive.data)
  <2> SUFFICES ASSUME NEW event \in archive.data["invoice_lifecycle_events"]
               PROVE  \E invoice \in archive.data["invoices"] : invoice.id = event.parent /\ invoice.of = event.of
    BY DEF EventsHang
  <2>1. event.parent \in Ids(archive.data["invoices"])
    BY <1>1 DEF Valid, Orphans
  <2>2. \A t \in TableNames : \A row \in archive.data[t] : row.of = archive.of
    BY <1>1 DEF Valid
  <2> QED
    BY <2>1, <2>2 DEF Ids, TableNames
<1>4. PICK x : x = [at |-> 1, of |-> archive, new |-> NoRows]
  OBVIOUS
<1>5. restoring' = [restoring EXCEPT ![r] = x]
  <2>1. PICK y : y = [Resting EXCEPT !.at = 1, !.of = archive]
    OBVIOUS
  <2>2. Resting = [at |-> 0, of |-> NoArchive, new |-> NoRows]
    BY DEF Resting
  <2>3. y.at = 1 /\ y.of = archive /\ y.new = NoRows /\ y = [at |-> y.at, of |-> y.of, new |-> y.new]
    BY <2>1, <2>2
  <2> QED
    BY <1>1, <1>4, <2>1, <2>3
<1>6. restoring'[r] = x /\ DOMAIN restoring' = Restorers
      /\ \A q \in Restorers \ {r} : restoring'[q] = restoring[q]
  BY <1>5 DEF ArchiveInv, ArchiveTypes
<1>7. NoRows \in AnyData /\ \A t \in TableNames : NoRows[t] = {}
  BY DEF NoRows, AnyData
<1>8. RestoreHolds(r)'
  <2>1. (DataOK(restoring[r].of.data) /\ EventsHang(restoring[r].of.data) /\ restoring[r].of \in Archives)'
    BY <1>2, <1>3, <1>4, <1>6 DEF DataOK, EventsHang, Ids
  <2>2. \A n \in DOMAIN Tables : Tables[n] \in TableNames /\ ~(n < 1)
    BY DEF Tables, TableNames
  <2> QED
    BY <1>4, <1>6, <1>7, <2>1, <2>2 DEF RestoreHolds, Ids
<1>9. Locked(r)' = Locked(r) /\ \A q \in Restorers : Locked(q)' = Locked(q)
  BY <1>1 DEF Locked
<1>10. RestoresHold'
  <2>1. \A q \in Restorers \ {r} : restoring'[q].at > 0 => RestoreHolds(q)'
    BY <1>1, <1>6, <1>9, OtherRestore DEF ArchiveInv, RestoresHold
  <2>2. \A t \in TableNames : Ids(restoring'[r].new[t]) = {}
    BY <1>4, <1>6, <1>7 DEF Ids
  <2>3. \A p, q \in Restorers : p # q =>
            \A t \in TableNames : Ids(restoring'[p].new[t]) \cap Ids(restoring'[q].new[t]) = {}
    <3>1. \A p, q \in Restorers : p # q =>
              \A t \in TableNames : Ids(restoring[p].new[t]) \cap Ids(restoring[q].new[t]) = {}
      BY DEF ArchiveInv, RestoresHold
    <3> QED
      BY <1>6, <2>2, <3>1
  <2>4. \A q \in Restorers : restoring'[q].at > 0 => RestoreHolds(q)'
    BY <1>8, <2>1
  <2> QED
    BY <2>3, <2>4 DEF RestoresHold, Ids
<1>11. ArchiveTypes'
  <2>1. \A q \in Restorers :
           /\ restoring'[q] = [at |-> restoring'[q].at, of |-> restoring'[q].of, new |-> restoring'[q].new]
           /\ restoring'[q].at \in Nat /\ restoring'[q].new \in AnyData
           /\ restoring'[q].at = 0 => restoring'[q] = Resting /\ Locked(q)' = {}
    <3>1. x = [at |-> x.at, of |-> x.of, new |-> x.new] /\ x.at = 1 /\ x.new \in AnyData
      BY <1>4, <1>7
    <3>2. \A q \in Restorers : q # r => <2>1!(q)
      BY <1>6, <1>9 DEF ArchiveInv, ArchiveTypes
    <3> QED
      BY <1>6, <3>1, <3>2
  <2> QED
    BY <1>1, <1>2, <1>6, <2>1 DEF ArchiveInv, ArchiveTypes, DataOK, Ids
<1> QED
  BY <1>1, <1>10, <1>11, Unseen DEF ArchiveInv

\* A sequence is taken for a restore.
LEMMA LockStep ==
    ASSUME ArchiveInv, NEW r \in Restorers, lock_sequence(r)
    PROVE  ArchiveInv'
<1>1. /\ restoring[r].at > 0
      /\ UNCHANGED <<tables, position, users, archive, moved, writes, restoring>>
  BY DEF lock_sequence
<1>2. PICK s \in Serial : users[s] = {} /\ owner[s] = Nobody /\ owner' = [owner EXCEPT ![s] = r]
  <2>1. PICK k \in DOMAIN LockOrder :
            /\ users[LockOrder[k]] = {} /\ owner[LockOrder[k]] = Nobody
            /\ owner' = [owner EXCEPT ![LockOrder[k]] = r]
    BY DEF lock_sequence
  <2>2. LockOrder[k] \in Serial
    BY DEF LockOrder, Serial
  <2> QED
    BY <2>1, <2>2
<1>3. /\ owner' \in [Serial -> Restorers \cup {Nobody}]
      /\ \A t \in Serial : owner'[t] # Nobody => users[t] = {}
      /\ \A q \in Restorers : Locked(q) \subseteq Locked(q)' /\ (q # r => Locked(q)' = Locked(q))
  BY <1>2, ArchiveAssumption DEF ArchiveInv, ArchiveTypes, Locked
<1>4. RestoresHold'
  <2>1. \A q \in Restorers : restoring'[q].at > 0 => RestoreHolds(q)'
    BY <1>1, <1>3, OtherRestore DEF ArchiveInv, RestoresHold
  <2> QED
    BY <1>1, <2>1 DEF ArchiveInv, RestoresHold, Ids
<1>5. ArchiveTypes'
  <2>1. restoring[r].at # 0
    BY <1>1 DEF ArchiveInv, ArchiveTypes
  <2>2. \A q \in Restorers : restoring[q].at = 0 => Locked(q)' = {}
    BY <1>3, <2>1 DEF ArchiveInv, ArchiveTypes
  <2> QED
    BY <1>1, <1>3, <2>2 DEF ArchiveInv, ArchiveTypes, DataOK, Ids
<1> QED
  BY <1>1, <1>4, <1>5, Unseen DEF ArchiveInv

\* A restore that ends leaves its sequences, and the others theirs.
LEMMA RestoreLeaves ==
    ASSUME ArchiveTypes, NEW r \in Restorers, restoring' = [restoring EXCEPT ![r] = Resting],
           owner' = Released(r), UNCHANGED users
    PROVE  /\ owner' \in [Serial -> Restorers \cup {Nobody}]
           /\ \A s \in Serial : owner'[s] # Nobody => users'[s] = {}
           /\ \A q \in Restorers \ {r} : Locked(q)' = Locked(q) /\ restoring'[q] = restoring[q]
           /\ restoring'[r] = Resting /\ DOMAIN restoring' = Restorers
           /\ \A q \in Restorers :
                  /\ restoring'[q] = [at |-> restoring'[q].at, of |-> restoring'[q].of, new |-> restoring'[q].new]
                  /\ restoring'[q].at \in Nat /\ restoring'[q].new \in AnyData
                  /\ restoring'[q].at = 0 => restoring'[q] = Resting /\ Locked(q)' = {}
<1>1. restoring'[r] = Resting /\ DOMAIN restoring' = Restorers
      /\ \A q \in Restorers \ {r} : restoring'[q] = restoring[q]
  BY DEF ArchiveTypes
<1>2. /\ owner' \in [Serial -> Restorers \cup {Nobody}]
      /\ \A s \in Serial : owner'[s] # Nobody => users'[s] = {}
  BY DEF Released, ArchiveTypes
<1>3. Locked(r)' = {} /\ \A q \in Restorers \ {r} : Locked(q)' = Locked(q)
  BY ArchiveAssumption DEF Locked, Released, ArchiveTypes
<1>4. ASSUME NEW q \in Restorers \ {r}
      PROVE  /\ restoring'[q] = [at |-> restoring'[q].at, of |-> restoring'[q].of, new |-> restoring'[q].new]
             /\ restoring'[q].at \in Nat /\ restoring'[q].new \in AnyData
             /\ restoring'[q].at = 0 => restoring'[q] = Resting /\ Locked(q)' = {}
  BY <1>1, <1>3 DEF ArchiveTypes
<1> QED
  BY <1>1, <1>2, <1>3, <1>4, RestingShape

\* A restore without a trace.
LEMMA RollBackStep ==
    ASSUME ArchiveInv, NEW r \in Restorers, RollBack(r)
    PROVE  ArchiveInv'
<1>1. /\ restoring' = [restoring EXCEPT ![r] = Resting] /\ owner' = Released(r)
      /\ UNCHANGED <<tables, position, users, archive, moved, writes>>
  BY DEF RollBack
<1>2. /\ owner' \in [Serial -> Restorers \cup {Nobody}]
      /\ \A s \in Serial : owner'[s] # Nobody => users'[s] = {}
      /\ \A q \in Restorers \ {r} : Locked(q)' = Locked(q) /\ restoring'[q] = restoring[q]
      /\ restoring'[r] = Resting /\ DOMAIN restoring' = Restorers
      /\ \A q \in Restorers :
             /\ restoring'[q] = [at |-> restoring'[q].at, of |-> restoring'[q].of, new |-> restoring'[q].new]
             /\ restoring'[q].at \in Nat /\ restoring'[q].new \in AnyData
             /\ restoring'[q].at = 0 => restoring'[q] = Resting /\ Locked(q)' = {}
  BY <1>1, RestoreLeaves DEF ArchiveInv
<1>3. RestoresHold'
  <2>1. \A q \in Restorers \ {r} : restoring'[q].at > 0 => RestoreHolds(q)'
    BY <1>1, <1>2, OtherRestore DEF ArchiveInv, RestoresHold
  <2>2. ~(restoring'[r].at > 0) /\ \A t \in TableNames : Ids(restoring'[r].new[t]) = {}
    BY <1>2, RestingShape DEF Ids
  <2>3. \A p, q \in Restorers : p # q =>
            \A t \in TableNames : Ids(restoring'[p].new[t]) \cap Ids(restoring'[q].new[t]) = {}
    <3>1. \A p, q \in Restorers : p # q =>
              \A t \in TableNames : Ids(restoring[p].new[t]) \cap Ids(restoring[q].new[t]) = {}
      BY DEF ArchiveInv, RestoresHold
    <3> QED
      BY <1>2, <2>2, <3>1
  <2> QED
    BY <2>1, <2>2, <2>3 DEF RestoresHold, Ids
<1>4. ArchiveTypes'
  BY <1>1, <1>2 DEF ArchiveInv, ArchiveTypes, DataOK, Ids
<1> QED
  BY <1>1, <1>3, <1>4, Unseen DEF ArchiveInv

\* Every number of the list of tables is that of one table.
LEMMA TablesAre ==
    /\ DOMAIN Tables = 1 .. 3 /\ Len(Tables) = 3
    /\ \A n \in 1 .. 3 : Tables[n] \in TableNames
    /\ \A t \in TableNames : \E n \in 1 .. 3 : t = Tables[n]
    /\ \A m, n \in 1 .. 3 : Tables[m] = Tables[n] => m = n
<1>1. DOMAIN Tables = 1 .. 3 /\ Len(Tables) = 3
  BY DEF Tables
<1>2. Tables[1] = "communities" /\ Tables[2] = "invoices" /\ Tables[3] = "invoice_lifecycle_events"
  BY DEF Tables
<1>3. \A n \in 1 .. 3 : n = 1 \/ n = 2 \/ n = 3
  OBVIOUS
<1> QED
  BY <1>1, <1>2, <1>3 DEF TableNames

\* A table is filled.
LEMMA RowsStep ==
    ASSUME ArchiveInv, NEW r \in Restorers, restore_rows(r)
    PROVE  ArchiveInv'
<1> DEFINE n == restoring[r].at
           t == Tables[n]
           data == restoring[r].of.data
           rows == {row \in data[t] : row.id \notin Ids(tables[t])}
<1>1. /\ Fills(r) /\ n \in DOMAIN Tables /\ ~Clashes(t, data[t])
      /\ \A q \in Restorers \ {r} : Ids(restoring[q].new[t]) \cap Ids(data[t]) = {}
      /\ restoring' = [restoring EXCEPT ![r].new[t] = rows, ![r].at = @ + 1]
      /\ UNCHANGED <<tables, position, users, owner, archive, moved, writes>>
  BY DEF restore_rows
<1>2. n \in 1 .. 3 /\ t \in TableNames /\ n > 0
  <2>1. n \in 1 .. 3
    BY <1>1, TablesAre
  <2> QED
    BY <2>1, TablesAre
<1>3. RestoreHolds(r)
  BY <1>2 DEF ArchiveInv, RestoresHold
<1>4. PICK new \in AnyData : new = restoring[r].new
  BY DEF ArchiveInv, ArchiveTypes
<1>5. data \in AnyData /\ rows \in SUBSET Records
  BY <1>2, <1>3 DEF RestoreHolds, Archives, AnyData
<1>6. PICK then \in AnyData : then = [new EXCEPT ![t] = rows]
  BY <1>5 DEF AnyData
<1>7. then[t] = rows /\ \A u \in TableNames \ {t} : then[u] = new[u]
  BY <1>2, <1>6 DEF AnyData
<1>8. /\ restoring'[r] = [at |-> n + 1, of |-> restoring[r].of, new |-> then]
      /\ DOMAIN restoring' = Restorers
      /\ \A q \in Restorers \ {r} : restoring'[q] = restoring[q]
  <2>1. restoring[r] = [at |-> n, of |-> restoring[r].of, new |-> new] /\ DOMAIN restoring = Restorers
    BY <1>4 DEF ArchiveInv, ArchiveTypes
  <2>2. restoring' = [restoring EXCEPT ![r] = [restoring[r] EXCEPT !.new = then, !.at = n + 1]]
    BY <1>1, <1>4, <1>6, <2>1
  <2>3. PICK x : x = [restoring[r] EXCEPT !.new = then, !.at = n + 1]
    OBVIOUS
  <2>4. x.at = n + 1 /\ x.of = restoring[r].of /\ x.new = then /\ x = [at |-> x.at, of |-> x.of, new |-> x.new]
    BY <2>1, <2>3
  <2> QED
    BY <2>1, <2>2, <2>3, <2>4
<1>9. \A q \in Restorers : Locked(q)' = Locked(q)
  BY <1>1 DEF Locked
<1>10. RestoreHolds(r)'
  <2>1. (DataOK(restoring[r].of.data) /\ EventsHang(restoring[r].of.data) /\ restoring[r].of \in Archives)'
    BY <1>3, <1>8 DEF RestoreHolds, DataOK, EventsHang, Ids
  <2>2. Needed(r)' \subseteq Locked(r)'
    BY <1>1, <1>8, <1>9 DEF Fills, Needed
  <2>3. \A u \in TableNames : then[u] \subseteq data[u] /\ Ids(then[u]) \cap Ids(tables[u]) = {}
    <3>1. \A u \in TableNames : new[u] \subseteq data[u] /\ Ids(new[u]) \cap Ids(tables[u]) = {}
      BY <1>3, <1>4 DEF RestoreHolds
    <3>2. rows \subseteq data[t] /\ Ids(rows) \cap Ids(tables[t]) = {}
      BY DEF Ids
    <3> QED
      BY <1>7, <3>1, <3>2
  <2>4. data[t] \subseteq tables[t] \cup rows
    BY <1>1 DEF Clashes, _same_record, Ids
  <2>5. \A m \in 1 .. 3 :
            IF m < n + 1 THEN data[Tables[m]] \subseteq tables[Tables[m]] \cup then[Tables[m]]
            ELSE then[Tables[m]] = {}
    <3>1. \A m \in 1 .. 3 :
            IF m < n THEN data[Tables[m]] \subseteq tables[Tables[m]] \cup new[Tables[m]]
            ELSE new[Tables[m]] = {}
      BY <1>3, <1>4, TablesAre DEF RestoreHolds
    <3>2. \A m \in 1 .. 3 : m # n => then[Tables[m]] = new[Tables[m]]
      BY <1>2, <1>7, TablesAre
    <3>3. \A m \in 1 .. 3 : m < n + 1 <=> m < n \/ m = n
      BY <1>2
    <3> QED
      BY <1>2, <1>7, <2>4, <3>1, <3>2, <3>3
  <2>6. restoring'[r].of.data = data /\ restoring'[r].new = then /\ restoring'[r].at = n + 1
    BY <1>8
  <2>7. \A u \in TableNames : /\ restoring'[r].new[u] \subseteq restoring'[r].of.data[u]
                             /\ Ids(restoring'[r].new[u]) \cap Ids(tables'[u]) = {}
    BY <1>1, <2>3, <2>6
  <2>8. \A m \in DOMAIN Tables :
            IF m < restoring'[r].at
            THEN restoring'[r].of.data[Tables[m]] \subseteq tables'[Tables[m]] \cup restoring'[r].new[Tables[m]]
            ELSE restoring'[r].new[Tables[m]] = {}
    BY <1>1, <2>5, <2>6, TablesAre
  <2> HIDE DEF n, t, data, rows
  <2> QED
    BY <2>1, <2>2, <2>7, <2>8 DEF RestoreHolds, Ids
<1>11. RestoresHold'
  <2>1. \A q \in Restorers \ {r} : restoring'[q].at > 0 => RestoreHolds(q)'
    BY <1>1, <1>8, <1>9, OtherRestore DEF ArchiveInv, RestoresHold
  <2>2. \A p, q \in Restorers : p # q =>
            \A u \in TableNames : Ids(restoring[p].new[u]) \cap Ids(restoring[q].new[u]) = {}
    BY DEF ArchiveInv, RestoresHold
  <2>3. \A q \in Restorers \ {r} : \A u \in TableNames : Ids(restoring[q].new[u]) \cap Ids(then[u]) = {}
    <3>1. \A q \in Restorers \ {r} : Ids(restoring[q].new[t]) \cap Ids(rows) = {}
      BY <1>1 DEF Ids
    <3> QED
      BY <1>4, <1>7, <2>2, <3>1
  <2>4. \A p, q \in Restorers : p # q =>
            \A u \in TableNames : Ids(restoring'[p].new[u]) \cap Ids(restoring'[q].new[u]) = {}
    BY <1>8, <2>2, <2>3
  <2> QED
    BY <1>10, <2>1, <2>4 DEF RestoresHold, Ids
<1>12. ArchiveTypes'
  <2>1. \A q \in Restorers :
           /\ restoring'[q] = [at |-> restoring'[q].at, of |-> restoring'[q].of, new |-> restoring'[q].new]
           /\ restoring'[q].at \in Nat /\ restoring'[q].new \in AnyData
           /\ restoring'[q].at = 0 => restoring'[q] = Resting /\ Locked(q)' = {}
    <3>1. n + 1 \in Nat /\ n + 1 # 0
      BY <1>2
    <3>2. \A q \in Restorers \ {r} : <2>1!(q)
      BY <1>8, <1>9 DEF ArchiveInv, ArchiveTypes
    <3> QED
      BY <1>8, <3>1, <3>2
  <2> QED
    BY <1>1, <1>8, <2>1 DEF ArchiveInv, ArchiveTypes, DataOK, Ids
<1> QED
  BY <1>1, <1>11, <1>12, Unseen DEF ArchiveInv

\* A set of small numbers has a greatest one.
LEMMA GreatestId ==
    ASSUME NEW N \in Nat, NEW S \in SUBSET (0 .. N), S # {}
    PROVE  Max(S) \in S /\ \A j \in S : j <= Max(S)
<1>1. PICK m \in {N - k : k \in S} : \A n \in {N - k : k \in S} : ~(<<n, m>> \in OpToRel(<, Nat))
  <2>1. {N - k : k \in S} \in SUBSET Nat /\ {N - k : k \in S} # {}
    <3>1. \A k \in S : N - k \in Nat
      OBVIOUS
    <3> QED
      BY <3>1
  <2> QED
    BY <2>1, NatLessThanWellFounded, WFMin
<1>2. PICK k \in S : m = N - k
  BY <1>1
<1>3. ASSUME NEW j \in S
      PROVE  j <= k /\ k >= j
  <2>1. j \in 0 .. N /\ k \in 0 .. N /\ N - j \in Nat /\ N - k \in Nat
    OBVIOUS
  <2>2. ~(<<N - j, N - k>> \in OpToRel(<, Nat))
    BY <1>1, <1>2
  <2>3. ~(N - j < N - k)
    BY <2>1, <2>2 DEF OpToRel
  <2> QED
    BY <2>1, <2>3
<1>4. Max(S) \in S /\ \A j \in S : Max(S) >= j
  BY <1>3 DEF Max
<1>5. \A i, j \in S : i >= j => j <= i
  OBVIOUS
<1> QED
  BY <1>4, <1>5

\* A sequence is set behind the ids of its table, and never back.
LEMMA BehindIds ==
    ASSUME ArchiveTypes, NEW s \in Serial, NEW rows, Ids(rows) \subseteq 1 .. MaxId
    PROVE  /\ next_value(s, rows) \in Nat \ {0} /\ position[s] <= next_value(s, rows)
           /\ \A id \in Ids(rows) : id < next_value(s, rows)
<1> DEFINE S == {position[s]} \cup {id + 1 : id \in Ids(rows)}
<1>1. position[s] \in Nat \ {0} /\ MaxId \in Nat
  BY ArchiveAssumption DEF ArchiveTypes
<1>2. PICK N \in Nat : position[s] <= N /\ MaxId + 1 <= N
  <2>1. position[s] + MaxId + 1 \in Nat /\ position[s] <= position[s] + MaxId + 1
        /\ MaxId + 1 <= position[s] + MaxId + 1
    BY <1>1
  <2> QED
    BY <2>1
<1>3. S \in SUBSET (0 .. N) /\ S # {}
  BY <1>1, <1>2
<1>4. Max(S) \in S /\ \A j \in S : j <= Max(S)
  BY <1>3, GreatestId
<1>5. \A j \in S : j \in Nat \ {0}
  BY <1>1
<1>6. next_value(s, rows) = Max(S)
  BY DEF next_value
<1>7. \A id \in Ids(rows) : id + 1 <= Max(S) /\ id \in Nat /\ Max(S) \in Nat
  BY <1>4, <1>5
<1> QED
  BY <1>4, <1>5, <1>6, <1>7

\* A restore commits: its rows join the tables.
LEMMA AdvanceStep ==
    ASSUME ArchiveInv, NEW r \in Restorers, _advance_sequences(r)
    PROVE  /\ ArchiveInv'
           /\ \A t \in TableNames : tables[t] \cup restoring[r].of.data[t] = tables'[t]
<1> DEFINE data == restoring[r].of.data
           new == restoring[r].new
<1>1. /\ Fills(r) /\ restoring[r].at > 3
      /\ tables' = [t \in TableNames |-> tables[t] \cup new[t]]
      /\ position' = [s \in Serial |-> IF owner[s] = r THEN next_value(s, tables'[s]) ELSE position[s]]
      /\ owner' = Released(r) /\ restoring' = [restoring EXCEPT ![r] = Resting]
      /\ UNCHANGED <<users, archive, moved, writes>>
  BY TablesAre DEF _advance_sequences
<1>2. restoring[r].at \in Nat /\ new \in AnyData /\ tables \in AnyData
  BY DEF ArchiveInv, ArchiveTypes
<1>3. RestoreHolds(r)
  BY <1>1, <1>2 DEF ArchiveInv, RestoresHold
<1>4. \A t \in TableNames : /\ new[t] \subseteq data[t] /\ data[t] \subseteq tables[t] \cup new[t]
                            /\ Ids(new[t]) \cap Ids(tables[t]) = {}
  <2>1. \A m \in 1 .. 3 : data[Tables[m]] \subseteq tables[Tables[m]] \cup new[Tables[m]]
    <3>1. \A m \in 1 .. 3 : m < restoring[r].at
      BY <1>1, <1>2
    <3> QED
      BY <1>3, <3>1, TablesAre DEF RestoreHolds
  <2> QED
    BY <1>3, <2>1, TablesAre DEF RestoreHolds
<1>5. \A t \in TableNames : tables'[t] = tables[t] \cup new[t]
  BY <1>1
<1>6. \A t \in TableNames : tables'[t] = tables[t] \cup data[t]
  BY <1>4, <1>5
<1>7. DataOK(data) /\ EventsHang(data) /\ DataOK(tables) /\ EventsHang(tables)
  BY <1>3 DEF RestoreHolds, ArchiveInv, TablesHold
<1>8. \A t \in TableNames : Ids(tables'[t]) = Ids(tables[t]) \cup Ids(new[t])
  BY <1>5 DEF Ids
<1>9. DataOK(tables')
  <2>1. \A s \in Serial : Ids(tables'[s]) \subseteq 1 .. MaxId
    BY <1>6, <1>7 DEF DataOK, Serial, TableNames, Ids
  <2>2. ASSUME NEW t \in TableNames, NEW x \in tables'[t], NEW y \in tables'[t], x.id = y.id
        PROVE  x = y
    <3>1. \A u, v \in tables[t] : u.id = v.id => u = v
      BY <1>7 DEF DataOK
    <3>2. \A u, v \in new[t] : u.id = v.id => u = v
      BY <1>4, <1>7 DEF DataOK
    <3>3. \A u \in new[t], v \in tables[t] : u.id # v.id
      BY <1>4 DEF Ids
    <3> QED
      BY <1>5, <2>2, <3>1, <3>2, <3>3
  <2>3. \A i \in tables'["invoices"] : \E e \in tables'["invoice_lifecycle_events"] : e.parent = i.id
    BY <1>6, <1>7 DEF DataOK, TableNames
  <2> QED
    BY <2>1, <2>2, <2>3 DEF DataOK
<1>10. EventsHang(tables')
  <2> SUFFICES ASSUME NEW e \in tables'["invoice_lifecycle_events"]
               PROVE  \E i \in tables'["invoices"] : i.id = e.parent /\ i.of = e.of
    BY DEF EventsHang
  <2>1. \E i \in tables["invoices"] \cup data["invoices"] : i.id = e.parent /\ i.of = e.of
    BY <1>6, <1>7 DEF EventsHang, TableNames
  <2> QED
    BY <1>6, <2>1 DEF TableNames
<1>11. ASSUME NEW s \in Serial
       PROVE  s \in TableNames /\ (owner[s] # r => new[s] = {} /\ tables'[s] = tables[s])
  <2>1. s \in TableNames
    BY DEF Serial, TableNames
  <2>2. owner[s] # r => data[s] = {}
    BY <1>1 DEF Fills, Needed, Locked
  <2> QED
    BY <1>4, <1>5, <2>1, <2>2
<1>12. ASSUME NEW s \in Serial
       PROVE  /\ position'[s] \in Nat \ {0} /\ position[s] <= position'[s]
              /\ owner[s] # r => position'[s] = position[s]
              /\ \A id \in Ids(tables'[s]) : id < position'[s]
  <2>1. CASE owner[s] = r
    <3>1. Ids(tables'[s]) \subseteq 1 .. MaxId
      BY <1>9 DEF DataOK
    <3>2. position'[s] = next_value(s, tables'[s])
      BY <1>1, <2>1
    <3> QED
      BY <2>1, <3>1, <3>2, BehindIds DEF ArchiveInv
  <2>2. CASE owner[s] # r
    <3>1. position'[s] = position[s] /\ tables'[s] = tables[s]
      BY <1>1, <1>11, <2>2
    <3> QED
      BY <3>1 DEF ArchiveInv, ArchiveTypes, TablesHold
  <2> QED
    BY <2>1, <2>2
<1>13. TablesHold'
  BY <1>9, <1>10, <1>12 DEF TablesHold, DataOK, EventsHang, Ids
<1>14. DrawsHold'
  <2>1. ASSUME NEW w \in Sessions, NEW s \in Serial, NEW id, Drawn(w, s, id)
        PROVE  Drawn(w, s, id)'
    <3>1. owner[s] # r
      BY <2>1, ArchiveAssumption DEF Drawn, ArchiveInv, ArchiveTypes
    <3>2. tables'[s] = tables[s] /\ position'[s] = position[s]
      BY <1>11, <1>12, <3>1
    <3> QED
      BY <1>1, <2>1, <3>2 DEF Drawn, Ids
  <2>2. ASSUME NEW w \in Sessions, NEW x \in Writing, InHand(w, x)
        PROVE  InHand(w, x)'
    <3>1. "invoices" \in Serial /\ "invoice_lifecycle_events" \in Serial
      BY DEF Serial
    <3>2. ~x.new => \E row \in tables'["invoices"] : row.id = x.invoice /\ row.of = x.of
      BY <1>6, <2>2 DEF InHand, TableNames
    <3> QED
      BY <2>1, <2>2, <3>1, <3>2 DEF InHand
  <2>3. ASSUME NEW w \in Sessions, writes[w] # Nothing
        PROVE  InHand(w, writes[w])'
    <3>1. PICK x \in Writing : x = writes[w]
      BY <2>3 DEF ArchiveInv, ArchiveTypes
    <3>2. InHand(w, x)'
      BY <2>2, <2>3, <3>1 DEF ArchiveInv, DrawsHold
    <3>3. writes'[w] = x
      BY <1>1, <3>1
    <3> QED
      BY <3>2, <3>3 DEF InHand
  <2> QED
    BY <1>1, <2>3 DEF ArchiveInv, DrawsHold, Apart
<1>15. /\ owner' \in [Serial -> Restorers \cup {Nobody}]
       /\ \A s \in Serial : owner'[s] # Nobody => users'[s] = {}
       /\ \A q \in Restorers \ {r} : Locked(q)' = Locked(q) /\ restoring'[q] = restoring[q]
       /\ restoring'[r] = Resting /\ DOMAIN restoring' = Restorers
       /\ \A q \in Restorers :
              /\ restoring'[q] = [at |-> restoring'[q].at, of |-> restoring'[q].of, new |-> restoring'[q].new]
              /\ restoring'[q].at \in Nat /\ restoring'[q].new \in AnyData
              /\ restoring'[q].at = 0 => restoring'[q] = Resting /\ Locked(q)' = {}
  BY <1>1, RestoreLeaves DEF ArchiveInv
<1>16. ASSUME NEW q \in Restorers \ {r}, restoring[q].at > 0
       PROVE  RestoreHolds(q)'
  <2>1. RestoreHolds(q)
    BY <1>16 DEF ArchiveInv, RestoresHold
  <2>2. Needed(q)' = Needed(q) /\ Locked(q)' = Locked(q) /\ restoring'[q] = restoring[q]
    BY <1>15 DEF Needed
  <2>3. (DataOK(restoring[q].of.data) /\ EventsHang(restoring[q].of.data) /\ restoring[q].of \in Archives)'
    BY <2>1, <2>2 DEF RestoreHolds, DataOK, EventsHang, Ids
  <2>4. \A t \in TableNames : /\ restoring[q].new[t] \subseteq restoring[q].of.data[t]
                              /\ Ids(restoring[q].new[t]) \cap Ids(tables'[t]) = {}
    <3>1. \A t \in TableNames : Ids(restoring[q].new[t]) \cap Ids(new[t]) = {}
      BY DEF ArchiveInv, RestoresHold
    <3>2. \A t \in TableNames : /\ restoring[q].new[t] \subseteq restoring[q].of.data[t]
                                /\ Ids(restoring[q].new[t]) \cap Ids(tables[t]) = {}
      BY <2>1 DEF RestoreHolds
    <3> QED
      BY <1>8, <3>1, <3>2
  <2>5. \A m \in DOMAIN Tables :
            IF m < restoring[q].at
            THEN restoring[q].of.data[Tables[m]] \subseteq tables'[Tables[m]] \cup restoring[q].new[Tables[m]]
            ELSE restoring[q].new[Tables[m]] = {}
    <3>1. \A m \in DOMAIN Tables : tables[Tables[m]] \subseteq tables'[Tables[m]]
      BY <1>5, TablesAre
    <3> QED
      BY <2>1, <3>1 DEF RestoreHolds
  <2> QED
    BY <2>1, <2>2, <2>3, <2>4, <2>5 DEF RestoreHolds, Ids
<1>17. RestoresHold'
  <2>1. ~(restoring'[r].at > 0) /\ \A t \in TableNames : Ids(restoring'[r].new[t]) = {}
    BY <1>15, RestingShape DEF Ids
  <2>2. \A p, q \in Restorers : p # q =>
            \A t \in TableNames : Ids(restoring'[p].new[t]) \cap Ids(restoring'[q].new[t]) = {}
    <3>1. \A p, q \in Restorers : p # q =>
              \A t \in TableNames : Ids(restoring[p].new[t]) \cap Ids(restoring[q].new[t]) = {}
      BY DEF ArchiveInv, RestoresHold
    <3> QED
      BY <1>15, <2>1, <3>1
  <2> QED
    BY <1>15, <1>16, <2>1, <2>2 DEF RestoresHold, Ids
<1>18. ArchiveTypes'
  <2>1. tables' \in AnyData
    BY <1>1, <1>2 DEF AnyData
  <2>2. position' \in [Serial -> Nat \ {0}]
    BY <1>1, <1>12
  <2> QED
    BY <1>1, <1>15, <2>1, <2>2 DEF ArchiveInv, ArchiveTypes, DataOK, Ids
<1> QED
  BY <1>6, <1>13, <1>14, <1>17, <1>18 DEF ArchiveInv

\* A new installation.
LEMMA ArchiveStart == ArchiveInit => ArchiveInv
<1> SUFFICES ASSUME ArchiveInit
             PROVE  ArchiveInv
  OBVIOUS
<1>1. /\ tables["communities"] = {CommunityRow(c) : c \in Communities}
      /\ tables["invoices"] = {} /\ tables["invoice_lifecycle_events"] = {}
      /\ tables = [t \in TableNames |-> tables[t]]
  BY DEF ArchiveInit, NoRows, TableNames
<1>2. \A c \in Communities : CommunityRow(c) \in Records /\ CommunityRow(c).id = c
  BY ArchiveAssumption DEF CommunityRow, Records
<1>3. tables \in AnyData
  BY <1>1, <1>2 DEF AnyData, TableNames
<1>4. \A s \in Serial : Ids(tables[s]) = {}
  BY <1>1 DEF Serial, Ids
<1>5. \A x, y \in tables["communities"] : x.id = y.id => x = y
  BY <1>1, <1>2
<1>6. TablesHold
  BY <1>1, <1>4, <1>5 DEF TablesHold, DataOK, EventsHang, TableNames
<1>7. DrawsHold
  BY DEF ArchiveInit, DrawsHold
<1>8. \A r \in Restorers : restoring[r] = Resting /\ Locked(r) = {}
  BY ArchiveAssumption DEF ArchiveInit, Locked
<1>9. RestoresHold
  BY <1>8, RestingShape DEF RestoresHold, Ids
<1>10. ArchiveTypes
  <2>1. \A r \in Restorers :
           /\ restoring[r] = [at |-> restoring[r].at, of |-> restoring[r].of, new |-> restoring[r].new]
           /\ restoring[r].at \in Nat /\ restoring[r].new \in AnyData
           /\ restoring[r].at = 0 => restoring[r] = Resting /\ Locked(r) = {}
    BY <1>8, RestingShape
  <2> QED
    BY <1>3, <2>1 DEF ArchiveInit, ArchiveTypes
<1> QED
  BY <1>6, <1>7, <1>9, <1>10 DEF ArchiveInv

\* Every step keeps the archive's invariant.
LEMMA ArchiveStep == ArchiveInv /\ [ArchiveNext]_archiveVars => ArchiveInv'
<1> SUFFICES ASSUME ArchiveInv, [ArchiveNext]_archiveVars
             PROVE  ArchiveInv'
  OBVIOUS
<1>1. ASSUME NEW w \in Sessions,
             \/ \E c \in Communities : insert_invoice(w, c)
             \/ \E row \in tables["invoices"] : pay(w, row)
             \/ insert_event(w)
      PROVE  ArchiveInv'
  BY <1>1, WriteStep
<1>2. ASSUME NEW w \in Sessions, CommitSession(w)
      PROVE  ArchiveInv'
  BY <1>2, CommitSessionStep
<1>3. ASSUME NEW w \in Sessions, RollBackSession(w)
      PROVE  ArchiveInv'
  BY <1>3, RollBackSessionStep
<1>4. CASE export_community_archive \/ Damage
  BY <1>4, FileStep
<1>5. CASE Move
  BY <1>5, MoveStep
<1>6. ASSUME NEW r \in Restorers, restore_community_archive(r)
      PROVE  ArchiveInv'
  BY <1>6, BeginStep
<1>7. ASSUME NEW r \in Restorers, lock_sequence(r)
      PROVE  ArchiveInv'
  BY <1>7, LockStep
<1>8. ASSUME NEW r \in Restorers, restore_rows(r)
      PROVE  ArchiveInv'
  BY <1>8, RowsStep
<1>9. ASSUME NEW r \in Restorers, _advance_sequences(r)
      PROVE  ArchiveInv'
  BY <1>9, AdvanceStep
<1>10. ASSUME NEW r \in Restorers, RollBack(r)
       PROVE  ArchiveInv'
  BY <1>10, RollBackStep
<1>11. CASE UNCHANGED archiveVars
  <2>1. UNCHANGED <<tables, position, users, owner, archive, moved, writes, restoring>>
    BY <1>11 DEF archiveVars
  <2>2. RestoresHold'
    BY <2>1, RestoresStay DEF ArchiveInv
  <2>3. ArchiveTypes'
    BY <2>1 DEF ArchiveInv, ArchiveTypes, Locked, DataOK, Ids
  <2> QED
    BY <2>1, <2>2, <2>3, Unseen DEF ArchiveInv
<1> QED
  BY <1>1, <1>2, <1>3, <1>4, <1>5, <1>6, <1>7, <1>8, <1>9, <1>10, <1>11 DEF ArchiveNext

\* What the invariant says of the committed rows, and of the ids in hand.
LEMMA ArchiveInvRecords == ArchiveInv => RecordsHangTogether /\ ArchiveTypeOK
<1> SUFFICES ASSUME ArchiveInv
             PROVE  RecordsHangTogether /\ ArchiveTypeOK
  OBVIOUS
<1>1. ASSUME NEW w \in Sessions, writes[w] # Nothing
      PROVE  ~Taken(w)
  <2>1. InHand(w, writes[w])
    BY <1>1 DEF ArchiveInv, DrawsHold
  <2>2. 0 \notin Ids(tables["invoice_lifecycle_events"])
    BY DEF ArchiveInv, TablesHold, DataOK, Serial
  <2> QED
    BY <2>1, <2>2 DEF Taken, InHand, Drawn
<1>2. RecordsHangTogether
  BY <1>1 DEF ArchiveInv, TablesHold, DataOK, EventsHang, RecordsHangTogether
<1>3. ArchiveTypeOK
  BY DEF ArchiveInv, ArchiveTypes, ArchiveTypeOK, AnyData
<1> QED
  BY <1>2, <1>3

\* The archive's invariant holds throughout.
LEMMA ArchiveInvHolds == ArchiveSpec => []ArchiveInv
BY ArchiveStart, ArchiveStep, PTL DEF ArchiveSpec

\* The tables hold records, and a sequence that a restore holds is drawn from by
\* nobody (restore_community's lock of a sequence).
THEOREM ArchiveTypesHold == ArchiveSpec => []ArchiveTypeOK
BY ArchiveInvHolds, ArchiveInvRecords, PTL

\* Whatever was archived, damaged, moved and restored twice at a time beside
\* sessions that write: every id names one record, an event belongs to the
\* community of its invoice, and no session draws the id of a restored record.
THEOREM RecordsHangTogetherHolds == ArchiveSpec => []RecordsHangTogether
BY ArchiveInvHolds, ArchiveInvRecords, PTL

\* The step that ends a restore puts all of its archive in place, or nothing.
LEMMA RestoreEnds ==
    ASSUME ArchiveInv, [ArchiveNext]_archiveVars, NEW r \in Restorers,
           restoring[r] # Resting, restoring'[r] = Resting
    PROVE  \/ tables' = tables /\ position' = position
           \/ \A t \in TableNames : tables[t] \cup restoring[r].of.data[t] = tables'[t]
<1> SUFFICES ASSUME ~ UNCHANGED <<tables, position>>
             PROVE  \A t \in TableNames : tables[t] \cup restoring[r].of.data[t] = tables'[t]
  OBVIOUS
<1>1. restoring' # restoring
  OBVIOUS
<1>2. PICK q \in Restorers :
        \/ restore_community_archive(q) \/ lock_sequence(q) \/ restore_rows(q)
        \/ _advance_sequences(q) \/ RollBack(q)
  BY <1>1 DEF ArchiveNext, archiveVars, insert_invoice, pay, insert_event, CommitSession, RollBackSession,
     Ends, export_community_archive, Damage, Move
<1>3. _advance_sequences(q)
  BY <1>2 DEF restore_community_archive, lock_sequence, restore_rows, RollBack
<1>4. restoring' = [restoring EXCEPT ![q] = Resting]
  BY <1>3 DEF _advance_sequences
<1>5. q = r
  BY <1>4 DEF ArchiveInv, ArchiveTypes
<1> QED
  BY <1>3, <1>5, AdvanceStep

\* A restore ends with every record of the archive in place and no other record
\* touched, or with nothing changed at all ("one store transaction").
THEOREM RestoreIsWholeHolds == ArchiveSpec => RestoreIsWhole
<1>1. ArchiveInv /\ [ArchiveNext]_archiveVars =>
        [\A r \in Restorers : restoring[r] # Resting /\ restoring'[r] = Resting =>
            \/ tables' = tables /\ position' = position
            \/ \A t \in TableNames : tables[t] \cup restoring[r].of.data[t] = tables'[t]]_archiveVars
  BY RestoreEnds
<1> QED
  BY <1>1, ArchiveInvHolds, PTL DEF ArchiveSpec, RestoreIsWhole
=============================================================================
