------------------------ MODULE BillingPeriodsProofs ------------------------
(***************************************************************************)
(* What BillingPeriods promises for every set of deliveries, windows and   *)
(* requests.  The properties are not inductive: they hold because the four *)
(* transactions that decide something do it while they hold the community  *)
(* row.  IInv says what each of them may rely on until it commits.  Then   *)
(* the gate a month's readings pass, with its sums, and the lines of its   *)
(* draft, which approval pins.                                             *)
(***************************************************************************)
EXTENDS BillingPeriods, MeteringRegister, BillingArithmetic, FunctionTheorems,
        FiniteSetTheorems, WellFoundedInduction, TLAPS

\* Whoever is between taking the community row and COMMIT is its owner, so at
\* most one such transaction exists.
RowHeld == \A p \in Procs : proc[p].pc \in Holding => owner = p

\* Every run past its second read, and every row, names real evidence.
EvidenceNamed ==
    /\ \A i \in DOMAIN periods : periods[i].evidence \in Files
    /\ \A p \in Procs : proc[p].pc \in {"frames", "compare", "ready", "saving"}
                          => proc[p].draft.evidence \in Files

\* A draft about to be inserted rests on current evidence.
SavingCurrent ==
    \A p \in Procs : proc[p].pc = "saving" /\ proc[p].draft.status = "draft"
                       => Current(proc[p].draft.evidence)

\* A delivery about to be accepted overlaps none that counts.
DeliveringDisjoint ==
    \A p \in Procs : proc[p].pc = "delivering" /\ proc[p].verdict = "accepted"
                       => ~Overlapped(proc[p].file)

\* The key of a withdrawal about to be written is still free.
WithdrawingFresh ==
    \A p \in Procs : proc[p].pc = "withdrawing" => withdrawals[proc[p].key] = NoFile

\* An approval about to be written is for a draft that is as it was checked.
ApprovingGrounded ==
    \A p \in Procs : proc[p].pc = "approving" =>
      /\ proc[p].period \in DOMAIN periods
      /\ periods[proc[p].period].status = "draft"
      /\ periods[proc[p].period].registration = registration
      /\ dual => periods[proc[p].period].preparer \in Admins \ {proc[p].admin}

\* The inductive invariant behind the theorems of this module.
IInv == /\ TypeOK
        /\ RowHeld
        /\ EvidenceNamed
        /\ DraftEvidenceCurrent
        /\ CurrentEvidenceDisjoint
        /\ SavingCurrent
        /\ DeliveringDisjoint
        /\ WithdrawingFresh
        /\ ApprovingGrounded

-----------------------------------------------------------------------------
(* Types.                                                                  *)

\* What a process at each step is known to have read.
LEMMA ProcShapes ==
    ASSUME NEW r \in ProcStates
    PROVE  /\ r.pc \in {"submitting", "delivering"} =>
                r.file \in Files /\ r.verdict \in {"accepted", "refused", "rejected"}
           /\ r.pc = "withdrawing" => r.file \in Files /\ r.key \in Keys
           /\ r.pc \in {"evidence", "frames", "compare", "ready", "saving"} =>
                r.draft \in Period
           /\ r.pc = "approving" =>
                r.period \in Nat /\ r.admin \in Admins /\ r.first \in Nat
  BY DEF ProcStates, Idle

\* The states a process moves to are process states.
LEMMA Shapes ==
    /\ Idle \in ProcStates
    /\ \A f \in Files, v \in {"accepted", "refused", "rejected"} :
         /\ [pc |-> "submitting", file |-> f, verdict |-> v] \in ProcStates
         /\ [pc |-> "delivering", file |-> f, verdict |-> v] \in ProcStates
    /\ \A f \in Files, k \in Keys :
         [pc |-> "withdrawing", file |-> f, key |-> k] \in ProcStates
    /\ \A s \in {"evidence", "frames", "compare", "ready", "saving"}, q \in Period :
         [pc |-> s, draft |-> q] \in ProcStates
    /\ \A i \in Nat, a \in Admins, n \in Nat :
         [pc |-> "approving", period |-> i, admin |-> a, first |-> n] \in ProcStates
  BY DEF ProcStates, Idle

\* Rechecking a delivery keeps the file and makes it hold the row.
LEMMA RecheckShape ==
    ASSUME NEW r \in ProcStates, r.pc = "submitting"
    PROVE  /\ Recheck(r) \in ProcStates
           /\ Recheck(r).pc = "delivering"
           /\ Recheck(r).file = r.file
           /\ Recheck(r).verdict = "accepted" => ~Overlapped(r.file)
  <1>1. r \in [pc : {"submitting", "delivering"}, file : Files,
               verdict : {"accepted", "refused", "rejected"}]
    BY DEF ProcStates, Idle
  <1>2. CASE r.verdict = "accepted" /\ Overlapped(r.file)
    <2>1. Recheck(r) = [r EXCEPT !.verdict = "rejected", !.pc = "delivering"]
      BY <1>2 DEF Recheck
    <2> QED BY <1>1, <1>2, <2>1 DEF ProcStates
  <1>3. CASE ~(r.verdict = "accepted" /\ Overlapped(r.file))
    <2>1. Recheck(r) = [r EXCEPT !.pc = "delivering"]
      BY <1>3 DEF Recheck
    <2> QED BY <1>1, <1>3, <2>1 DEF ProcStates
  <1> QED BY <1>2, <1>3

\* Invalidation touches the status of drafts on the withdrawn delivery only.
LEMMA InvalidatedShape ==
    ASSUME NEW q \in Period, NEW f
    PROVE  /\ Invalidated(q, f) \in Period
           /\ Invalidated(q, f).evidence = q.evidence
           /\ Invalidated(q, f).registration = q.registration
           /\ Invalidated(q, f).preparer = q.preparer
           /\ Invalidated(q, f).status = "draft" =>
                q.status = "draft" /\ q.evidence # f
           /\ q.status = "issued" => Invalidated(q, f) = q
  BY DEF Invalidated, Period

\* What a withdrawal leaves is a sequence of periods.
LEMMA InvalidatedRows ==
    ASSUME NEW q \in Seq(Period), NEW f
    PROVE  [i \in DOMAIN q |-> Invalidated(q[i], f)] \in Seq(Period)
  <1>1. \A i \in DOMAIN q : Invalidated(q[i], f) \in Period
    BY InvalidatedShape
  <1> QED BY <1>1

\* Every step preserves the types.
LEMMA TypeStep ==
    ASSUME IInv, [Next]_vars
    PROVE  TypeOK'
  <1> TypeOK /\ ApprovingGrounded
    BY DEF IInv
  <1> USE DEF TypeOK
  <1>1. ASSUME NEW p \in Procs, NEW f \in Files, Submit(p, f) PROVE TypeOK'
    <2>1. proc' \in [Procs -> ProcStates]
      BY <1>1, Shapes DEF Submit, Goto
    <2> QED BY <1>1, <2>1 DEF Submit, evidence, world
  <1>2. ASSUME NEW p \in Procs, BeginDeliver(p) PROVE TypeOK'
    <2>1. proc' \in [Procs -> ProcStates]
      BY <1>2, RecheckShape DEF BeginDeliver, Goto
    <2> QED BY <1>2, <2>1 DEF BeginDeliver, Lock, evidence, world
  <1>3. ASSUME NEW p \in Procs, CommitDeliver(p) PROVE TypeOK'
    <2>1. /\ proc[p].file \in Files
          /\ proc[p].verdict \in {"accepted", "refused", "rejected"}
      BY <1>3, ProcShapes DEF CommitDeliver
    <2>2. proc' \in [Procs -> ProcStates]
      BY <1>3, Shapes DEF CommitDeliver, Goto
    <2>3. ledger' \in [Files -> {"none", "accepted", "rejected"}]
      BY <1>3, <2>1 DEF CommitDeliver
    <2>4. refused' \subseteq Files /\ outbox' \subseteq {"received", "refused", "withdrawn"} \X Files
      BY <1>3, <2>1 DEF CommitDeliver
    <2> QED BY <1>3, <2>2, <2>3, <2>4 DEF CommitDeliver, Unlock, world
  <1>4. ASSUME NEW p \in Procs, NEW f \in Files, NEW k \in Keys, BeginWithdraw(p, f, k)
        PROVE TypeOK'
    <2>1. proc' \in [Procs -> ProcStates]
      BY <1>4, Shapes DEF BeginWithdraw, Goto
    <2> QED BY <1>4, <2>1 DEF BeginWithdraw, Lock, evidence, world
  <1>5. ASSUME NEW p \in Procs, CommitWithdraw(p) PROVE TypeOK'
    <2>1. proc[p].file \in Files /\ proc[p].key \in Keys
      BY <1>5, ProcShapes DEF CommitWithdraw
    <2>2. proc' \in [Procs -> ProcStates]
      BY <1>5, Shapes DEF CommitWithdraw, Goto
    <2>3. periods' \in Seq(Period)
      <3>1. periods \in Seq(Period)
        OBVIOUS
      <3>2. periods' = [i \in DOMAIN periods |-> Invalidated(periods[i], proc[p].file)]
        BY <1>5 DEF CommitWithdraw
      <3> QED BY <3>1, <3>2, InvalidatedRows
    <2>4. withdrawals' \in [Keys -> Files \cup {NoFile}]
      BY <1>5, <2>1 DEF CommitWithdraw
    <2>5. outbox' \subseteq {"received", "refused", "withdrawn"} \X Files
      BY <1>5, <2>1 DEF CommitWithdraw
    <2> QED BY <1>5, <2>2, <2>3, <2>4, <2>5 DEF CommitWithdraw, Unlock, world
  <1>6. ASSUME NEW p \in Procs, NEW w \in Months, StartRun(p, w) PROVE TypeOK'
    <2>1. [window |-> w, evidence |-> NoFile, inputs |-> inputs, registration |-> 0,
           preparer |-> Nobody, status |-> "draft"] \in Period
      BY DEF Period
    <2>2. proc' \in [Procs -> ProcStates]
      BY <1>6, <2>1, Shapes DEF StartRun, Run, Goto
    <2> QED BY <1>6, <2>2 DEF StartRun, evidence, world
  <1>7. ASSUME NEW p \in Procs, ReadEvidence(p) PROVE TypeOK'
    <2>1. proc[p].draft \in Period
      BY <1>7, ProcShapes DEF ReadEvidence
    <2>2. \A f \in Files : [proc[p].draft EXCEPT !.evidence = f] \in Period
      BY <2>1 DEF Period
    <2>3. PICK f \in Files : Run(p, "frames", [proc[p].draft EXCEPT !.evidence = f])
      BY <1>7 DEF ReadEvidence
    <2>4. [pc |-> "frames", draft |-> [proc[p].draft EXCEPT !.evidence = f]] \in ProcStates
      BY <2>2, Shapes
    <2>5. proc' \in [Procs -> ProcStates]
      BY <2>3, <2>4 DEF Run, Goto
    <2> QED BY <1>7, <2>5 DEF ReadEvidence, evidence, world
  <1>8. ASSUME NEW p \in Procs, LoadFrames(p) PROVE TypeOK'
    <2>1. proc[p].draft \in Period
      BY <1>8, ProcShapes DEF LoadFrames
    <2>2. [proc[p].draft EXCEPT !.registration = registration] \in Period
      BY <2>1 DEF Period
    <2>3. proc' \in [Procs -> ProcStates]
      BY <1>8, <2>2, Shapes DEF LoadFrames, Run, Goto
    <2> QED BY <1>8, <2>3 DEF LoadFrames, evidence, world
  <1>9. ASSUME NEW p \in Procs, Compare(p) PROVE TypeOK'
    <2>1. proc[p].draft \in Period
      BY <1>9, ProcShapes DEF Compare
    <2>2. proc' \in [Procs -> ProcStates]
      BY <1>9, <2>1, Shapes DEF Compare, Run, Goto
    <2> QED BY <1>9, <2>2 DEF Compare, evidence, world
  <1>10. ASSUME NEW p \in Procs, BeginSave(p) PROVE TypeOK'
    <2>1. proc[p].draft \in Period
      BY <1>10, ProcShapes DEF BeginSave
    <2>2. [proc[p].draft EXCEPT !.status = StatusOf(proc[p].draft)] \in Period
      BY <2>1 DEF Period, StatusOf
    <2>3. proc' \in [Procs -> ProcStates]
      BY <1>10, <2>2, Shapes DEF BeginSave, Run, Goto
    <2> QED BY <1>10, <2>3 DEF BeginSave, Lock, evidence, world
  <1>11. ASSUME NEW p \in Procs, CommitSave(p) PROVE TypeOK'
    <2>1. proc[p].draft \in Period
      BY <1>11, ProcShapes DEF CommitSave
    <2>2. proc' \in [Procs -> ProcStates]
      BY <1>11, Shapes DEF CommitSave, Goto
    <2>3. periods' \in Seq(Period)
      BY <1>11, <2>1 DEF CommitSave
    <2> QED BY <1>11, <2>2, <2>3 DEF CommitSave, Unlock, evidence, world
  <1>12. ASSUME NEW p \in Procs, NEW a \in Admins, NEW i \in DOMAIN periods,
                BeginApprove(p, a, i)
         PROVE TypeOK'
    <2>1. \A s : NextSequence(s) \subseteq Nat
      BY DEF NextSequence, FoundNumbers
    <2>2. PICK n \in NextSequence(Prefix[periods[i].inputs]) :
            Goto(p, [pc |-> "approving", period |-> i, admin |-> a, first |-> n])
      BY <1>12 DEF BeginApprove
    <2>3. [pc |-> "approving", period |-> i, admin |-> a, first |-> n] \in ProcStates
      <3>1. n \in Nat /\ i \in Nat
        BY <2>1
      <3> QED BY <3>1, Shapes
    <2>4. proc' \in [Procs -> ProcStates]
      BY <2>2, <2>3 DEF Goto
    <2> QED BY <1>12, <2>4 DEF BeginApprove, Lock, evidence, world
  <1>13. ASSUME NEW p \in Procs, CommitApprove(p) PROVE TypeOK'
    <2> DEFINE i == proc[p].period
    <2>1. i \in Nat /\ proc[p].first \in Nat /\ i \in DOMAIN periods
      BY <1>13, ProcShapes DEF CommitApprove, ApprovingGrounded
    <2>2. proc' \in [Procs -> ProcStates]
      BY <1>13, Shapes DEF CommitApprove, Goto
    <2>3. periods[i] \in Period
      BY <2>1
    <2>6. [periods[i] EXCEPT !.status = "issued"] \in Period
      BY <2>3 DEF Period
    <2>4. periods' \in Seq(Period)
      BY <1>13, <2>1, <2>6 DEF CommitApprove
    <2>5. invoices' \subseteq [period : Nat, series : Series, number : Nat]
      <3>1. Prefix[periods[i].inputs] \in Series
        BY <2>3 DEF Period, Series
      <3>2. \A n \in proc[p].first .. proc[p].first + Billed - 1 : n \in Nat
        BY <2>1, BillingAssumption DEF BillingAssumption
      <3>3. NewInvoices(i, Prefix[periods[i].inputs], proc[p].first)
              \subseteq [period : Nat, series : Series, number : Nat]
        BY <2>1, <3>1, <3>2 DEF NewInvoices
      <3> QED BY <1>13, <3>3 DEF CommitApprove
    <2> QED BY <1>13, <2>2, <2>4, <2>5 DEF CommitApprove, Unlock, evidence, world
  <1>14. ASSUME NEW a \in Admins, NEW i \in DOMAIN periods,
                record_billing_period_preparer(a, i)
         PROVE TypeOK'
    <2>1. periods[i] \in Period
      OBVIOUS
    <2>2. [periods[i] EXCEPT !.preparer = a] \in Period
      BY <2>1 DEF Period
    <2> QED BY <1>14, <2>2 DEF record_billing_period_preparer, evidence, world
  <1>15. CASE ChangeInputs
    <2>1. inputs' \in 0 .. MaxInputs
      BY <1>15, BillingAssumption DEF ChangeInputs, BillingAssumption
    <2> QED BY <1>15, <2>1 DEF ChangeInputs, evidence
  <1>16. CASE Reregister
    BY <1>16 DEF Reregister, evidence
  <1>17. CASE set_community_dual_control
    BY <1>17 DEF set_community_dual_control, evidence
  <1>18. ASSUME NEW p \in Procs, Abort(p) PROVE TypeOK'
    <2>1. proc' \in [Procs -> ProcStates]
      BY <1>18, Shapes DEF Abort, Goto
    <2> QED BY <1>18, <2>1 DEF Abort, evidence, world
  <1>19. CASE UNCHANGED vars
    BY <1>19 DEF vars
  <1> QED
    BY <1>1, <1>2, <1>3, <1>4, <1>5, <1>6, <1>7, <1>8, <1>9, <1>10, <1>11, <1>12,
       <1>13, <1>14, <1>15, <1>16, <1>17, <1>18, <1>19
    DEF Next, DeliveryStep, RunStep, ApprovalStep, WorldStep

-----------------------------------------------------------------------------
(* The community row.                                                      *)

\* Whoever decides holds the row, and nobody else does.
LEMMA RowHeldStep ==
    ASSUME IInv, [Next]_vars
    PROVE  RowHeld'
  <1> /\ proc \in [Procs -> ProcStates]
      /\ RowHeld
      /\ Nobody \notin Procs
    BY BillingAssumption DEF IInv, TypeOK, BillingAssumption
  <1> USE DEF RowHeld, Holding, Idle, Goto, Lock, Unlock
  <1>1. ASSUME NEW p \in Procs, NEW f \in Files, Submit(p, f) PROVE RowHeld'
    BY <1>1 DEF Submit
  <1>2. ASSUME NEW p \in Procs, BeginDeliver(p) PROVE RowHeld'
    BY <1>2 DEF BeginDeliver
  <1>3. ASSUME NEW p \in Procs, CommitDeliver(p) PROVE RowHeld'
    BY <1>3 DEF CommitDeliver
  <1>4. ASSUME NEW p \in Procs, NEW f \in Files, NEW k \in Keys, BeginWithdraw(p, f, k)
        PROVE RowHeld'
    BY <1>4 DEF BeginWithdraw
  <1>5. ASSUME NEW p \in Procs, CommitWithdraw(p) PROVE RowHeld'
    BY <1>5 DEF CommitWithdraw
  <1>6. ASSUME NEW p \in Procs, NEW w \in Months, StartRun(p, w) PROVE RowHeld'
    BY <1>6 DEF StartRun, Run
  <1>7. ASSUME NEW p \in Procs, ReadEvidence(p) PROVE RowHeld'
    BY <1>7 DEF ReadEvidence, Run
  <1>8. ASSUME NEW p \in Procs, LoadFrames(p) PROVE RowHeld'
    BY <1>8 DEF LoadFrames, Run
  <1>9. ASSUME NEW p \in Procs, Compare(p) PROVE RowHeld'
    BY <1>9 DEF Compare, Run
  <1>10. ASSUME NEW p \in Procs, BeginSave(p) PROVE RowHeld'
    BY <1>10 DEF BeginSave, Run
  <1>11. ASSUME NEW p \in Procs, CommitSave(p) PROVE RowHeld'
    BY <1>11 DEF CommitSave
  <1>12. ASSUME NEW p \in Procs, NEW a \in Admins, NEW i \in DOMAIN periods,
                BeginApprove(p, a, i)
         PROVE RowHeld'
    BY <1>12 DEF BeginApprove
  <1>13. ASSUME NEW p \in Procs, CommitApprove(p) PROVE RowHeld'
    BY <1>13 DEF CommitApprove
  <1>14. ASSUME NEW a \in Admins, NEW i \in DOMAIN periods,
                record_billing_period_preparer(a, i)
         PROVE RowHeld'
    BY <1>14 DEF record_billing_period_preparer
  <1>15. CASE ChangeInputs
    BY <1>15 DEF ChangeInputs
  <1>16. CASE Reregister
    BY <1>16 DEF Reregister
  <1>17. CASE set_community_dual_control
    BY <1>17 DEF set_community_dual_control
  <1>18. ASSUME NEW p \in Procs, Abort(p) PROVE RowHeld'
    BY <1>18 DEF Abort
  <1>19. CASE UNCHANGED vars
    BY <1>19 DEF vars
  <1> QED
    BY <1>1, <1>2, <1>3, <1>4, <1>5, <1>6, <1>7, <1>8, <1>9, <1>10, <1>11, <1>12,
       <1>13, <1>14, <1>15, <1>16, <1>17, <1>18, <1>19
    DEF Next, DeliveryStep, RunStep, ApprovalStep, WorldStep

\* Only five kinds of step write the evidence or the periods.
LEMMA Writers ==
    ASSUME [Next]_vars
    PROVE  \/ \E p \in Procs : CommitDeliver(p) \/ CommitWithdraw(p)
                              \/ CommitSave(p) \/ CommitApprove(p)
           \/ \E a \in Admins, i \in DOMAIN periods :
                record_billing_period_preparer(a, i)
           \/ UNCHANGED <<ledger, withdrawals, periods>>
  BY DEF Next, DeliveryStep, RunStep, ApprovalStep, WorldStep, vars, evidence, Submit,
         BeginDeliver, BeginWithdraw, StartRun, ReadEvidence, LoadFrames, Compare,
         BeginSave, BeginApprove, ChangeInputs, Reregister,
         set_community_dual_control, Abort

\* What a transaction holding the row has decided stays true until it commits:
\* the evidence does not move, nor does the dual-control setting, and a period
\* it approves keeps its preparer.
LEMMA HolderStable ==
    ASSUME IInv, [Next]_vars, NEW q \in Procs, proc[q].pc \in Holding,
           proc'[q].pc \in Holding
    PROVE  /\ proc'[q] = proc[q]
           /\ UNCHANGED <<ledger, withdrawals, dual>>
           /\ proc[q].pc = "approving" => UNCHANGED registration
           /\ \/ UNCHANGED periods
              \/ \E a \in Admins, i \in DOMAIN periods :
                   record_billing_period_preparer(a, i)
  <1> /\ proc \in [Procs -> ProcStates]
      /\ \A p \in Procs : proc[p].pc \in Holding => owner = p
      /\ owner = q
      /\ Nobody \notin Procs
    BY BillingAssumption DEF IInv, TypeOK, RowHeld, BillingAssumption
  <1> USE DEF Holding, Idle, Goto
  <1>1. ASSUME NEW p \in Procs,
               \/ BeginDeliver(p)
               \/ \E f \in Files, k \in Keys : BeginWithdraw(p, f, k)
               \/ BeginSave(p)
               \/ \E a \in Admins, i \in DOMAIN periods : BeginApprove(p, a, i)
        PROVE FALSE
    BY <1>1 DEF BeginDeliver, BeginWithdraw, BeginSave, BeginApprove, Lock
  <1>2. ASSUME NEW p \in Procs,
               \/ CommitDeliver(p) \/ CommitWithdraw(p)
               \/ CommitSave(p) \/ CommitApprove(p)
        PROVE FALSE
    <2>1. p = q
      BY <1>2 DEF CommitDeliver, CommitWithdraw, CommitSave, CommitApprove, Unlock
    <2>2. proc'[q] = Idle
      BY <1>2, <2>1 DEF CommitDeliver, CommitWithdraw, CommitSave, CommitApprove
    <2> QED BY <2>2
  <1>3. ASSUME NEW p \in Procs, \E f \in Files : Submit(p, f)
        PROVE /\ proc'[q] = proc[q]
              /\ UNCHANGED <<ledger, withdrawals, dual, registration, periods>>
    BY <1>3 DEF Submit, evidence, world
  <1>4. ASSUME NEW p \in Procs,
               \/ \E w \in Months : StartRun(p, w)
               \/ ReadEvidence(p) \/ LoadFrames(p) \/ Compare(p)
        PROVE /\ proc'[q] = proc[q]
              /\ UNCHANGED <<ledger, withdrawals, dual, registration, periods>>
    BY <1>4 DEF StartRun, ReadEvidence, LoadFrames, Compare, Run, evidence, world
  <1>5. ASSUME NEW p \in Procs, Abort(p)
        PROVE /\ proc'[q] = proc[q]
              /\ UNCHANGED <<ledger, withdrawals, dual, registration, periods>>
    BY <1>5 DEF Abort, evidence, world
  <1>6. ASSUME NEW a \in Admins, NEW i \in DOMAIN periods,
               record_billing_period_preparer(a, i)
        PROVE UNCHANGED <<proc, ledger, withdrawals, dual, registration>>
    BY <1>6 DEF record_billing_period_preparer, evidence, world
  <1>7. CASE ChangeInputs
    BY <1>7 DEF ChangeInputs, evidence
  <1>8. CASE Reregister
    BY <1>8 DEF Reregister, evidence
  <1>9. CASE set_community_dual_control
    BY <1>9 DEF set_community_dual_control
  <1>10. CASE UNCHANGED vars
    BY <1>10 DEF vars
  <1> QED
    BY <1>1, <1>2, <1>3, <1>4, <1>5, <1>6, <1>7, <1>8, <1>9, <1>10
    DEF Next, DeliveryStep, RunStep, ApprovalStep, WorldStep

\* Taking the row is one of four first steps.
LEMMA Takes ==
    ASSUME IInv, [Next]_vars, NEW q \in Procs, proc[q].pc \notin Holding,
           proc'[q].pc \in Holding
    PROVE  \/ BeginDeliver(q)
           \/ \E f \in Files, k \in Keys : BeginWithdraw(q, f, k)
           \/ BeginSave(q)
           \/ \E a \in Admins, i \in DOMAIN periods : BeginApprove(q, a, i)
  <1> proc \in [Procs -> ProcStates]
    BY DEF IInv, TypeOK
  <1> USE DEF Holding, Idle, Goto
  <1>1. ASSUME NEW p \in Procs, p # q,
               DeliveryStep(p) \/ RunStep(p) \/ ApprovalStep(p) \/ Abort(p)
        PROVE FALSE
    <2>1. proc'[q] = proc[q]
      BY <1>1 DEF DeliveryStep, RunStep, ApprovalStep, Submit, BeginDeliver,
         CommitDeliver, BeginWithdraw, CommitWithdraw, StartRun, ReadEvidence,
         LoadFrames, Compare, BeginSave, CommitSave, BeginApprove, CommitApprove,
         Abort, Run
    <2> QED BY <2>1
  <1>2. ASSUME \/ \E f \in Files : Submit(q, f)
               \/ CommitDeliver(q) \/ CommitWithdraw(q)
               \/ \E w \in Months : StartRun(q, w)
               \/ ReadEvidence(q) \/ LoadFrames(q) \/ Compare(q)
               \/ CommitSave(q) \/ CommitApprove(q) \/ Abort(q)
        PROVE FALSE
    <2>1. CASE (\E f \in Files : Submit(q, f)) \/ CommitDeliver(q) \/ CommitWithdraw(q) \/ Abort(q)
      BY <2>1 DEF Submit, CommitDeliver, CommitWithdraw, Abort, Run
    <2>2. CASE (\E w \in Months : StartRun(q, w)) \/ ReadEvidence(q) \/ LoadFrames(q)
      BY <2>2 DEF StartRun, ReadEvidence, LoadFrames, Run
    <2>3. CASE Compare(q) \/ CommitSave(q) \/ CommitApprove(q)
      BY <2>3 DEF Compare, CommitSave, CommitApprove, Run
    <2> QED BY <1>2, <2>1, <2>2, <2>3
  <1>3. ASSUME WorldStep \/ UNCHANGED vars PROVE FALSE
    BY <1>3 DEF WorldStep, record_billing_period_preparer, ChangeInputs, Reregister,
       set_community_dual_control, vars
  <1> QED
    BY <1>1, <1>2, <1>3 DEF Next, DeliveryStep, RunStep, ApprovalStep

-----------------------------------------------------------------------------
(* What a transaction relies on until it commits.                          *)

\* Saving a draft names the evidence that is current.
LEMMA SavingCurrentStep ==
    ASSUME IInv, [Next]_vars
    PROVE  SavingCurrent'
  <1> SUFFICES ASSUME NEW q \in Procs, proc'[q].pc = "saving",
                      proc'[q].draft.status = "draft"
               PROVE  Current(proc[q].draft.evidence)'
    BY DEF SavingCurrent
  <1>1. CASE proc[q].pc \in Holding
    <2>1. proc'[q] = proc[q] /\ UNCHANGED <<ledger, withdrawals>>
      BY <1>1, HolderStable DEF Holding
    <2> QED BY <2>1 DEF IInv, SavingCurrent, Current, Withdrawn
  <1>2. CASE proc[q].pc \notin Holding
    <2>1. BeginSave(q)
      BY <1>2, Takes, RecheckShape
      DEF Holding, IInv, TypeOK, BeginDeliver, BeginWithdraw, BeginApprove, Goto
    <2>2. proc[q].draft \in Period
      BY <2>1, ProcShapes DEF IInv, TypeOK, BeginSave
    <2>3. proc'[q].draft = [proc[q].draft EXCEPT !.status = StatusOf(proc[q].draft)]
      BY <2>1 DEF BeginSave, Run, Goto, IInv, TypeOK
    <2>4. /\ proc'[q].draft.evidence = proc[q].draft.evidence
          /\ StatusOf(proc[q].draft) = "draft"
      BY <2>2, <2>3 DEF Period
    <2>5. Current(proc[q].draft.evidence)
      BY <2>4 DEF StatusOf
    <2> QED BY <2>1, <2>4, <2>5 DEF BeginSave, evidence, Current, Withdrawn
  <1> QED BY <1>1, <1>2

\* A file accepted for delivery overlaps no current delivery until it commits.
LEMMA DeliveringDisjointStep ==
    ASSUME IInv, [Next]_vars
    PROVE  DeliveringDisjoint'
  <1> SUFFICES ASSUME NEW q \in Procs, proc'[q].pc = "delivering",
                      proc'[q].verdict = "accepted"
               PROVE  ~Overlapped(proc[q].file)'
    BY DEF DeliveringDisjoint
  <1>1. CASE proc[q].pc \in Holding
    <2>1. proc'[q] = proc[q] /\ UNCHANGED <<ledger, withdrawals>>
      BY <1>1, HolderStable DEF Holding
    <2> QED BY <2>1 DEF IInv, DeliveringDisjoint, Overlapped, Current, Withdrawn
  <1>2. CASE proc[q].pc \notin Holding
    <2>1. BeginDeliver(q)
      BY <1>2, Takes
      DEF Holding, IInv, TypeOK, BeginSave, BeginWithdraw, BeginApprove, Run, Goto
    <2>2. /\ proc'[q] = Recheck(proc[q])
          /\ proc[q] \in ProcStates
          /\ proc[q].pc = "submitting"
          /\ UNCHANGED <<ledger, withdrawals>>
      BY <2>1 DEF BeginDeliver, Goto, IInv, TypeOK, evidence
    <2>3. proc'[q].file = proc[q].file /\ ~Overlapped(proc[q].file)
      BY <2>2, RecheckShape
    <2> QED BY <2>2, <2>3 DEF Overlapped, Current, Withdrawn
  <1> QED BY <1>1, <1>2

\* While a withdrawal waits for its commit, its key stays unused.
LEMMA WithdrawingFreshStep ==
    ASSUME IInv, [Next]_vars
    PROVE  WithdrawingFresh'
  <1> SUFFICES ASSUME NEW q \in Procs, proc'[q].pc = "withdrawing"
               PROVE  withdrawals'[proc'[q].key] = NoFile
    BY DEF WithdrawingFresh
  <1>1. CASE proc[q].pc \in Holding
    <2>1. proc'[q] = proc[q] /\ UNCHANGED <<ledger, withdrawals>>
      BY <1>1, HolderStable DEF Holding
    <2> QED BY <2>1 DEF IInv, WithdrawingFresh
  <1>2. CASE proc[q].pc \notin Holding
    <2>1. PICK f \in Files, k \in Keys : BeginWithdraw(q, f, k)
      BY <1>2, Takes, RecheckShape
      DEF Holding, IInv, TypeOK, BeginDeliver, BeginSave, BeginApprove, Run, Goto
    <2> QED BY <2>1 DEF BeginWithdraw, Goto, IInv, TypeOK, evidence
  <1> QED BY <1>1, <1>2

\* Approving finds the evidence of the draft current.
LEMMA ApprovingGroundedStep ==
    ASSUME IInv, [Next]_vars
    PROVE  ApprovingGrounded'
  <1> SUFFICES ASSUME NEW q \in Procs, proc'[q].pc = "approving"
               PROVE  /\ proc'[q].period \in DOMAIN periods'
                      /\ periods'[proc'[q].period].status = "draft"
                      /\ periods'[proc'[q].period].registration = registration'
                      /\ dual' => periods'[proc'[q].period].preparer
                                    \in Admins \ {proc'[q].admin}
    BY DEF ApprovingGrounded
  <1>1. CASE proc[q].pc \in Holding
    <2>1. /\ proc'[q] = proc[q]
          /\ UNCHANGED <<dual, registration>>
          /\ \/ UNCHANGED periods
             \/ \E a \in Admins, i \in DOMAIN periods :
                  record_billing_period_preparer(a, i)
      BY <1>1, HolderStable DEF Holding
    <2>2. ASSUME NEW a \in Admins, NEW i \in DOMAIN periods,
                 record_billing_period_preparer(a, i)
          PROVE  /\ DOMAIN periods' = DOMAIN periods
                 /\ periods'[proc[q].period] = periods[proc[q].period]
      BY <2>1, <2>2 DEF record_billing_period_preparer, PeriodLocked, IInv, TypeOK
    <2> QED BY <2>1, <2>2 DEF IInv, ApprovingGrounded
  <1>2. CASE proc[q].pc \notin Holding
    <2>1. PICK a \in Admins, i \in DOMAIN periods : BeginApprove(q, a, i)
      BY <1>2, Takes, RecheckShape
      DEF Holding, IInv, TypeOK, BeginDeliver, BeginSave, BeginWithdraw, Run, Goto
    <2>2. proc'[q].period = i /\ proc'[q].admin = a
      BY <2>1 DEF BeginApprove, Goto, IInv, TypeOK
    <2>3. /\ UNCHANGED <<periods, registration, dual>>
          /\ periods[i].status = "draft"
          /\ periods[i].registration = registration
          /\ dual => periods[i].preparer \notin {Nobody, a}
      BY <2>1 DEF BeginApprove, world, DualControlled, lock_original_registrations
    <2>4. periods[i] \in Period
      BY DEF IInv, TypeOK
    <2>5. periods[i].preparer \in Admins \cup {Nobody}
      BY <2>4 DEF Period
    <2> QED BY <2>2, <2>3, <2>5
  <1> QED BY <1>1, <1>2

-----------------------------------------------------------------------------
(* The rows.                                                               *)

\* A row is appended by CommitSave, and changed in status or preparer only.
LEMMA RowsKept ==
    ASSUME IInv, [Next]_vars, NEW i \in DOMAIN periods
    PROVE  /\ i \in DOMAIN periods'
           /\ periods'[i].evidence = periods[i].evidence
           /\ periods'[i].status = "draft" =>
                /\ periods[i].status = "draft"
                /\ \A p \in Procs : CommitWithdraw(p) => proc[p].file # periods[i].evidence
           /\ periods[i].status = "issued" => periods'[i] = periods[i]
           /\ Issues(i) => \E p \in Procs : CommitApprove(p) /\ proc[p].period = i
  <1> periods \in Seq(Period) /\ periods[i] \in Period
    BY DEF IInv, TypeOK
  <1>1. ASSUME NEW p \in Procs, CommitWithdraw(p)
        PROVE  /\ DOMAIN periods' = DOMAIN periods
               /\ periods'[i] = Invalidated(periods[i], proc[p].file)
    BY <1>1 DEF CommitWithdraw
  <1>2. ASSUME NEW p \in Procs, CommitWithdraw(p)
        PROVE  /\ periods'[i].evidence = periods[i].evidence
               /\ periods'[i].status = "draft" =>
                    periods[i].status = "draft" /\ periods[i].evidence # proc[p].file
               /\ periods[i].status = "issued" => periods'[i] = periods[i]
               /\ periods'[i].status = "issued" => periods[i].status = "issued"
    BY <1>1, <1>2, InvalidatedShape DEF Invalidated, Period
  <1>3. ASSUME NEW p \in Procs, NEW r \in Procs, CommitWithdraw(p),
               CommitDeliver(r) \/ CommitSave(r) \/ CommitApprove(r)
        PROVE FALSE
    <2>1. p = r
      BY <1>3 DEF CommitWithdraw, CommitDeliver, CommitSave, CommitApprove, Unlock
    <2> QED BY <1>3, <2>1 DEF CommitWithdraw, CommitDeliver, CommitSave, CommitApprove
  <1>4. CASE \E p \in Procs : CommitWithdraw(p)
    <2>1. PICK p \in Procs : CommitWithdraw(p)
      BY <1>4
    <2>2. \A r \in Procs : CommitWithdraw(r) => r = p
      BY <2>1 DEF CommitWithdraw, Unlock
    <2> QED BY <2>1, <2>2, <1>1, <1>2 DEF Issues
  <1>5. CASE ~\E p \in Procs : CommitWithdraw(p)
    <2>1. ASSUME NEW p \in Procs, CommitSave(p)
          PROVE  i \in DOMAIN periods' /\ periods'[i] = periods[i]
      BY <2>1 DEF CommitSave
    <2>2. ASSUME NEW p \in Procs, CommitDeliver(p)
          PROVE  UNCHANGED periods
      BY <2>2 DEF CommitDeliver
    <2>3. ASSUME NEW p \in Procs, CommitApprove(p)
          PROVE  /\ DOMAIN periods' = DOMAIN periods
                 /\ i # proc[p].period => periods'[i] = periods[i]
                 /\ i = proc[p].period =>
                      /\ periods[i].status = "draft"
                      /\ \/ periods'[i] = periods[i]
                         \/ periods'[i] = [periods[i] EXCEPT !.status = "issued"]
      BY <2>3 DEF CommitApprove, IInv, ApprovingGrounded
    <2>4. ASSUME NEW p \in Procs, CommitApprove(p)
          PROVE  /\ i \in DOMAIN periods'
                 /\ periods'[i].evidence = periods[i].evidence
                 /\ periods'[i].status = "draft" => periods[i].status = "draft"
                 /\ periods[i].status = "issued" => periods'[i] = periods[i]
                 /\ Issues(i) => proc[p].period = i
      BY <2>3, <2>4 DEF Period, Issues
    <2>5. ASSUME NEW a \in Admins, NEW j \in DOMAIN periods,
                 record_billing_period_preparer(a, j)
          PROVE  /\ i \in DOMAIN periods'
                 /\ periods'[i].evidence = periods[i].evidence
                 /\ periods'[i].status = periods[i].status
                 /\ periods[i].status = "issued" => periods'[i] = periods[i]
      BY <2>5 DEF record_billing_period_preparer, Period
    <2> QED BY <1>5, <2>1, <2>2, <2>4, <2>5, Writers DEF Issues
  <1> QED BY <1>4, <1>5

\* Evidence stops counting only when its withdrawal commits.
LEMMA CurrentKept ==
    ASSUME IInv, [Next]_vars, NEW f \in Files, Current(f)
    PROVE  Current(f)' \/ \E p \in Procs : CommitWithdraw(p) /\ proc[p].file = f
  <1>1. ASSUME NEW p \in Procs, CommitDeliver(p) PROVE Current(f)'
    BY <1>1 DEF CommitDeliver, Current, Withdrawn, IInv, TypeOK
  <1>2. ASSUME NEW p \in Procs, CommitWithdraw(p), proc[p].file # f PROVE Current(f)'
    BY <1>2 DEF CommitWithdraw, Current, Withdrawn, IInv, TypeOK
  <1>3. ASSUME NEW p \in Procs, CommitSave(p) \/ CommitApprove(p) PROVE Current(f)'
    BY <1>3 DEF CommitSave, CommitApprove, evidence, Current, Withdrawn
  <1>4. ASSUME NEW a \in Admins, NEW i \in DOMAIN periods,
               record_billing_period_preparer(a, i)
        PROVE Current(f)'
    BY <1>4 DEF record_billing_period_preparer, evidence, Current, Withdrawn
  <1>5. CASE UNCHANGED <<ledger, withdrawals, periods>>
    BY <1>5 DEF Current, Withdrawn
  <1> QED BY <1>1, <1>2, <1>3, <1>4, <1>5, Writers

\* Evidence starts counting only when a delivery accepted under the row commits:
\* withdrawing never brings another delivery back, its key being fresh.
LEMMA CurrentGained ==
    ASSUME IInv, [Next]_vars, NEW f \in Files, ~Current(f), Current(f)'
    PROVE  \E p \in Procs : /\ CommitDeliver(p)
                            /\ proc[p].file = f
                            /\ proc[p].verdict = "accepted"
  <1>1. ASSUME NEW p \in Procs, CommitDeliver(p)
        PROVE  proc[p].file = f /\ proc[p].verdict = "accepted"
    BY <1>1 DEF CommitDeliver, Current, Withdrawn, IInv, TypeOK
  <1>2. ASSUME NEW p \in Procs, CommitWithdraw(p) PROVE FALSE
    <2>1. withdrawals[proc[p].key] = NoFile /\ NoFile \notin Files
      BY <1>2, BillingAssumption
      DEF CommitWithdraw, IInv, WithdrawingFresh, BillingAssumption
    <2>2. \A k \in Keys : withdrawals[k] = f => withdrawals'[k] = f
      BY <1>2, <2>1 DEF CommitWithdraw, IInv, TypeOK
    <2> QED BY <1>2, <2>2 DEF CommitWithdraw, Current, Withdrawn
  <1>3. ASSUME NEW p \in Procs, CommitSave(p) \/ CommitApprove(p) PROVE FALSE
    BY <1>3 DEF CommitSave, CommitApprove, evidence, Current, Withdrawn
  <1>4. ASSUME NEW a \in Admins, NEW i \in DOMAIN periods,
               record_billing_period_preparer(a, i)
        PROVE FALSE
    BY <1>4 DEF record_billing_period_preparer, evidence, Current, Withdrawn
  <1>5. CASE UNCHANGED <<ledger, withdrawals, periods>>
    BY <1>5 DEF Current, Withdrawn
  <1> QED BY <1>1, <1>2, <1>3, <1>4, <1>5, Writers

\* A new row is the draft of the run that inserts it.
LEMMA NewRow ==
    ASSUME IInv, [Next]_vars, NEW i \in DOMAIN periods', i \notin DOMAIN periods
    PROVE  \E p \in Procs : /\ proc[p].pc = "saving"
                            /\ periods'[i] = proc[p].draft
                            /\ UNCHANGED <<ledger, withdrawals>>
  <1> periods \in Seq(Period)
    BY DEF IInv, TypeOK
  <1>1. ASSUME NEW p \in Procs, CommitWithdraw(p) PROVE FALSE
    BY <1>1 DEF CommitWithdraw
  <1>2. ASSUME NEW p \in Procs, CommitDeliver(p) PROVE FALSE
    BY <1>2 DEF CommitDeliver
  <1>3. ASSUME NEW p \in Procs, CommitApprove(p) PROVE FALSE
    BY <1>3 DEF CommitApprove
  <1>4. ASSUME NEW p \in Procs, CommitSave(p)
        PROVE  /\ proc[p].pc = "saving"
               /\ periods'[i] = proc[p].draft
               /\ UNCHANGED <<ledger, withdrawals>>
    <2>1. periods' = Append(periods, proc[p].draft)
      BY <1>4 DEF CommitSave
    <2>2. i = Len(periods) + 1
      BY <2>1
    <2> QED BY <1>4, <2>1, <2>2 DEF CommitSave, evidence
  <1>5. ASSUME NEW a \in Admins, NEW j \in DOMAIN periods,
               record_billing_period_preparer(a, j)
        PROVE FALSE
    BY <1>5 DEF record_billing_period_preparer
  <1> QED BY <1>1, <1>2, <1>3, <1>4, <1>5, Writers

\* Every step keeps what the periods name among the deliveries.
LEMMA EvidenceNamedStep ==
    ASSUME IInv, [Next]_vars
    PROVE  EvidenceNamed'
  <1>1. ASSUME NEW i \in DOMAIN periods' PROVE periods'[i].evidence \in Files
    <2>1. CASE i \in DOMAIN periods
      BY <2>1, RowsKept DEF IInv, EvidenceNamed
    <2>2. CASE i \notin DOMAIN periods
      BY <2>2, NewRow DEF IInv, EvidenceNamed
    <2> QED BY <2>1, <2>2
  <1>2. ASSUME NEW q \in Procs,
               proc'[q].pc \in {"frames", "compare", "ready", "saving"}
        PROVE  proc'[q].draft.evidence \in Files
    <2> proc \in [Procs -> ProcStates]
      BY DEF IInv, TypeOK
    <2> /\ proc[q].pc \in {"frames", "compare", "ready", "saving"} =>
             proc[q].draft.evidence \in Files
        /\ proc[q].pc \in {"evidence", "frames", "compare", "ready", "saving"} =>
             proc[q].draft \in Period
      BY ProcShapes DEF IInv, EvidenceNamed
    <2> proc'[q].pc \in {"frames", "compare", "ready", "saving"}
      BY <1>2
    <2> USE DEF Idle, Goto, Run
    <2>1. CASE ReadEvidence(q)
      <3>1. PICK f \in Files : proc'[q] = [pc |-> "frames",
                                 draft |-> [proc[q].draft EXCEPT !.evidence = f]]
        BY <2>1 DEF ReadEvidence
      <3> QED BY <2>1, <3>1 DEF ReadEvidence, Period
    <2>2. CASE LoadFrames(q)
      <3>1. proc'[q].draft = [proc[q].draft EXCEPT !.registration = registration]
        BY <2>2 DEF LoadFrames
      <3> QED BY <2>2, <3>1 DEF LoadFrames, Period
    <2>3. CASE Compare(q)
      BY <2>3 DEF Compare
    <2>4. CASE BeginSave(q)
      <3>1. proc'[q].draft = [proc[q].draft EXCEPT !.status = StatusOf(proc[q].draft)]
        BY <2>4 DEF BeginSave
      <3> QED BY <2>4, <3>1 DEF BeginSave, Period
    <2>5. CASE proc'[q] = proc[q]
      BY <2>5
    <2>6. ASSUME \/ \E f \in Files : Submit(q, f)
                 \/ CommitDeliver(q)
                 \/ \E f \in Files, k \in Keys : BeginWithdraw(q, f, k)
                 \/ CommitWithdraw(q)
                 \/ \E w \in Months : StartRun(q, w)
                 \/ CommitSave(q)
                 \/ \E a \in Admins, i \in DOMAIN periods : BeginApprove(q, a, i)
                 \/ CommitApprove(q) \/ Abort(q)
          PROVE FALSE
      BY <2>6
      DEF Submit, CommitDeliver, BeginWithdraw, CommitWithdraw, StartRun,
          CommitSave, BeginApprove, CommitApprove, Abort
    <2>9. ASSUME BeginDeliver(q) PROVE FALSE
      <3>1. proc[q].pc = "submitting" /\ proc'[q] = Recheck(proc[q])
        BY <2>9 DEF BeginDeliver
      <3> QED BY <3>1, RecheckShape
    <2>7. ASSUME NEW p \in Procs, p # q,
                 DeliveryStep(p) \/ RunStep(p) \/ ApprovalStep(p) \/ Abort(p)
          PROVE proc'[q] = proc[q]
      BY <2>7 DEF DeliveryStep, RunStep, ApprovalStep, Submit, BeginDeliver,
         CommitDeliver, BeginWithdraw, CommitWithdraw, StartRun, ReadEvidence,
         LoadFrames, Compare, BeginSave, CommitSave, BeginApprove, CommitApprove, Abort
    <2>8. ASSUME WorldStep \/ UNCHANGED vars PROVE proc'[q] = proc[q]
      BY <2>8 DEF WorldStep, record_billing_period_preparer, ChangeInputs, Reregister,
         set_community_dual_control, vars
    <2> QED
      BY <2>1, <2>2, <2>3, <2>4, <2>5, <2>6, <2>7, <2>8, <2>9
      DEF Next, DeliveryStep, RunStep, ApprovalStep
  <1> QED BY <1>1, <1>2 DEF EvidenceNamed

\* Every step keeps the evidence of a draft current.
LEMMA DraftEvidenceCurrentStep ==
    ASSUME IInv, [Next]_vars
    PROVE  DraftEvidenceCurrent'
  <1> SUFFICES ASSUME NEW i \in DOMAIN periods', periods'[i].status = "draft"
               PROVE  Current(periods[i].evidence)'
    BY DEF DraftEvidenceCurrent
  <1>1. CASE i \in DOMAIN periods
    <2> DEFINE f == periods[i].evidence
    <2>1. /\ periods'[i].evidence = f
          /\ periods[i].status = "draft"
          /\ \A p \in Procs : CommitWithdraw(p) => proc[p].file # f
      BY <1>1, RowsKept
    <2>2. f \in Files /\ Current(f)
      BY <1>1, <2>1 DEF IInv, EvidenceNamed, DraftEvidenceCurrent
    <2>3. Current(f)'
      BY <2>1, <2>2, CurrentKept
    <2> QED BY <2>1, <2>3 DEF Current, Withdrawn
  <1>2. CASE i \notin DOMAIN periods
    <2>1. PICK p \in Procs : /\ proc[p].pc = "saving"
                             /\ periods'[i] = proc[p].draft
                             /\ UNCHANGED <<ledger, withdrawals>>
      BY <1>2, NewRow
    <2>2. Current(proc[p].draft.evidence)
      BY <2>1 DEF IInv, SavingCurrent
    <2> QED BY <2>1, <2>2 DEF Current, Withdrawn
  <1> QED BY <1>1, <1>2

\* Every step keeps current deliveries disjoint.
LEMMA CurrentEvidenceDisjointStep ==
    ASSUME IInv, [Next]_vars
    PROVE  CurrentEvidenceDisjoint'
  <1> SUFFICES ASSUME NEW f \in Files, NEW g \in Files, f # g,
                      Current(f)', Current(g)', Overlap(f, g)
               PROVE  FALSE
    BY DEF CurrentEvidenceDisjoint, Overlap
  <1>1. CASE Current(f) /\ Current(g)
    BY <1>1 DEF IInv, CurrentEvidenceDisjoint
  <1>2. ASSUME NEW x \in Files, NEW y \in Files, x # y, Overlap(x, y),
               ~Current(x), Current(x)', Current(y)'
        PROVE  FALSE
    <2>1. PICK p \in Procs : /\ CommitDeliver(p)
                             /\ proc[p].file = x
                             /\ proc[p].verdict = "accepted"
      BY <1>2, CurrentGained
    <2>2. ~Overlapped(x)
      BY <2>1 DEF CommitDeliver, IInv, DeliveringDisjoint
    <2>3. Current(y)
      BY <1>2, <2>1 DEF CommitDeliver, Current, Withdrawn, IInv, TypeOK
    <2> QED BY <1>2, <2>2, <2>3 DEF Overlapped
  <1> QED BY <1>1, <1>2 DEF Overlap

-----------------------------------------------------------------------------
(* The theorems.                                                           *)

\* The inductive invariant holds before the first step.
LEMMA IInvInit ==
    ASSUME Init
    PROVE  IInv
  <1>1. /\ periods = <<>>
        /\ \A p \in Procs : proc[p] = Idle /\ proc[p].pc = "idle"
        /\ \A f \in Files : ~Current(f)
    BY DEF Init, Current, Idle
  <1>2. TypeOK
    <2>1. inputs \in 0 .. MaxInputs /\ registration \in Nat
      <3>1. MaxInputs \in Nat
        BY BillingAssumption DEF BillingAssumption
      <3> QED BY <3>1 DEF Init
    <2>4. periods \in Seq(Period)
      BY <1>1
    <2>5. dual \in BOOLEAN
      BY DEF Init
    <2>2. proc \in [Procs -> ProcStates] /\ owner \in Procs \cup {Nobody}
      BY Shapes DEF Init
    <2>3. /\ ledger \in [Files -> {"none", "accepted", "rejected"}]
          /\ withdrawals \in [Keys -> Files \cup {NoFile}]
      BY DEF Init
    <2> QED BY <2>1, <2>2, <2>3, <2>4, <2>5 DEF Init, TypeOK
  <1>3. RowHeld /\ SavingCurrent /\ DeliveringDisjoint /\ WithdrawingFresh /\ ApprovingGrounded
    BY <1>1 DEF RowHeld, Holding, SavingCurrent, DeliveringDisjoint, WithdrawingFresh,
       ApprovingGrounded
  <1>4. EvidenceNamed /\ DraftEvidenceCurrent /\ CurrentEvidenceDisjoint
    BY <1>1 DEF EvidenceNamed, DraftEvidenceCurrent, CurrentEvidenceDisjoint
  <1> QED BY <1>2, <1>3, <1>4 DEF IInv

\* Every step keeps the inductive invariant.
LEMMA IInvStep ==
    ASSUME IInv, [Next]_vars
    PROVE  IInv'
  BY TypeStep, RowHeldStep, EvidenceNamedStep, DraftEvidenceCurrentStep,
     CurrentEvidenceDisjointStep, SavingCurrentStep, DeliveringDisjointStep,
     WithdrawingFreshStep, ApprovingGroundedStep
  DEF IInv

\* The inductive invariant holds in every state.
LEMMA IInvHolds == Spec => []IInv
  BY IInvInit, IInvStep, PTL DEF Spec

\* Every variable keeps its type: what a request has read is there when the
\* step that uses it comes (all handlers of the module).
THEOREM TypeCorrect == Spec => []TypeOK
  <1>1. IInv => TypeOK
    BY DEF IInv
  <1> QED BY <1>1, IInvHolds, PTL

\* However many runs, withdrawals and approvals interleave, no draft outlives
\* its evidence (save_billing_period, withdraw_calculated_values_delivery).
THEOREM DraftEvidenceCurrentHolds == Spec => []DraftEvidenceCurrent
  <1>1. IInv => DraftEvidenceCurrent
    BY DEF IInv
  <1> QED BY <1>1, IInvHolds, PTL

\* Deliveries validated at the same time never count for billing together when
\* they overlap (save_calculated_values_delivery).
THEOREM CurrentEvidenceDisjointHolds == Spec => []CurrentEvidenceDisjoint
  <1>1. IInv => CurrentEvidenceDisjoint
    BY DEF IInv
  <1> QED BY <1>1, IInvHolds, PTL

\* Nothing is issued from withdrawn evidence or to a household that changed
\* (approve_billing_period).
THEOREM IssueIsGroundedHolds == Spec => IssueIsGrounded
  <1> DEFINE Grounded == \A i \in DOMAIN periods :
                 Issues(i) => /\ Current(periods[i].evidence)
                              /\ periods[i].registration = registration
  <1>1. ASSUME IInv, [Next]_vars PROVE Grounded
    <2> SUFFICES ASSUME NEW i \in DOMAIN periods, Issues(i)
                 PROVE  /\ Current(periods[i].evidence)
                        /\ periods[i].registration = registration
      OBVIOUS
    <2>1. PICK p \in Procs : CommitApprove(p) /\ proc[p].period = i
      BY <1>1, RowsKept
    <2>2. periods[i].status = "draft" /\ periods[i].registration = registration
      BY <1>1, <2>1 DEF IInv, ApprovingGrounded, CommitApprove
    <2> QED BY <1>1, <2>2 DEF IInv, DraftEvidenceCurrent
  <1>2. IInv /\ [Next]_vars => [Grounded]_vars
    BY <1>1
  <1> QED BY <1>2, IInvHolds, PTL DEF Spec, IssueIsGrounded

\* Dual control holds at the moment of issue, not only when it was checked
\* (approve_billing_period, record_billing_period_preparer).
THEOREM IssueIsDualControlledHolds == Spec => IssueIsDualControlled
  <1> DEFINE Controlled == \A p \in Procs :
                 proc[p].pc = "approving" /\ Issues(proc[p].period) /\ dual
                   => periods[proc[p].period].preparer \in Admins \ {proc[p].admin}
  <1>1. IInv /\ [Next]_vars => [Controlled]_vars
    BY DEF IInv, ApprovingGrounded
  <1> QED BY <1>1, IInvHolds, PTL DEF Spec, IssueIsDualControlled

\* An issued period never changes again (docs/data-pipeline.md, withdrawal of
\* calculated VNB evidence).
THEOREM IssuedIsFrozenHolds == Spec => IssuedIsFrozen
  <1> DEFINE Frozen == \A i \in DOMAIN periods :
                 periods[i].status = "issued" => periods'[i] = periods[i]
  <1>1. IInv /\ [Next]_vars => [Frozen]_vars
    BY RowsKept
  <1> QED BY <1>1, IInvHolds, PTL DEF Spec, IssuedIsFrozen

-----------------------------------------------------------------------------
(* One live period, and one sequence of numbers.                           *)

\* What a run saves is a draft or a retained version, never an issued period.
SavingIsNew == \A p \in Procs :
    proc[p].pc = "saving" => proc[p].draft.status \in {"draft", "invalidated"}

\* A number is given once in its series.
NumberedOnce == \A u, v \in invoices : u.series = v.series /\ u.number = v.number => u = v

\* The numbers found for each series have no gap.
Gapless == \A s \in Series : \E n \in Nat : FoundNumbers(s) = 1 .. n

\* The first number of an approval still is the next one.
FirstIsNext == \A p \in Procs : proc[p].pc = "approving" =>
    proc[p].first \in NextSequence(Prefix[periods[proc[p].period].inputs])

\* The inductive invariant behind OneLivePeriodPerWindow and NumbersRunOn.
NInv == /\ IInv
        /\ SavingIsNew
        /\ OneLivePeriodPerWindow
        /\ NumberedOnce
        /\ Gapless
        /\ FirstIsNext

\* No period moves to another month or other inputs, and none comes back.
LEMMA RowsStay ==
    ASSUME IInv, [Next]_vars, NEW i \in DOMAIN periods
    PROVE  /\ i \in DOMAIN periods'
           /\ periods'[i].window = periods[i].window
           /\ periods'[i].inputs = periods[i].inputs
           /\ periods'[i].status # "invalidated" => periods[i].status # "invalidated"
  <1> periods \in Seq(Period) /\ periods[i] \in Period
    BY DEF IInv, TypeOK
  <1>1. ASSUME NEW p \in Procs, CommitWithdraw(p)
        PROVE  /\ i \in DOMAIN periods'
               /\ periods'[i].window = periods[i].window
               /\ periods'[i].inputs = periods[i].inputs
               /\ periods'[i].status # "invalidated" => periods[i].status # "invalidated"
    <2>1. i \in DOMAIN periods' /\ periods'[i] = Invalidated(periods[i], proc[p].file)
      BY <1>1 DEF CommitWithdraw
    <2> QED BY <2>1 DEF Invalidated, Period
  <1>2. ASSUME NEW p \in Procs, CommitSave(p) \/ CommitDeliver(p)
        PROVE  i \in DOMAIN periods' /\ periods'[i] = periods[i]
    BY <1>2 DEF CommitSave, CommitDeliver
  <1>3. ASSUME NEW p \in Procs, CommitApprove(p)
        PROVE  /\ i \in DOMAIN periods'
               /\ periods'[i].window = periods[i].window
               /\ periods'[i].inputs = periods[i].inputs
               /\ periods'[i].status # "invalidated" => periods[i].status # "invalidated"
    <2>1. /\ i \in DOMAIN periods'
          /\ \/ periods'[i] = periods[i]
             \/ /\ periods'[i] = [periods[i] EXCEPT !.status = "issued"]
                /\ periods[i].status = "draft"
      BY <1>3 DEF CommitApprove, IInv, ApprovingGrounded
    <2> QED BY <2>1 DEF Period
  <1>4. ASSUME NEW a \in Admins, NEW j \in DOMAIN periods, record_billing_period_preparer(a, j)
        PROVE  /\ i \in DOMAIN periods'
               /\ periods'[i].window = periods[i].window
               /\ periods'[i].inputs = periods[i].inputs
               /\ periods'[i].status = periods[i].status
    BY <1>4 DEF record_billing_period_preparer, Period
  <1> QED BY <1>1, <1>2, <1>3, <1>4, Writers

\* A row that was not there was saved while its month had no live period.
LEMMA SavedFree ==
    ASSUME IInv, [Next]_vars, NEW i \in DOMAIN periods', i \notin DOMAIN periods
    PROVE  \E p \in Procs : /\ proc[p].pc = "saving" /\ WindowFree(proc[p].draft)
                            /\ i = Len(periods) + 1 /\ periods'[i] = proc[p].draft
                            /\ \A j \in DOMAIN periods' : j # i => periods'[j] = periods[j]
  <1> periods \in Seq(Period)
    BY DEF IInv, TypeOK
  <1>1. ASSUME NEW p \in Procs, CommitWithdraw(p) \/ CommitDeliver(p) \/ CommitApprove(p) PROVE FALSE
    BY <1>1 DEF CommitWithdraw, CommitDeliver, CommitApprove
  <1>2. ASSUME NEW p \in Procs, CommitSave(p)
        PROVE  /\ proc[p].pc = "saving" /\ WindowFree(proc[p].draft)
               /\ i = Len(periods) + 1 /\ periods'[i] = proc[p].draft
               /\ \A j \in DOMAIN periods' : j # i => periods'[j] = periods[j]
    <2>1. WindowFree(proc[p].draft) /\ periods' = Append(periods, proc[p].draft)
      BY <1>2 DEF CommitSave
    <2>2. i = Len(periods) + 1
      BY <2>1
    <2> QED BY <1>2, <2>1, <2>2 DEF CommitSave
  <1>3. ASSUME NEW a \in Admins, NEW j \in DOMAIN periods, record_billing_period_preparer(a, j)
        PROVE FALSE
    BY <1>3 DEF record_billing_period_preparer
  <1> QED BY <1>1, <1>2, <1>3, Writers

\* A save takes the row with a draft or a retained version in hand.
LEMMA SavingIsNewStep ==
    ASSUME NInv, [Next]_vars
    PROVE  SavingIsNew'
  <1> IInv
    BY DEF NInv
  <1> SUFFICES ASSUME NEW q \in Procs, proc'[q].pc = "saving"
               PROVE  proc'[q].draft.status \in {"draft", "invalidated"}
    BY DEF SavingIsNew
  <1>1. CASE proc[q].pc \in Holding
    <2>1. proc'[q] = proc[q]
      BY <1>1, HolderStable DEF Holding
    <2> QED BY <2>1 DEF NInv, SavingIsNew
  <1>2. CASE proc[q].pc \notin Holding
    <2>1. BeginSave(q)
      BY <1>2, Takes, RecheckShape
      DEF Holding, IInv, TypeOK, BeginDeliver, BeginApprove, BeginWithdraw, Run, Goto
    <2>2. proc[q].draft \in Period
      BY <2>1, ProcShapes DEF BeginSave, IInv, TypeOK
    <2>3. proc'[q].draft = [proc[q].draft EXCEPT !.status = StatusOf(proc[q].draft)]
      BY <2>1 DEF BeginSave, Run, Goto, IInv, TypeOK
    <2> QED BY <2>2, <2>3 DEF Period, StatusOf
  <1> QED BY <1>1, <1>2

\* A second live period of a month would have been saved beside the first.
LEMMA OneLiveStep ==
    ASSUME NInv, [Next]_vars
    PROVE  OneLivePeriodPerWindow'
  <1> IInv
    BY DEF NInv
  <1> DEFINE LiveRow(i) == i \in DOMAIN periods' /\ periods'[i].status # "invalidated"
  <1>1. ASSUME NEW i, NEW j, LiveRow(i), LiveRow(j), periods'[i].window = periods'[j].window,
               i \notin DOMAIN periods
        PROVE  i = j
    <2>1. PICK p \in Procs : /\ proc[p].pc = "saving" /\ WindowFree(proc[p].draft)
                             /\ i = Len(periods) + 1 /\ periods'[i] = proc[p].draft
                             /\ \A k \in DOMAIN periods' : k # i => periods'[k] = periods[k]
      BY <1>1, SavedFree
    <2>2. ~Live(periods'[i].window)
      BY <1>1, <2>1 DEF NInv, SavingIsNew, WindowFree
    <2>3. CASE j \in DOMAIN periods
      <3>1. periods[j].window = periods'[i].window /\ periods[j].status # "invalidated"
        BY <1>1, <2>3, RowsStay
      <3> QED BY <2>2, <2>3, <3>1 DEF Live
    <2>4. CASE j \notin DOMAIN periods
      <3>1. j = Len(periods) + 1
        BY <1>1, <2>4, SavedFree
      <3> QED BY <2>1, <3>1
    <2> QED BY <2>3, <2>4
  <1>2. ASSUME NEW i, NEW j, LiveRow(i), LiveRow(j), periods'[i].window = periods'[j].window,
               i \in DOMAIN periods, j \in DOMAIN periods
        PROVE  i = j
    BY <1>2, RowsStay DEF NInv, OneLivePeriodPerWindow
  <1>3. ASSUME NEW i, NEW j, LiveRow(i), LiveRow(j), periods'[i].window = periods'[j].window
        PROVE  i = j
    BY <1>1, <1>2, <1>3
  <1> QED BY <1>3 DEF OneLivePeriodPerWindow

\* Only an approval writes invoices.
LEMMA InvoicesKept ==
    ASSUME [Next]_vars, \A p \in Procs : ~CommitApprove(p)
    PROVE  UNCHANGED invoices
  <1>1. ASSUME NEW p \in Procs, DeliveryStep(p) PROVE UNCHANGED invoices
    BY <1>1 DEF DeliveryStep, Submit, BeginDeliver, CommitDeliver, BeginWithdraw, CommitWithdraw
  <1>2. ASSUME NEW p \in Procs, RunStep(p) PROVE UNCHANGED invoices
    BY <1>2 DEF RunStep, StartRun, ReadEvidence, LoadFrames, Compare, BeginSave, CommitSave
  <1>3. ASSUME NEW p \in Procs, ApprovalStep(p) \/ Abort(p) PROVE UNCHANGED invoices
    BY <1>3 DEF ApprovalStep, BeginApprove, Abort
  <1>4. CASE WorldStep
    BY <1>4 DEF WorldStep, record_billing_period_preparer, ChangeInputs, Reregister,
       set_community_dual_control
  <1> QED BY <1>1, <1>2, <1>3, <1>4 DEF Next, vars

\* The next number of a series whose found ones are 1 to n.
LEMMA NextIs ==
    ASSUME NEW s, NEW n \in Nat, FoundNumbers(s) = 1 .. n
    PROVE  NextSequence(s) = {n + 1}
  <1>1. FoundNumbers(s) \cup {0} = 0 .. n
    OBVIOUS
  <1>2. {m \in 0 .. n : \A k \in 0 .. n : k <= m} = {n}
    OBVIOUS
  <1> QED BY <1>1, <1>2 DEF NextSequence

\* An approval appends its numbers to every series that finds them, or writes
\* nothing: what a longer series holds, a shorter one that finds it holds too.
LEMMA ApproveNumbers ==
    ASSUME NInv, NEW p \in Procs, CommitApprove(p)
    PROVE  NumberedOnce' /\ Gapless'
  <1> PICK i, s, first : /\ i = proc[p].period /\ first = proc[p].first
                         /\ s = Prefix[periods[i].inputs]
    OBVIOUS
  <1> DEFINE new == NewInvoices(i, s, first)
  <1>1. s \in Series
    <2>1. i \in DOMAIN periods /\ periods \in Seq(Period)
      BY DEF NInv, IInv, TypeOK, ApprovingGrounded, CommitApprove
    <2>2. periods[i] \in Period
      BY <2>1
    <2> QED BY <2>2 DEF Period, Series
  <1>2. PICK n \in Nat : FoundNumbers(s) = 1 .. n
    BY <1>1 DEF NInv, Gapless
  <1>3. first = n + 1
    BY <1>2, NextIs DEF NInv, FirstIsNext, CommitApprove
  <1>4. Billed \in Nat \ {0}
    BY BillingAssumption DEF BillingAssumption
  <1>5. \/ UNCHANGED invoices
        \/ /\ invoices' = invoices \cup new
           /\ \A v \in new, u \in invoices : v.series = u.series => v.number # u.number
    BY DEF CommitApprove
  <1>6. CASE UNCHANGED invoices
    BY <1>6 DEF NInv, NumberedOnce, Gapless, FoundNumbers
  <1>7. CASE /\ invoices' = invoices \cup new
             /\ \A v \in new, u \in invoices : v.series = u.series => v.number # u.number
    <2>1. \A v \in new : v.series = s /\ v.number \in n + 1 .. n + Billed
      BY <1>3, <1>4 DEF NewInvoices
    <2>2. \A k \in n + 1 .. n + Billed : \E v \in new : v.series = s /\ v.number = k
      <3> SUFFICES ASSUME NEW k \in n + 1 .. n + Billed
                   PROVE  [period |-> i, series |-> s, number |-> k] \in new
        OBVIOUS
      <3>1. k \in first .. first + Billed - 1
        BY <1>3, <1>4
      <3> QED BY <3>1 DEF NewInvoices
    <2>3. \A u, v \in new : u.number = v.number => u = v
      BY DEF NewInvoices
    <2>4. NumberedOnce'
      <3> SUFFICES ASSUME NEW u \in invoices', NEW v \in invoices',
                          u.series = v.series, u.number = v.number
                   PROVE  u = v
        BY DEF NumberedOnce
      <3>1. CASE u \in invoices /\ v \in invoices
        BY <3>1 DEF NInv, NumberedOnce
      <3>2. CASE u \in new /\ v \in new
        BY <2>3, <3>2
      <3> QED BY <1>7, <3>1, <3>2
    <2> HIDE DEF new
    <2>5. ASSUME NEW t \in Series, s \in Finds[t]
          PROVE  \E k \in Nat : FoundNumbers(t)' = 1 .. k
      <3>1. PICK m \in Nat : FoundNumbers(t) = 1 .. m
        BY DEF NInv, Gapless
      <3>2. FoundNumbers(s) \subseteq FoundNumbers(t)
        <4>1. Finds[s] \subseteq Finds[t]
          BY <2>5, BillingAssumption DEF BillingAssumption
        <4> QED BY <4>1 DEF FoundNumbers
      <3>3. n <= m
        <4>1. n \in 1 .. n => n \in 1 .. m
          BY <1>2, <3>1, <3>2
        <4> QED BY <4>1
      <3>4. FoundNumbers(t)' = FoundNumbers(t) \cup {v.number : v \in new}
        BY <1>7, <2>1, <2>5 DEF FoundNumbers
      <3>5. {v.number : v \in new} = n + 1 .. n + Billed
        BY <2>1, <2>2
      <3>6. FoundNumbers(t)' = (1 .. m) \cup (n + 1 .. n + Billed)
        BY <3>1, <3>4, <3>5
      <3>7. CASE m <= n + Billed
        <4>1. (1 .. m) \cup (n + 1 .. n + Billed) = 1 .. n + Billed
          BY <1>4, <3>3, <3>7
        <4> QED BY <1>4, <3>6, <4>1
      <3>8. CASE ~(m <= n + Billed)
        <4>1. (1 .. m) \cup (n + 1 .. n + Billed) = 1 .. m
          BY <1>4, <3>3, <3>8
        <4> QED BY <3>6, <4>1
      <3> QED BY <3>7, <3>8
    <2>6. ASSUME NEW t \in Series, s \notin Finds[t]
          PROVE  FoundNumbers(t)' = FoundNumbers(t)
      BY <1>7, <2>1, <2>6 DEF FoundNumbers
    <2>7. Gapless'
      <3> SUFFICES ASSUME NEW t \in Series
                   PROVE  \E k \in Nat : FoundNumbers(t)' = 1 .. k
        BY DEF Gapless
      <3>1. PICK k \in Nat : FoundNumbers(t) = 1 .. k
        BY DEF NInv, Gapless
      <3> QED BY <2>5, <2>6, <3>1
    <2> QED BY <2>4, <2>7
  <1> QED BY <1>5, <1>6, <1>7

\* Every step keeps the numbering.
LEMMA NumberingStep ==
    ASSUME NInv, [Next]_vars
    PROVE  NumberedOnce' /\ Gapless'
  <1>1. CASE \A p \in Procs : ~CommitApprove(p)
    BY <1>1, InvoicesKept DEF NInv, NumberedOnce, Gapless, FoundNumbers
  <1> QED BY <1>1, ApproveNumbers

\* No other approval writes between the reading of a number and its use.
LEMMA FirstIsNextStep ==
    ASSUME NInv, [Next]_vars
    PROVE  FirstIsNext'
  <1> IInv
    BY DEF NInv
  <1> SUFFICES ASSUME NEW q \in Procs, proc'[q].pc = "approving"
               PROVE  proc'[q].first \in NextSequence(Prefix[periods[proc[q].period].inputs])'
    BY DEF FirstIsNext
  <1>1. owner' = q
    BY RowHeldStep DEF RowHeld, Holding
  <1>2. \A p \in Procs : ~CommitApprove(p)
    BY <1>1, BillingAssumption DEF CommitApprove, Unlock, BillingAssumption
  <1>3. UNCHANGED invoices
    BY <1>2, InvoicesKept
  <1>4. \A s : NextSequence(s)' = NextSequence(s)
    BY <1>3 DEF NextSequence, FoundNumbers
  <1>5. CASE proc[q].pc \in Holding
    <2>1. proc'[q] = proc[q]
      BY <1>5, HolderStable DEF Holding
    <2>2. proc[q].period \in DOMAIN periods
      BY <2>1 DEF IInv, ApprovingGrounded
    <2>3. periods'[proc[q].period].inputs = periods[proc[q].period].inputs
      BY <2>2, RowsStay
    <2>4. proc[q].first \in NextSequence(Prefix[periods[proc[q].period].inputs])
      BY <2>1 DEF NInv, FirstIsNext
    <2>5. proc'[q].first \in NextSequence(Prefix[periods'[proc'[q].period].inputs])
      BY <2>1, <2>3, <2>4
    <2> QED BY <1>3, <2>5 DEF NextSequence, FoundNumbers
  <1>6. CASE proc[q].pc \notin Holding
    <2>1. PICK a \in Admins, i \in DOMAIN periods : BeginApprove(q, a, i)
      BY <1>6, Takes, RecheckShape
      DEF Holding, IInv, TypeOK, BeginDeliver, BeginSave, BeginWithdraw, Run, Goto
    <2>2. PICK n \in NextSequence(Prefix[periods[i].inputs]) :
              proc'[q] = [pc |-> "approving", period |-> i, admin |-> a, first |-> n]
      BY <2>1 DEF BeginApprove, Goto, IInv, TypeOK
    <2>3. UNCHANGED periods
      BY <2>1 DEF BeginApprove
    <2> QED BY <1>3, <2>2, <2>3 DEF NextSequence, FoundNumbers
  <1> QED BY <1>5, <1>6

\* Nothing is billed at first.
LEMMA NInvInit ==
    ASSUME Init
    PROVE  NInv
  <1>1. IInv
    BY IInvInit
  <1>2. /\ periods = << >> /\ invoices = {} /\ \A p \in Procs : proc[p].pc = "idle"
    BY DEF Init, Idle
  <1>3. \A s \in Series : FoundNumbers(s) = 1 .. 0
    BY <1>2 DEF FoundNumbers
  <1>4. Gapless
    BY <1>3 DEF Gapless
  <1> QED BY <1>1, <1>2, <1>4 DEF NInv, SavingIsNew, OneLivePeriodPerWindow, NumberedOnce, FirstIsNext

\* NInv is inductive.
LEMMA NInvHolds == Spec => []NInv
  <1>1. NInv /\ [Next]_vars => NInv'
    <2>1. ASSUME NInv, [Next]_vars PROVE NInv'
      <3>1. IInv
        BY <2>1 DEF NInv
      <3> QED BY <2>1, <3>1, IInvStep, SavingIsNewStep, OneLiveStep, NumberingStep, FirstIsNextStep DEF NInv
    <2> QED BY <2>1
  <1> QED BY <1>1, NInvInit, PTL DEF Spec

\* Two runs for one month leave one live period
\* (BillingPeriods!OneLivePeriodPerWindow, run_billing_period).
THEOREM OneLivePeriodPerWindowHolds == Spec => []OneLivePeriodPerWindow
  <1>1. NInv => OneLivePeriodPerWindow
    BY DEF NInv
  <1> QED BY <1>1, NInvHolds, PTL

\* However many approvals interleave, and whichever series find each other's
\* numbers, a number is given once, what a series finds has no gap and an
\* approval in progress holds numbers above all of its series
\* (BillingPeriods!NumbersRunOn, approve_billing_period).
THEOREM NumbersRunOnHolds == Spec => []NumbersRunOn
  <1>1. ASSUME NInv PROVE NumbersRunOn
    <2>1. ASSUME NEW s \in Series
          PROVE  FoundNumbers(s) = 1 .. Cardinality(FoundNumbers(s))
      <3>1. PICK n \in Nat : FoundNumbers(s) = 1 .. n
        BY <1>1 DEF NInv, Gapless
      <3>2. Cardinality(1 .. n) = n
        BY FS_Interval
      <3> QED BY <3>1, <3>2
    <2>2. ASSUME NEW p \in Procs, proc[p].pc = "approving",
                 NEW u \in invoices, u.series = Prefix[periods[proc[p].period].inputs]
          PROVE  u.number < proc[p].first
      <3>1. PICK s : s = Prefix[periods[proc[p].period].inputs]
        OBVIOUS
      <3>2. s \in Series
        <4>1. proc[p].period \in DOMAIN periods /\ periods \in Seq(Period)
          BY <1>1, <2>2 DEF NInv, IInv, TypeOK, ApprovingGrounded
        <4>2. periods[proc[p].period] \in Period
          BY <4>1
        <4> QED BY <3>1, <4>2 DEF Period, Series
      <3>3. PICK n \in Nat : FoundNumbers(s) = 1 .. n
        BY <1>1, <3>2 DEF NInv, Gapless
      <3>4. proc[p].first = n + 1
        BY <1>1, <2>2, <3>1, <3>3, NextIs DEF NInv, FirstIsNext
      <3>5. u.number \in FoundNumbers(s)
        BY <2>2, <3>1, <3>2, BillingAssumption DEF BillingAssumption, FoundNumbers
      <3> QED BY <3>3, <3>4, <3>5
    <2> QED BY <1>1, <2>1, <2>2 DEF NumbersRunOn, NInv, NumberedOnce
  <1> QED BY <1>1, NInvHolds, PTL

-----------------------------------------------------------------------------

(***************************************************************************)
(* Sums over finite sets, as the folds of FiniteSetsExt compute them: one  *)
(* member after the other, the chosen one first.  A lemma about a sum is   *)
(* proved by looking at a smallest set for which it fails.                 *)
(***************************************************************************)

First(s) == CHOOSE x \in s : TRUE

\* g adds up what w gives to the members of the subsets of S.
Adds(w, g, S) == g = [s \in SUBSET S |-> IF s = {} THEN 0 ELSE w[First(s)] + g[s \ {First(s)}]]

\* What w gives to the members of S together.
Total(w, S) == (CHOOSE a : Adds(w, a, S))[S]

\* Among finite sets of some kind there is one that has no smaller.
LEMMA Smallest ==
    ASSUME NEW T, T # {}, \A s \in T : IsFiniteSet(s)
    PROVE  \E s \in T : \A u \in T : ~(Cardinality(u) < Cardinality(s))
<1> DEFINE Sizes == {Cardinality(s) : s \in T}
<1>1. Sizes \subseteq Nat /\ Sizes # {}
  BY FS_CardinalityType
<1>2. PICK n \in Sizes : \A m \in Sizes : ~(<<m, n>> \in OpToRel(<, Nat))
  BY <1>1, NatLessThanWellFounded, WFMin
<1>3. \A m \in Sizes : ~(m < n)
  BY <1>1, <1>2 DEF OpToRel
<1>4. PICK s \in T : n = Cardinality(s)
  OBVIOUS
<1> QED
  BY <1>3, <1>4

\* A finite set has a first member, and is larger than what is left without it.
LEMMA Rest ==
    ASSUME NEW s, IsFiniteSet(s), NEW x \in s
    PROVE  /\ IsFiniteSet(s \ {x}) /\ Cardinality(s \ {x}) < Cardinality(s)
           /\ First(s) \in s
<1>1. IsFiniteSet(s \ {x}) /\ Cardinality(s \ {x}) = Cardinality(s) - 1
  BY FS_RemoveElement
<1>2. Cardinality(s) \in Nat
  BY FS_CardinalityType
<1> QED
  BY <1>1, <1>2 DEF First

\* Functions that add up agree wherever both are defined.
LEMMA AddsAgree ==
    ASSUME NEW w, NEW S, NEW R, IsFiniteSet(S), NEW g, NEW h, Adds(w, g, S), Adds(w, h, R)
    PROVE  \A s \in SUBSET S : s \subseteq R => g[s] = h[s]
<1> DEFINE Odd == {s \in SUBSET S : s \subseteq R /\ g[s] # h[s]}
<1>1. SUFFICES ASSUME Odd # {}
               PROVE  FALSE
  OBVIOUS
<1>2. \A s \in Odd : IsFiniteSet(s)
  BY FS_Subset
<1>3. PICK s \in Odd : \A u \in Odd : ~(Cardinality(u) < Cardinality(s))
  BY <1>1, <1>2, Smallest
<1>4. s # {}
  BY <1>3 DEF Adds
<1>5. s \ {First(s)} \in SUBSET S /\ s \ {First(s)} \subseteq R /\ s \ {First(s)} \notin Odd
  BY <1>2, <1>3, <1>4, Rest
<1>6. g[s \ {First(s)}] = h[s \ {First(s)}]
  BY <1>5
<1> QED
  BY <1>3, <1>4, <1>6 DEF Adds

\* Every finite set can be added up.
LEMMA AddsExists ==
    ASSUME NEW w, NEW S, IsFiniteSet(S)
    PROVE  \E g : Adds(w, g, S)
<1> DEFINE Odd == {s \in SUBSET S : \A g : ~Adds(w, g, s)}
<1>1. SUFFICES ASSUME Odd # {}
               PROVE  FALSE
  OBVIOUS
<1>2. \A s \in SUBSET S : IsFiniteSet(s)
  BY FS_Subset
<1>3. PICK s \in Odd : \A u \in Odd : ~(Cardinality(u) < Cardinality(s))
  BY <1>1, <1>2, Smallest
<1> DEFINE Left(u) == u \ {First(u)}
           Sub(u) == (CHOOSE a : Adds(w, a, u))[u]
           g == [u \in SUBSET s |-> IF u = {} THEN 0 ELSE w[First(u)] + Sub(Left(u))]
<1>4. ASSUME NEW u \in SUBSET s, u # {}
      PROVE  /\ Left(u) \in SUBSET s /\ IsFiniteSet(Left(u))
             /\ Adds(w, CHOOSE a : Adds(w, a, Left(u)), Left(u))
  <2>1. IsFiniteSet(u) /\ IsFiniteSet(s)
    BY <1>2, <1>3, <1>4
  <2>2. IsFiniteSet(Left(u)) /\ Cardinality(Left(u)) < Cardinality(u) /\ First(u) \in u
    BY <1>4, <2>1, Rest
  <2>3. Cardinality(u) <= Cardinality(s)
    BY <2>1, FS_Subset
  <2>4. Cardinality(Left(u)) < Cardinality(s)
    BY <2>1, <2>2, <2>3, FS_CardinalityType
  <2>5. Left(u) \in SUBSET S /\ Left(u) \notin Odd
    BY <1>3, <2>4
  <2>6. \E h : Adds(w, h, Left(u))
    BY <2>5
  <2> QED
    BY <2>2, <2>6
<1>5. ASSUME NEW u \in SUBSET s, u # {}, Left(u) # {}
      PROVE  g[Left(u)] = Sub(Left(u))
  <2>1. PICK h : h = CHOOSE a : Adds(w, a, Left(u))
    OBVIOUS
  <2>2. PICK k : k = CHOOSE a : Adds(w, a, Left(Left(u)))
    OBVIOUS
  <2>3. Left(u) \in SUBSET s /\ IsFiniteSet(Left(u)) /\ Adds(w, h, Left(u))
    BY <1>4, <1>5, <2>1
  <2>4. Adds(w, k, Left(Left(u))) /\ IsFiniteSet(Left(Left(u)))
    BY <1>4, <1>5, <2>2, <2>3
  <2>5. k[Left(Left(u))] = h[Left(Left(u))]
    BY <2>3, <2>4, AddsAgree
  <2>6. h[Left(u)] = w[First(Left(u))] + h[Left(Left(u))]
    BY <1>5, <2>3 DEF Adds
  <2>7. g[Left(u)] = w[First(Left(u))] + k[Left(Left(u))]
    BY <1>5, <2>2, <2>3
  <2> QED
    BY <2>1, <2>5, <2>6, <2>7
<1>6. Sub({}) = 0
  <2>1. \E h : Adds(w, h, {})
    <3>1. Adds(w, [u \in SUBSET {} |-> 0], {})
      BY DEF Adds
    <3> QED
      BY <3>1
  <2> QED
    BY <2>1 DEF Adds
<1> HIDE DEF Sub
<1>7. Adds(w, g, s)
  <2>1. PICK f : f = g
    OBVIOUS
  <2>2. \A u \in SUBSET s : u # {} => Left(u) \in SUBSET s /\ f[Left(u)] = Sub(Left(u))
    BY <1>5, <1>6, <2>1
  <2>3. f = [u \in SUBSET s |-> IF u = {} THEN 0 ELSE w[First(u)] + f[Left(u)]]
    BY <2>1, <2>2
  <2>4. Adds(w, f, s)
    BY <2>3 DEF Adds
  <2> QED
    BY <2>1, <2>4
<1> QED
  BY <1>3, <1>7

\* A total is one: nothing of nothing, and else the first and the others.
LEMMA TotalIs ==
    ASSUME NEW w, NEW S, IsFiniteSet(S)
    PROVE  /\ S = {} => Total(w, S) = 0
           /\ S # {} => Total(w, S) = w[First(S)] + Total(w, S \ {First(S)})
<1>1. PICK g : g = (CHOOSE a : Adds(w, a, S)) /\ Adds(w, g, S)
  BY AddsExists
<1>2. S = {} => g[S] = 0
  BY <1>1 DEF Adds
<1>3. ASSUME S # {}
      PROVE  g[S] = w[First(S)] + Total(w, S \ {First(S)})
  <2>1. IsFiniteSet(S \ {First(S)})
    BY <1>3, Rest DEF First
  <2>2. PICK h : h = (CHOOSE a : Adds(w, a, S \ {First(S)})) /\ Adds(w, h, S \ {First(S)})
    BY <2>1, AddsExists
  <2>3. g[S \ {First(S)}] = h[S \ {First(S)}]
    BY <1>1, <2>2, AddsAgree
  <2>4. g[S] = w[First(S)] + g[S \ {First(S)}]
    BY <1>1, <1>3 DEF Adds
  <2> QED
    BY <2>2, <2>3, <2>4 DEF Total
<1> QED
  BY <1>1, <1>2, <1>3 DEF Total

\* A total of natural numbers is one, and one of integers an integer.
LEMMA TotalNat ==
    ASSUME NEW w, NEW S, IsFiniteSet(S), \A x \in S : w[x] \in Nat
    PROVE  Total(w, S) \in Nat
<1> DEFINE Odd == {s \in SUBSET S : Total(w, s) \notin Nat}
<1>1. SUFFICES ASSUME Odd # {}
               PROVE  FALSE
  OBVIOUS
<1>2. \A s \in SUBSET S : IsFiniteSet(s)
  BY FS_Subset
<1>3. PICK s \in Odd : \A u \in Odd : ~(Cardinality(u) < Cardinality(s))
  BY <1>1, <1>2, Smallest
<1>4. s # {} /\ IsFiniteSet(s)
  <2>1. IsFiniteSet(s) /\ Total(w, s) \notin Nat
    BY <1>2, <1>3
  <2>2. s = {} => Total(w, s) = 0
    BY <2>1, TotalIs
  <2> QED
    BY <2>1, <2>2
<1>5. First(s) \in s /\ s \ {First(s)} \in SUBSET S /\ s \ {First(s)} \notin Odd
  BY <1>3, <1>4, Rest
<1>6. Total(w, s) = w[First(s)] + Total(w, s \ {First(s)})
  BY <1>4, TotalIs
<1> QED
  BY <1>3, <1>5, <1>6

LEMMA TotalType ==
    ASSUME NEW w, NEW S, IsFiniteSet(S), \A x \in S : w[x] \in Int
    PROVE  Total(w, S) \in Int
<1> DEFINE Odd == {s \in SUBSET S : Total(w, s) \notin Int}
<1>1. SUFFICES ASSUME Odd # {}
               PROVE  FALSE
  OBVIOUS
<1>2. \A s \in SUBSET S : IsFiniteSet(s)
  BY FS_Subset
<1>3. PICK s \in Odd : \A u \in Odd : ~(Cardinality(u) < Cardinality(s))
  BY <1>1, <1>2, Smallest
<1>4. s # {} /\ IsFiniteSet(s)
  <2>1. IsFiniteSet(s) /\ Total(w, s) \notin Int
    BY <1>2, <1>3
  <2>2. s = {} => Total(w, s) = 0
    BY <2>1, TotalIs
  <2> QED
    BY <2>1, <2>2
<1>5. First(s) \in s /\ s \ {First(s)} \in SUBSET S /\ s \ {First(s)} \notin Odd
  BY <1>3, <1>4, Rest
<1>6. Total(w, s) = w[First(s)] + Total(w, s \ {First(s)})
  BY <1>4, TotalIs
<1> QED
  BY <1>3, <1>5, <1>6

\* Any member may be added last.
LEMMA TotalWithout ==
    ASSUME NEW w, NEW S, IsFiniteSet(S), \A x \in S : w[x] \in Int, NEW x \in S
    PROVE  Total(w, S) = w[x] + Total(w, S \ {x})
<1> DEFINE Odd == {s \in SUBSET S : \E y \in s : Total(w, s) # w[y] + Total(w, s \ {y})}
<1>1. SUFFICES ASSUME Odd # {}
               PROVE  FALSE
  OBVIOUS
<1>2. \A s \in SUBSET S : IsFiniteSet(s) /\ Total(w, s) \in Int
  BY FS_Subset, TotalType
<1>3. PICK s \in Odd : \A u \in Odd : ~(Cardinality(u) < Cardinality(s))
  BY <1>1, <1>2, Smallest
<1>4. PICK y \in s : Total(w, s) # w[y] + Total(w, s \ {y})
  BY <1>3
<1>5. PICK f \in s : f = First(s) /\ Total(w, s) = w[f] + Total(w, s \ {f})
  BY <1>2, <1>4, TotalIs, Rest
<1>6. f # y
  BY <1>4, <1>5
<1>7. \A z \in s : s \ {z} \in SUBSET S /\ s \ {z} \notin Odd
  BY <1>2, <1>3, Rest
<1>8. Total(w, s \ {f}) = w[y] + Total(w, (s \ {f}) \ {y})
  BY <1>6, <1>7
<1>9. Total(w, s \ {y}) = w[f] + Total(w, (s \ {y}) \ {f})
  BY <1>6, <1>7
<1>10. (s \ {f}) \ {y} = (s \ {y}) \ {f} /\ (s \ {y}) \ {f} \in SUBSET S
  OBVIOUS
<1>11. w[f] \in Int /\ w[y] \in Int /\ Total(w, (s \ {y}) \ {f}) \in Int
  BY <1>2, <1>10
<1> QED
  BY <1>4, <1>5, <1>8, <1>9, <1>10, <1>11

\* The totals of two sets that share nothing.
LEMMA TotalOfBoth ==
    ASSUME NEW w, NEW S, NEW R, IsFiniteSet(S), IsFiniteSet(R), S \cap R = {},
           \A x \in S \cup R : w[x] \in Int
    PROVE  Total(w, S \cup R) = Total(w, S) + Total(w, R)
<1> DEFINE Odd == {s \in SUBSET R : Total(w, S \cup s) # Total(w, S) + Total(w, s)}
<1>1. SUFFICES ASSUME Odd # {}
               PROVE  FALSE
  OBVIOUS
<1>2. \A s \in SUBSET R : IsFiniteSet(s) /\ IsFiniteSet(S \cup s)
  BY FS_Subset, FS_Union
<1>3. \A s \in SUBSET R : Total(w, s) \in Int /\ Total(w, S) \in Int
  BY <1>2, TotalType
<1>4. PICK s \in Odd : \A u \in Odd : ~(Cardinality(u) < Cardinality(s))
  BY <1>1, <1>2, Smallest
<1>5. Total(w, S \cup s) # Total(w, S) + Total(w, s)
  BY <1>4
<1>6. ASSUME s = {}
      PROVE  FALSE
  <2>1. S \cup s = S /\ Total(w, s) = 0
    BY <1>2, <1>6, TotalIs
  <2>2. Total(w, S) \in Int
    BY <1>3
  <2>3. \A i \in Int : i = i + 0
    OBVIOUS
  <2>4. Total(w, S) = Total(w, S) + Total(w, s)
    BY <2>1, <2>2, <2>3
  <2> QED
    BY <1>5, <2>1, <2>4
<1>7. PICK x : x \in s
  BY <1>6
<1>8. s \ {x} \in SUBSET R /\ s \ {x} \notin Odd
  BY <1>2, <1>4, <1>7, Rest
<1>9. Total(w, s) = w[x] + Total(w, s \ {x})
  BY <1>2, <1>7, TotalWithout
<1>10. Total(w, S \cup s) = w[x] + Total(w, (S \cup s) \ {x})
  BY <1>2, <1>7, TotalWithout
<1>11. (S \cup s) \ {x} = S \cup (s \ {x})
  BY <1>7
<1>12. w[x] \in Int
  BY <1>7
<1>13. Total(w, S \cup (s \ {x})) = Total(w, S) + Total(w, s \ {x})
  BY <1>8
<1>14. Total(w, S) \in Int /\ Total(w, s \ {x}) \in Int
  BY <1>3, <1>8
<1>15. \A i, j, k \in Int : i + (j + k) = j + (i + k)
  OBVIOUS
<1>16. Total(w, S \cup s) = w[x] + (Total(w, S) + Total(w, s \ {x}))
  BY <1>10, <1>11, <1>13
<1>17. Total(w, S \cup s) = Total(w, S) + (w[x] + Total(w, s \ {x}))
  BY <1>12, <1>14, <1>15, <1>16
<1> QED
  BY <1>5, <1>9, <1>17

\* The members of S in one part.
InPart(S, part, k) == {x \in S : part[x] = k}

\* A total is that of the totals of its parts.
LEMMA TotalOfParts ==
    ASSUME NEW w, NEW S, IsFiniteSet(S), \A x \in S : w[x] \in Int,
           NEW K, IsFiniteSet(K), NEW part, \A x \in S : part[x] \in K,
           NEW v, \A k \in K : v[k] = Total(w, InPart(S, part, k))
    PROVE  Total(v, K) = Total(w, S)
<1> DEFINE In(L) == {x \in S : part[x] \in L}
           Odd == {L \in SUBSET K : Total(v, L) # Total(w, In(L))}
<1>1. SUFFICES ASSUME Odd # {}
               PROVE  FALSE
  <2>1. In(K) = S /\ K \notin Odd
    BY <1>1
  <2> QED
    BY <2>1
<1>2. \A s \in SUBSET S : IsFiniteSet(s) /\ Total(w, s) \in Int
  BY FS_Subset, TotalType
<1>3. \A L \in SUBSET K : IsFiniteSet(L)
  BY FS_Subset
<1>4. PICK L \in Odd : \A M \in Odd : ~(Cardinality(M) < Cardinality(L))
  BY <1>1, <1>3, Smallest
<1>5. ASSUME L = {}
      PROVE  FALSE
  <2>1. In(L) = {} /\ Total(v, L) = 0
    BY <1>3, <1>5, TotalIs
  <2> QED
    BY <1>2, <1>4, <2>1, TotalIs
<1>6. PICK k : k \in L
  BY <1>5
<1>7. L \ {k} \in SUBSET K /\ L \ {k} \notin Odd
  BY <1>3, <1>4, <1>6, Rest
<1>8. \A j \in L : v[j] \in Int
  <2>1. \A j \in L : InPart(S, part, j) \in SUBSET S /\ v[j] = Total(w, InPart(S, part, j))
    BY <1>4 DEF InPart
  <2> QED
    BY <1>2, <2>1
<1>9. Total(v, L) = v[k] + Total(v, L \ {k})
  BY <1>3, <1>4, <1>6, <1>8, TotalWithout
<1>10. PICK A : A = InPart(S, part, k)
  OBVIOUS
<1>11. In(L) = A \cup In(L \ {k}) /\ A \cap In(L \ {k}) = {}
       /\ A \in SUBSET S /\ In(L \ {k}) \in SUBSET S
  BY <1>6, <1>10 DEF InPart
<1>12. Total(w, In(L)) = Total(w, A) + Total(w, In(L \ {k}))
  BY <1>2, <1>11, TotalOfBoth
<1>13. v[k] = Total(w, A) /\ Total(v, L \ {k}) = Total(w, In(L \ {k}))
  BY <1>4, <1>6, <1>7, <1>10
<1> QED
  BY <1>4, <1>9, <1>12, <1>13

\* What the members of a set of rows share, as a total.
LEMMA SharedIsTotal ==
    ASSUME NEW rows, IsFiniteSet(rows), NEW w, \A x \in rows : w[x] = x.shared
    PROVE  SharedBy(rows) = Total(w, rows)
<1> DEFINE Shares(g) == g = [s \in SUBSET rows |-> IF s = {} THEN 0 ELSE First(s).shared + g[s \ {First(s)}]]
<1>1. PICK g : g = (CHOOSE a : Adds(w, a, rows)) /\ Adds(w, g, rows)
  BY AddsExists
<1>2. Adds(w, g, rows)
  BY <1>1
<1>3. \A s \in SUBSET rows : s # {} => w[First(s)] = First(s).shared
  BY DEF First
<1>4. Shares(g)
  BY <1>3, <1>2 DEF Adds
<1>5. PICK h : h = (CHOOSE a : Shares(a)) /\ Shares(h)
  BY <1>4
<1>6. Shares(h)
  BY <1>5
<1>7. Adds(w, h, rows)
  BY <1>3, <1>6 DEF Adds
<1>8. h[rows] = g[rows]
  BY <1>7, <1>2, AddsAgree
<1>9. SharedBy(rows) = (CHOOSE a : Shares(a))[rows]
  BY DEF SharedBy, MapThenSumSet, MapThenFoldSet, First
<1> QED
  BY <1>1, <1>5, <1>8, <1>9 DEF Total

\* What a function adds up to.
LEMMA SumIsTotal ==
    ASSUME NEW totals
    PROVE  SumOver(totals) = Total(totals, DOMAIN totals)
  BY DEF SumOver, MapThenSumSet, MapThenFoldSet, Total, Adds, First

\* What is delivered to the buildings together is what was delivered.
LEMMA DeliveredInAll ==
    ASSUME NEW points, NEW rows, IsFiniteSet(rows), NEW f \in Flows,
           IsFiniteSet({points[p].house : p \in DOMAIN points}),
           \A x \in rows : x.shared \in Nat /\ x.point \in DOMAIN points
    PROVE  SumOver(Delivered(points, rows)[f]) = SharedBy({x \in rows : x.flow = f})
<1> DEFINE K == {points[p].house : p \in DOMAIN points}
           S == {x \in rows : x.flow = f}
           w == [x \in rows |-> x.shared]
           part == [x \in rows |-> points[x.point].house]
           v == [h \in K |-> SharedBy({x \in rows : x.flow = f /\ points[x.point].house = h})]
<1>1. \A s \in SUBSET rows : IsFiniteSet(s) /\ SharedBy(s) = Total(w, s)
  <2> TAKE s \in SUBSET rows
  <2>1. IsFiniteSet(s) /\ \A x \in s : w[x] = x.shared
    BY FS_Subset
  <2> QED
    BY <2>1, SharedIsTotal
<1>2. Delivered(points, rows)[f] = v
  BY DEF Delivered
<1>3. SumOver(v) = Total(v, K)
  BY SumIsTotal
<1>4. \A h \in K : v[h] = Total(w, InPart(S, part, h))
  <2> TAKE h \in K
  <2>1. {x \in rows : x.flow = f /\ points[x.point].house = h} = InPart(S, part, h)
    BY DEF InPart
  <2>2. InPart(S, part, h) \in SUBSET rows
    BY DEF InPart
  <2> QED
    BY <1>1, <2>1, <2>2
<1>5. \A x \in S : w[x] \in Nat /\ part[x] \in K
  OBVIOUS
<1>6. IsFiniteSet(S) /\ IsFiniteSet(K) /\ SharedBy(S) = Total(w, S)
  BY <1>1
<1> HIDE DEF K, S, w, part, v
<1>7. Total(v, K) = Total(w, S)
  BY <1>4, <1>5, <1>6, TotalOfParts
<1> QED
  BY <1>2, <1>3, <1>6, <1>7 DEF S

-----------------------------------------------------------------------------

\* A point of the register.
Point == [ours : {TRUE, Unset}, house : Houses \cup {Unset}, flows : (SUBSET Flows) \cup {Unset}]

\* Tables as a run may have seen them.
StateHolds(s) ==
    /\ \A p \in DOMAIN s.register : s.register[p] \in Point
    /\ IsFiniteSet(s.meter)
    /\ \A x \in s.meter : x.flow \in Flows /\ x.shared \in Nat \cup {Unset}

RegisterTypes ==
    /\ StateHolds(Stored)
    /\ DOMAIN metering_points \subseteq MeterIds
    /\ \A x \in meter : x.point \in DOMAIN metering_points /\ x.document \in saved
    /\ imported \subseteq saved /\ saved \subseteq Documents
    /\ membership \in [Houses -> {"invited", "confirmed"}]
    /\ billingRun = [r \in Runs |-> billingRun[r]]

\* What a run holds follows from the tables as they stood when it began.
RunHolds(run) ==
    \/ run = NoRun
    \/ run.at = "refused"
    \/ run.at = "loaded" /\ WholeMonth(run)
    \/ /\ run.at \in {"points", "readings"}
       /\ StateHolds(run.began) /\ run.points = PointsOf(run.began)
       /\ run.at = "readings" => run.readings = ReadingsOf(run.began)

RunsFollow == \A r \in Runs : RunHolds(billingRun[r])

\* The inductive invariant behind MonthIsWhole.
GateInv == RegisterTypes /\ RunsFollow

\* A row of the meter that the gate has found nothing to say against.
LEMMA SoundRow ==
    ASSUME NEW points, NEW x, RowDefects(points, x) = {}
    PROVE  /\ x.point \in Billable(points)
           /\ x.sound /\ x.shared # Unset /\ x.at \in Grid
           /\ x.point \in Declared(points) => x.flow \in points[x.point].flows
<1>1. x.point \in Billable(points)
  BY DEF RowDefects
<1>2. RowDefects(points, x) =
        {kind \in {"unsound", "unexpected_direction", "missing_vnb_allocation", "misaligned_interval"} :
            \/ kind = "unsound" /\ ~x.sound
            \/ /\ kind = "unexpected_direction"
               /\ x.point \in Declared(points) => x.flow \notin points[x.point].flows
            \/ kind = "missing_vnb_allocation" /\ x.shared = Unset
            \/ kind = "misaligned_interval" /\ x.at \notin Grid}
  BY <1>1 DEF RowDefects
<1>3. "unsound" \notin RowDefects(points, x) /\ "unexpected_direction" \notin RowDefects(points, x)
      /\ "missing_vnb_allocation" \notin RowDefects(points, x)
      /\ "misaligned_interval" \notin RowDefects(points, x)
  OBVIOUS
<1> QED
  BY <1>1, <1>2, <1>3

\* What a run reads that has nothing against it.
LEMMA NoProblems ==
    ASSUME NEW run, NEW unassigned, Problems(run, unassigned) = {}
    PROVE  /\ unassigned = {}
           /\ \A p \in DOMAIN run.points : p \in Billable(run.points) /\ p \in Declared(run.points)
           /\ \A x \in run.readings : RowDefects(run.points, x) = {}
           /\ \A p \in DOMAIN run.points : \A f \in run.points[p].flows, t \in Grid :
                  \E x \in run.readings : ReadingKey(x) = <<p, f, t>>
<1>1. _participant_map(run.points) = {} /\ {<<"unassigned_point", p>> : p \in unassigned} = {}
      /\ run.readings # {} /\ _check_rows(run.points, run.readings) = {}
  BY DEF Problems
<1>2. unassigned = {}
  BY <1>1
<1>3. ASSUME NEW p \in DOMAIN run.points
      PROVE  p \in Billable(run.points) /\ p \in Declared(run.points)
  <2>1. /\ \A q \in {q \in DOMAIN run.points : run.points[q].house = Unset} : FALSE
        /\ \A q \in {q \in DOMAIN run.points :
                       run.points[q].house # Unset /\ run.points[q].member # "confirmed"} : FALSE
        /\ \A q \in Billable(run.points) \ Declared(run.points) : FALSE
    BY <1>1 DEF _participant_map
  <2> QED
    BY <2>1 DEF Billable
<1> DEFINE rows == {x \in run.readings : x.point \in Billable(run.points) /\ x.at \in Grid}
           found == UNION {{<<kind, x.point>> : kind \in RowDefects(run.points, x)} : x \in run.readings}
<1>4. found = {} /\ _check_gaps(run.points, rows) = {}
  <2>1. _check_rows(run.points, run.readings) = found \cup _check_gaps(run.points, rows)
    BY DEF _check_rows
  <2> HIDE DEF found, rows
  <2> QED
    BY <1>1, <2>1
<1>5. ASSUME NEW x \in run.readings
      PROVE  RowDefects(run.points, x) = {}
  <2>1. {<<kind, x.point>> : kind \in RowDefects(run.points, x)} = {}
    BY <1>4
  <2> QED
    BY <2>1
<1>6. ASSUME NEW p \in DOMAIN run.points, NEW f \in run.points[p].flows, NEW t \in Grid
      PROVE  \E x \in run.readings : ReadingKey(x) = <<p, f, t>>
  <2> HIDE DEF rows
  <2>1. {<<"missing_interval", q>> : q \in {q \in Declared(run.points) :
            \E g \in run.points[q].flows, u \in Grid : <<q, g, u>> \notin {ReadingKey(x) : x \in rows}}} = {}
    BY <1>4 DEF _check_gaps
  <2>2. <<p, f, t>> \in {ReadingKey(x) : x \in rows}
    BY <1>3, <2>1
  <2> QED
    BY <2>2 DEF rows
<1> QED
  BY <1>2, <1>3, <1>5, <1>6

\* A run that passes the gate is about a whole month.
LEMMA PassingIsWhole ==
    ASSUME NEW run, NEW next, StateHolds(run.began), run.points = PointsOf(run.began),
           run.readings = ReadingsOf(run.began), Problems(run, UnassignedOf(run.began)) = {},
           Balanced(VnbTotals(run)),
           next = [at |-> "loaded", began |-> run.began, totals |-> VnbTotals(run),
                   calculated |-> run.evidence # Unset,
                   physical |-> {[point |-> x.point, flow |-> x.flow, at |-> x.at] : x \in run.readings}]
    PROVE  WholeMonth(next)
<1> DEFINE s == run.began
           points == run.points
           of(p) == {x \in s.meter : x.point = p}
<1>1. /\ UnassignedOf(s) = {}
      /\ \A p \in DOMAIN points : p \in Billable(points) /\ p \in Declared(points)
      /\ \A x \in run.readings : RowDefects(points, x) = {}
      /\ \A p \in DOMAIN points : \A f \in points[p].flows, t \in Grid :
             \E x \in run.readings : ReadingKey(x) = <<p, f, t>>
  BY NoProblems
<1>2. Belonging(s) = Assigned(s) /\ DOMAIN points = Assigned(s)
  BY <1>1 DEF Belonging, PointsOf
<1>3. run.readings = {x \in s.meter : x.point \in Belonging(s)}
  BY <1>2 DEF ReadingsOf
<1>4. \A p \in Belonging(s) :
          /\ p \in DOMAIN s.register
          /\ points[p].house = s.register[p].house /\ points[p].flows = s.register[p].flows
          /\ s.register[p].house # Unset => points[p].member = s.membership[s.register[p].house]
  <2> TAKE p \in Belonging(s)
  <2>1. p \in Assigned(s) /\ p \in DOMAIN s.register
    BY <1>2 DEF Assigned
  <2>2. points[p] = [house |-> s.register[p].house, flows |-> s.register[p].flows,
                     member |-> IF s.register[p].house = Unset THEN "missing"
                                ELSE s.membership[s.register[p].house]]
    BY <2>1 DEF PointsOf
  <2> QED
    BY <2>1, <2>2
<1>5. \A x \in run.readings : x.sound /\ x.shared # Unset /\ x.at \in Grid /\ x.flow \in points[x.point].flows
  BY <1>1, <1>2, <1>3, SoundRow
<1>6. ASSUME NEW p \in Belonging(s)
      PROVE  /\ s.register[p].house # Unset /\ s.membership[s.register[p].house] = "confirmed"
             /\ {ReadingKey(x) : x \in of(p)} = {p} \X s.register[p].flows \X Grid
             /\ \A x \in of(p) : x.sound
  <2>1. p \in Billable(points)
    BY <1>1, <1>2
  <2>2. points[p].house # Unset /\ points[p].member = "confirmed"
    BY <2>1 DEF Billable
  <2>3. \A x \in of(p) : x \in run.readings /\ x.point = p
    BY <1>3
  <2>4. \A x \in of(p) : ReadingKey(x) \in {p} \X s.register[p].flows \X Grid
    BY <1>4, <1>5, <2>3 DEF ReadingKey
  <2>5. ASSUME NEW key \in {p} \X s.register[p].flows \X Grid
        PROVE  key \in {ReadingKey(x) : x \in of(p)}
    <3>1. PICK f \in s.register[p].flows, t \in Grid : key = <<p, f, t>>
      BY <2>5
    <3>2. PICK x \in run.readings : ReadingKey(x) = <<p, f, t>>
      BY <1>1, <1>2, <1>4
    <3>3. x \in of(p)
      BY <1>3, <3>2 DEF ReadingKey
    <3> QED
      BY <3>1, <3>2, <3>3
  <2>6. {ReadingKey(x) : x \in of(p)} = {p} \X s.register[p].flows \X Grid
    BY <2>4, <2>5
  <2> QED
    BY <1>4, <1>5, <2>2, <2>3, <2>6
<1>7. {<<x.point, x.flow, x.at>> : x \in next.physical} = {ReadingKey(x) : x \in run.readings}
  <2>1. next.physical = {[point |-> x.point, flow |-> x.flow, at |-> x.at] : x \in run.readings}
    OBVIOUS
  <2> DEFINE Slot(x) == [point |-> x.point, flow |-> x.flow, at |-> x.at]
  <2>2. \A x \in run.readings : /\ Slot(x) \in next.physical
                                /\ ReadingKey(x) = <<Slot(x).point, Slot(x).flow, Slot(x).at>>
    BY <2>1 DEF ReadingKey
  <2>3. \A y \in next.physical : \E x \in run.readings : y = Slot(x)
    BY <2>1
  <2> HIDE DEF Slot
  <2>4. ASSUME NEW y \in next.physical
        PROVE  <<y.point, y.flow, y.at>> \in {ReadingKey(x) : x \in run.readings}
    <3>1. PICK x \in run.readings : y = Slot(x)
      BY <2>3
    <3>2. <<y.point, y.flow, y.at>> = ReadingKey(x)
      BY <2>2, <3>1
    <3> QED
      BY <3>2
  <2>5. ASSUME NEW x \in run.readings
        PROVE  ReadingKey(x) \in {<<y.point, y.flow, y.at>> : y \in next.physical}
    BY <2>2
  <2>6. PICK taken : taken = next.physical
    OBVIOUS
  <2>7. {<<y.point, y.flow, y.at>> : y \in taken} = {ReadingKey(x) : x \in run.readings}
    BY <2>4, <2>5, <2>6
  <2> QED
    BY <2>6, <2>7
<1>8. ASSUME ~next.calculated, NEW f \in Flows
      PROVE  SumOver(next.totals[f]) = SharedBy({x \in run.readings : x.flow = f})
  <2>1. next.totals = Delivered(points, run.readings)
    BY <1>8 DEF VnbTotals
  <2>2. \A x \in run.readings : x.shared \in Nat /\ x.point \in DOMAIN points
    BY <1>2, <1>3, <1>5 DEF StateHolds
  <2>3. IsFiniteSet({points[p].house : p \in DOMAIN points})
    <3>1. ASSUME NEW p \in DOMAIN points
          PROVE  points[p].house \in Houses
      <4>1. p \in Belonging(s) /\ p \in Billable(points)
        BY <1>1, <1>2
      <4>2. s.register[p] \in Point /\ points[p].house = s.register[p].house
        BY <1>4, <4>1 DEF StateHolds
      <4>3. points[p].house # Unset
        BY <4>1 DEF Billable
      <4> QED
        BY <4>2, <4>3 DEF Point
    <3> QED
      BY <3>1, FS_Subset, RegisterAssumption
  <2>4. IsFiniteSet(run.readings)
    BY <1>3, FS_Subset DEF StateHolds
  <2> QED
    BY <2>1, <2>2, <2>3, <2>4, DeliveredInAll
<1>9. \A f \in Flows : {x \in run.readings : x.flow = f} = {x \in s.meter : x.point \in Belonging(s) /\ x.flow = f}
  BY <1>3
<1>10. next.began = s /\ next.totals = VnbTotals(run)
  OBVIOUS
<1> HIDE DEF points
<1>11. /\ \A p \in Belonging(next.began) :
             /\ next.began.register[p].house # Unset
             /\ next.began.membership[next.began.register[p].house] = "confirmed"
             /\ {ReadingKey(x) : x \in {x \in next.began.meter : x.point = p}}
                    = {p} \X next.began.register[p].flows \X Grid
             /\ \A x \in {x \in next.began.meter : x.point = p} : x.sound
       /\ Balanced(next.totals)
  BY <1>6, <1>10
<1>12. {<<x.point, x.flow, x.at>> : x \in next.physical}
           = {ReadingKey(x) : x \in {x \in next.began.meter : x.point \in Belonging(next.began)}}
  BY <1>3, <1>7, <1>10
<1>13. ~next.calculated =>
          \A f \in Flows : SumOver(next.totals[f])
              = SharedBy({x \in next.began.meter : x.point \in Belonging(next.began) /\ x.flow = f})
  BY <1>8, <1>9, <1>10
<1> QED
  BY <1>11, <1>12, <1>13 DEF WholeMonth

-----------------------------------------------------------------------------

\* The tables as a predicate on each of them.
LEMMA StoredHolds ==
    StateHolds(Stored) <=>
        /\ \A p \in DOMAIN metering_points : metering_points[p] \in Point
        /\ IsFiniteSet(meter)
        /\ \A x \in meter : x.flow \in Flows /\ x.shared \in Nat \cup {Unset}
  BY DEF StateHolds, Stored

LEMMA GateInitHolds == GateInit => GateInv
<1>1. ASSUME GateInit
      PROVE  GateInv
  <2>1. StateHolds(Stored)
    BY <1>1, FS_EmptySet DEF GateInit, StateHolds, Stored
  <2>2. RegisterTypes
    BY <1>1, <2>1 DEF GateInit, RegisterTypes
  <2>3. RunsFollow
    BY <1>1 DEF GateInit, RunsFollow, RunHolds
  <2> QED
    BY <2>2, <2>3 DEF GateInv
<1> QED
  BY <1>1

\* A point known or not yet known.
LEMMA EntryIsPoint ==
    ASSUME RegisterTypes, NEW p
    PROVE  EntryOf(p) \in Point
<1>1. Stub \in Point
  BY DEF Stub, Point
<1> QED
  BY <1>1, StoredHolds DEF RegisterTypes, EntryOf

\* The participant list.
LEMMA ListStep ==
    ASSUME GateInv, NEW l \in Lists, upsert_metering_points(l)
    PROVE  GateInv'
<1> DEFINE entries == _read_points(l)
           pick(p) == CHOOSE e \in entries : e.point = p
<1>1. /\ metering_points' = [p \in DOMAIN metering_points \cup {e.point : e \in entries} |->
              IF \E e \in entries : e.point = p THEN Enriched(EntryOf(p), pick(p)) ELSE EntryOf(p)]
      /\ UNCHANGED <<meter, saved, imported, membership, billingRun>>
  BY DEF upsert_metering_points
<1>2. \A e \in entries : /\ e.point \in MeterIds /\ e.ours \in {TRUE, Unset}
                         /\ e.house \in Houses \cup {Unset}
                         /\ e.flows \in (SUBSET Flows) \cup {Unset}
  BY RegisterAssumption DEF _read_points
<1>3. ASSUME NEW p, NEW e \in entries
      PROVE  Enriched(EntryOf(p), e) \in Point
  <2>1. EntryOf(p) \in Point
    BY EntryIsPoint DEF GateInv
  <2> QED
    BY <1>2, <2>1 DEF Enriched, Coalesce, Point
<1>4. ASSUME NEW p \in DOMAIN metering_points'
      PROVE  metering_points'[p] \in Point
  <2>1. (\E e \in entries : e.point = p) => pick(p) \in entries
    OBVIOUS
  <2>2. EntryOf(p) \in Point
    BY EntryIsPoint DEF GateInv
  <2> HIDE DEF pick, entries
  <2> QED
    BY <1>1, <1>3, <2>1, <2>2
<1>5. DOMAIN metering_points' = DOMAIN metering_points \cup {e.point : e \in entries}
  BY <1>1
<1>6. StateHolds(Stored)'
  BY <1>1, <1>4, StoredHolds DEF GateInv, RegisterTypes, StateHolds, Stored
<1>7. RegisterTypes'
  BY <1>1, <1>2, <1>5, <1>6 DEF GateInv, RegisterTypes
<1>8. RunsFollow'
  BY <1>1 DEF GateInv, RunsFollow
<1> QED
  BY <1>7, <1>8 DEF GateInv

\* The rows of a document, under its name.
LEMMA RowsOfDocument ==
    ASSUME NEW d \in Documents, NEW rows, rows = RowsSaved[d]
    PROVE  /\ IsFiniteSet(rows)
           /\ \A x \in rows : /\ x.document = d /\ x.point \in MeterIds
                              /\ x.flow \in Flows /\ x.shared \in Nat \cup {Unset}
<1> DEFINE N == DOMAIN RowsOf[d]
           Row(x) == [document |-> d, point |-> x.point, flow |-> x.flow, at |-> x.at,
                      shared |-> x.shared, sound |-> x.sound]
           last == {i \in N : \A j \in N : ReadingKey(RowsOf[d][j]) = ReadingKey(RowsOf[d][i]) => j <= i}
           row == [i \in last |-> Row(RowsOf[d][i])]
<1>1. IsFiniteSet(last)
  <2>1. N = 1 .. Len(RowsOf[d]) /\ 1 \in Int /\ Len(RowsOf[d]) \in Int
    BY RegisterAssumption
  <2>2. IsFiniteSet(N)
    BY <2>1, FS_Interval
  <2> QED
    BY <2>2, FS_Subset
<1>2. rows = {row[i] : i \in last}
  BY DEF RowsSaved, _dedupe
<1>3. row \in Surjection(last, rows)
  BY <1>2 DEF Surjection
<1>4. IsFiniteSet(rows)
  BY <1>1, <1>3, FS_Surjection
<1>5. ASSUME NEW i \in last
      PROVE  /\ row[i].document = d /\ row[i].point \in MeterIds
             /\ row[i].flow \in Flows /\ row[i].shared \in Nat \cup {Unset}
  BY RegisterAssumption
<1> QED
  BY <1>2, <1>4, <1>5

\* The readings of a delivery.
LEMMA DocumentStep ==
    ASSUME GateInv, NEW d \in Documents, save_metering_point_readings(d)
    PROVE  GateInv'
<1>1. PICK rows : rows = RowsSaved[d]
  OBVIOUS
<1>2. /\ saved' = saved \cup {d}
      /\ metering_points' = [p \in DOMAIN metering_points \cup {x.point : x \in rows} |-> EntryOf(p)]
      /\ meter' = {x \in meter : \A new \in rows : ReadingKey(new) # ReadingKey(x)} \cup rows
      /\ UNCHANGED <<imported, membership, billingRun>>
  BY <1>1 DEF save_metering_point_readings
<1>3. /\ IsFiniteSet(rows)
      /\ \A x \in rows : /\ x.document = d /\ x.point \in MeterIds
                         /\ x.flow \in Flows /\ x.shared \in Nat \cup {Unset}
  BY <1>1, RowsOfDocument
<1>4. /\ IsFiniteSet(meter)
      /\ \A x \in meter : x.flow \in Flows /\ x.shared \in Nat \cup {Unset}
  BY StoredHolds DEF GateInv, RegisterTypes
<1>5. IsFiniteSet(meter')
  <2>1. IsFiniteSet({x \in meter : \A new \in rows : ReadingKey(new) # ReadingKey(x)})
    BY <1>4, FS_Subset
  <2> QED
    BY <1>2, <1>3, <2>1, FS_Union
<1>6. \A p \in DOMAIN metering_points' : metering_points'[p] \in Point
  BY <1>2, EntryIsPoint DEF GateInv
<1>7. StateHolds(Stored)'
  BY <1>2, <1>3, <1>4, <1>5, <1>6 DEF StateHolds, Stored
<1>8. RegisterTypes'
  BY <1>2, <1>3, <1>7 DEF GateInv, RegisterTypes
<1>9. RunsFollow'
  BY <1>2 DEF GateInv, RunsFollow
<1> QED
  BY <1>8, <1>9 DEF GateInv

\* Its row in the ledger.
LEMMA LedgerStep ==
    ASSUME GateInv, NEW d \in Documents, record_sdat_import(d)
    PROVE  GateInv'
<1>1. /\ d \in saved /\ imported' = imported \cup {d}
      /\ UNCHANGED <<metering_points, meter, saved, membership, billingRun>>
  BY DEF record_sdat_import
<1>2. StateHolds(Stored)'
  BY <1>1, StoredHolds DEF GateInv, RegisterTypes, StateHolds, Stored
<1>3. RegisterTypes'
  BY <1>1, <1>2 DEF GateInv, RegisterTypes
<1>4. RunsFollow'
  BY <1>1 DEF GateInv, RunsFollow
<1> QED
  BY <1>3, <1>4 DEF GateInv

\* A run takes a step on its own.
LEMMA RunMoves ==
    ASSUME GateInv, NEW r \in Runs, NEW next, RunHolds(next),
           billingRun' = [billingRun EXCEPT ![r] = next],
           UNCHANGED <<metering_points, meter, saved, imported, membership>>
    PROVE  GateInv'
<1>1. billingRun' = [q \in Runs |-> IF q = r THEN next ELSE billingRun[q]]
  BY DEF GateInv, RegisterTypes
<1>2. RegisterTypes'
  BY <1>1 DEF GateInv, RegisterTypes, Stored
<1>3. RunsFollow'
  BY <1>1 DEF GateInv, RunsFollow
<1> QED
  BY <1>2, <1>3 DEF GateInv

LEMMA BeginRunStep ==
    ASSUME GateInv, NEW r \in Runs, NEW e, BeginRun(r, e)
    PROVE  GateInv'
<1> DEFINE next == [at |-> "points", evidence |-> e, began |-> Stored, points |-> PointsOf(SeenBy(r))]
<1>1. SeenBy(r) = Stored
  BY DEF BeginRun, SeenBy
<1>2. RunHolds(next)
  BY <1>1 DEF GateInv, RegisterTypes, RunHolds
<1> QED
  BY <1>2, RunMoves DEF BeginRun

LEMMA ReadReadingsStep ==
    ASSUME GateInv, NEW r \in Runs, ReadReadings(r)
    PROVE  GateInv'
<1> DEFINE run == billingRun[r]
           next == [at |-> "readings", evidence |-> run.evidence, began |-> run.began,
                    points |-> run.points, readings |-> ReadingsOf(SeenBy(r))]
<1>1. run.at = "points"
  BY DEF ReadReadings
<1>2. run # NoRun /\ StateHolds(run.began) /\ run.points = PointsOf(run.began)
  BY <1>1 DEF GateInv, RunsFollow, RunHolds, NoRun
<1>3. SeenBy(r) = run.began
  BY <1>2 DEF SeenBy
<1>4. RunHolds(next)
  BY <1>2, <1>3 DEF RunHolds
<1> QED
  BY <1>4, RunMoves DEF ReadReadings

LEMMA LoadStep ==
    ASSUME GateInv, NEW r \in Runs, load_period_frames(r)
    PROVE  GateInv'
<1>1. PICK run : run = billingRun[r]
  OBVIOUS
<1>2. run.at = "readings" /\ UNCHANGED <<metering_points, meter, saved, imported, membership>>
  BY <1>1 DEF load_period_frames
<1>3. StateHolds(run.began) /\ run.points = PointsOf(run.began) /\ run.readings = ReadingsOf(run.began)
  BY <1>1, <1>2 DEF GateInv, RunsFollow, RunHolds, NoRun
<1>4. SeenBy(r) = run.began
  BY <1>1, <1>2 DEF SeenBy, NoRun
<1>5. PICK rejected : rejected = [at |-> "refused"]
  OBVIOUS
<1>6. PICK passed :
        passed = [at |-> "loaded", began |-> run.began, totals |-> VnbTotals(run),
                  calculated |-> run.evidence # Unset,
                  physical |-> {[point |-> x.point, flow |-> x.flow, at |-> x.at] : x \in run.readings}]
  OBVIOUS
<1>7. billingRun' = [billingRun EXCEPT ![r] =
          IF Problems(run, UnassignedOf(run.began)) # {} THEN rejected
          ELSE IF VnbTotals(run) = Unset \/ ~Balanced(VnbTotals(run)) THEN rejected ELSE passed]
  BY <1>1, <1>4, <1>5, <1>6 DEF load_period_frames
<1>8. RunHolds(rejected)
  BY <1>5 DEF RunHolds
<1>9. ASSUME Problems(run, UnassignedOf(run.began)) = {}, Balanced(VnbTotals(run))
      PROVE  RunHolds(passed)
  <2>1. WholeMonth(passed)
    BY <1>3, <1>6, <1>9, PassingIsWhole
  <2> QED
    BY <1>6, <2>1 DEF RunHolds
<1>10. PICK next : next = IF Problems(run, UnassignedOf(run.began)) # {} THEN rejected
                          ELSE IF VnbTotals(run) = Unset \/ ~Balanced(VnbTotals(run)) THEN rejected ELSE passed
  OBVIOUS
<1>11. RunHolds(next)
  BY <1>8, <1>9, <1>10
<1>12. billingRun' = [billingRun EXCEPT ![r] = next]
  BY <1>7, <1>10
<1> QED
  BY <1>2, <1>11, <1>12, RunMoves

LEMMA GateStep == GateInv /\ [GateNext]_gateVars => GateInv'
<1> SUFFICES ASSUME GateInv, [GateNext]_gateVars
             PROVE  GateInv'
  OBVIOUS
<1>1. ASSUME UNCHANGED gateVars
      PROVE  GateInv'
  BY <1>1 DEF gateVars, GateInv, RegisterTypes, RunsFollow, Stored
<1>2. ASSUME NEW h \in Houses, ConfirmMembership(h)
      PROVE  GateInv'
  <2>1. StateHolds(Stored)'
    BY <1>2 DEF ConfirmMembership, GateInv, RegisterTypes, StateHolds, Stored
  <2>2. membership' \in [Houses -> {"invited", "confirmed"}]
    BY <1>2 DEF ConfirmMembership, GateInv, RegisterTypes
  <2> QED
    BY <1>2, <2>1, <2>2 DEF ConfirmMembership, GateInv, RegisterTypes, RunsFollow
<1>3. ASSUME NEW r \in Runs, EndRun(r)
      PROVE  GateInv'
  <2>1. RunHolds(NoRun)
    BY DEF RunHolds
  <2> QED
    BY <1>3, <2>1, RunMoves DEF EndRun
<1> QED
  BY <1>1, <1>2, <1>3, ListStep, DocumentStep, LedgerStep, BeginRunStep, ReadReadingsStep, LoadStep DEF GateNext

\* Points, readings, memberships and runs keep their types.
THEOREM GateTypes == GateSpec => []GateTypeOK
<1>1. GateInv => GateTypeOK
  <2> SUFFICES ASSUME GateInv
               PROVE  GateTypeOK
    OBVIOUS
  <2>1. \A p \in DOMAIN metering_points : p \in MeterIds /\ DOMAIN metering_points[p] = DOMAIN Stub
    BY StoredHolds DEF GateInv, RegisterTypes, Point, Stub
  <2>2. \A r \in Runs : billingRun[r].at \in {"idle", "points", "readings", "refused", "loaded"}
    BY DEF GateInv, RunsFollow, RunHolds, NoRun
  <2> QED
    BY <2>1, <2>2 DEF GateInv, RegisterTypes, GateTypeOK
<1> QED
  BY <1>1, GateInitHolds, GateStep, PTL DEF GateSpec

\* A month that passes the gate is whole, whatever lists, deliveries and
\* memberships change between the queries of the run, for any number of points,
\* documents and runs (billing_readings.py load_period_frames).
THEOREM MonthIsWholeHolds == GateSpec => []MonthIsWhole
<1>1. GateInv => MonthIsWhole
  <2> SUFFICES ASSUME GateInv, NEW r \in Runs, billingRun[r].at = "loaded"
               PROVE  WholeMonth(billingRun[r])
    BY DEF MonthIsWhole
  <2> QED
    BY DEF GateInv, RunsFollow, RunHolds, NoRun
<1> QED
  BY <1>1, GateInitHolds, GateStep, PTL DEF GateSpec

-----------------------------------------------------------------------------

(***************************************************************************)
(* The money of one period: lines are added up as the sums above, amounts  *)
(* are rounded, and approval is shown to accept a draft's lines and no     *)
(* others.                                                                 *)
(***************************************************************************)

\* What lines add up to, as a total.
LEMMA AmountsAreTotal ==
    ASSUME NEW lines, IsFiniteSet(lines), NEW w, \A l \in lines : w[l] = l.amount
    PROVE  Amounts(lines) = Total(w, lines)
<1> DEFINE Sums(g) == g = [s \in SUBSET lines |-> IF s = {} THEN 0 ELSE First(s).amount + g[s \ {First(s)}]]
<1>1. PICK g : g = (CHOOSE a : Adds(w, a, lines)) /\ Adds(w, g, lines)
  BY AddsExists
<1>2. Adds(w, g, lines)
  BY <1>1
<1>3. \A s \in SUBSET lines : s # {} => w[First(s)] = First(s).amount
  BY DEF First
<1>4. Sums(g)
  BY <1>2, <1>3 DEF Adds
<1>5. PICK h : h = (CHOOSE a : Sums(a)) /\ Sums(h)
  BY <1>4
<1>6. Sums(h)
  BY <1>5
<1>7. Adds(w, h, lines)
  BY <1>3, <1>6 DEF Adds
<1>8. h[lines] = g[lines]
  BY <1>2, <1>7, AddsAgree
<1>9. Amounts(lines) = (CHOOSE a : Sums(a))[lines]
  BY DEF Amounts, MapThenSumSet, MapThenFoldSet, First
<1> QED
  BY <1>1, <1>5, <1>8, <1>9 DEF Total

\* A total of one.
LEMMA TotalOfOne ==
    ASSUME NEW w, NEW x, w[x] \in Int
    PROVE  Total(w, {x}) = w[x]
<1>1. IsFiniteSet({x}) /\ {x} \ {x} = {} /\ IsFiniteSet({})
  BY FS_Singleton, FS_EmptySet
<1>2. Total(w, {x}) = w[x] + Total(w, {x} \ {x})
  BY <1>1, TotalWithout
<1>3. Total(w, {}) = 0
  BY <1>1, TotalIs
<1>4. \A i \in Int : i + 0 = i
  OBVIOUS
<1> QED
  BY <1>1, <1>2, <1>3, <1>4

\* The quantity of a type that a member has one line of.
LEMMA QuantityOfOne ==
    ASSUME NEW lines, NEW l, lines = {l}, l.quantity \in Int
    PROVE  MapThenSumSet(LAMBDA k : k.quantity, lines) = l.quantity
<1> DEFINE w == [k \in {l} |-> k.quantity]
           Sums(g) == g = [s \in SUBSET lines |-> IF s = {} THEN 0 ELSE First(s).quantity + g[s \ {First(s)}]]
<1>1. IsFiniteSet(lines)
  BY FS_Singleton
<1>2. PICK g : Adds(w, g, lines)
  BY <1>1, AddsExists
<1>3. \A s \in SUBSET lines : s # {} => First(s) = l /\ w[First(s)] = First(s).quantity
  BY DEF First
<1>4. Sums(g)
  BY <1>2, <1>3 DEF Adds
<1> HIDE DEF Sums
<1>5. PICK h : h = (CHOOSE a : Sums(a)) /\ Sums(h)
  BY <1>4
<1> USE DEF Sums
<1>6. Sums(h)
  BY <1>5
<1>7. h[lines] = First(lines).quantity + h[lines \ {First(lines)}] /\ h[{}] = 0
  BY <1>6
<1>8. First(lines) = l /\ lines \ {First(lines)} = {}
  BY <1>3
<1>9. h[lines] = l.quantity + 0
  BY <1>7, <1>8
<1>10. MapThenSumSet(LAMBDA k : k.quantity, lines) = (CHOOSE a : Sums(a))[lines]
  BY DEF MapThenSumSet, MapThenFoldSet, First
<1> QED
  BY <1>5, <1>9, <1>10

\* What every member is bounded by bounds the total.
LEMMA TotalBound ==
    ASSUME NEW S, IsFiniteSet(S), NEW w, NEW c, NEW q,
           \A x \in S : w[x] \in Int /\ c[x] \in Int /\ q[x] \in Int,
           NEW a \in Int, NEW b \in Int, NEW d \in Int,
           \A x \in S : a * w[x] <= b * c[x] - b * q[x] + d
    PROVE  a * Total(w, S) <= b * Total(c, S) - b * Total(q, S) + d * Cardinality(S)
<1> DEFINE Odd == {s \in SUBSET S :
               ~(a * Total(w, s) <= b * Total(c, s) - b * Total(q, s) + d * Cardinality(s))}
<1>1. SUFFICES ASSUME Odd # {}
               PROVE  FALSE
  OBVIOUS
<1>2. \A s \in SUBSET S : /\ IsFiniteSet(s) /\ Cardinality(s) \in Int
                          /\ Total(w, s) \in Int /\ Total(c, s) \in Int /\ Total(q, s) \in Int
  <2> TAKE s \in SUBSET S
  <2>1. IsFiniteSet(s)
    BY FS_Subset
  <2>2. Cardinality(s) \in Nat
    BY <2>1, FS_CardinalityType
  <2>3. \A x \in s : w[x] \in Int /\ c[x] \in Int /\ q[x] \in Int
    OBVIOUS
  <2>4. Total(w, s) \in Int
    BY <2>1, <2>3, TotalType
  <2>5. Total(c, s) \in Int
    BY <2>1, <2>3, TotalType
  <2>6. Total(q, s) \in Int
    BY <2>1, <2>3, TotalType
  <2> QED
    BY <2>1, <2>2, <2>4, <2>5, <2>6
<1>3. PICK s \in Odd : \A u \in Odd : ~(Cardinality(u) < Cardinality(s))
  BY <1>1, <1>2, Smallest
<1>4. ~(a * Total(w, s) <= b * Total(c, s) - b * Total(q, s) + d * Cardinality(s))
  BY <1>3
<1>5. ASSUME s = {}
      PROVE  FALSE
  <2>1. Total(w, s) = 0 /\ Total(c, s) = 0 /\ Total(q, s) = 0 /\ Cardinality(s) = 0
    BY <1>5, FS_EmptySet, TotalIs
  <2> QED
    BY <1>4, <2>1
<1>6. PICK x : x \in s
  BY <1>5
<1>7. PICK r : r = s \ {x}
  OBVIOUS
<1>8. r \in SUBSET S /\ r \notin Odd
  BY <1>2, <1>3, <1>6, <1>7, Rest
<1>9. a * Total(w, r) <= b * Total(c, r) - b * Total(q, r) + d * Cardinality(r)
  BY <1>8
<1>10. IsFiniteSet(s) /\ \A y \in s : w[y] \in Int /\ c[y] \in Int /\ q[y] \in Int
  BY <1>2, <1>3
<1>11. Total(w, s) = w[x] + Total(w, r)
  BY <1>6, <1>7, <1>10, TotalWithout
<1>12. Total(c, s) = c[x] + Total(c, r)
  BY <1>6, <1>7, <1>10, TotalWithout
<1>13. Total(q, s) = q[x] + Total(q, r)
  BY <1>6, <1>7, <1>10, TotalWithout
<1>14. Cardinality(s) = 1 + Cardinality(r)
  BY <1>2, <1>6, <1>7, <1>8, <1>10, FS_RemoveElement
<1>15. PICK w1, c1, q1 \in Int : w1 = w[x] /\ c1 = c[x] /\ q1 = q[x] /\ a * w1 <= b * c1 - b * q1 + d
  BY <1>6, <1>10
<1>16. PICK w2, c2, q2, n \in Int : /\ w2 = Total(w, r) /\ c2 = Total(c, r) /\ q2 = Total(q, r)
                                   /\ n = Cardinality(r) /\ a * w2 <= b * c2 - b * q2 + d * n
  BY <1>2, <1>8, <1>9
<1>17. /\ a * (w1 + w2) = a * w1 + a * w2 /\ b * (c1 + c2) = b * c1 + b * c2
       /\ b * (q1 + q2) = b * q1 + b * q2 /\ d * (1 + n) = d + d * n
  OBVIOUS
<1>18. a * (w1 + w2) <= b * (c1 + c2) - b * (q1 + q2) + d * (1 + n)
  <2>1. PICK aw1, aw2, bc1, bc2, bq1, bq2, dn \in Int :
           /\ aw1 = a * w1 /\ aw2 = a * w2 /\ bc1 = b * c1 /\ bc2 = b * c2
           /\ bq1 = b * q1 /\ bq2 = b * q2 /\ dn = d * n
    OBVIOUS
  <2>2. aw1 <= bc1 - bq1 + d /\ aw2 <= bc2 - bq2 + dn
    BY <1>15, <1>16, <2>1
  <2>3. aw1 + aw2 <= (bc1 + bc2) - (bq1 + bq2) + (d + dn)
    BY <2>2
  <2> QED
    BY <1>17, <2>1, <2>3
<1> QED
  BY <1>4, <1>11, <1>12, <1>13, <1>14, <1>15, <1>16, <1>18

-----------------------------------------------------------------------------
(* Quantities and their rounding.                                          *)

\* Rounding half up errs by half a unit at most.
LEMMA RoundingError ==
    ASSUME NEW x \in Nat, NEW unit \in Nat \ {0}
    PROVE  /\ HalfUp(x, unit) \in Nat
           /\ 2 * unit * HalfUp(x, unit) <= 2 * x + unit
           /\ 2 * x - unit <= 2 * unit * HalfUp(x, unit)
<1> DEFINE n == 2 * x + unit
           k == 2 * unit
           h == n \div k
<1>1. n \in Nat /\ k \in Nat \ {0}
  OBVIOUS
<1>2. \A i \in Nat, j \in Nat \ {0} : /\ i \div j \in Nat /\ i % j \in 0 .. j - 1
                                     /\ i = (j * (i \div j)) + (i % j)
  OBVIOUS
<1>3. h \in Nat /\ n % k \in 0 .. k - 1 /\ n = (k * h) + (n % k)
  BY <1>1, <1>2
<1>4. PICK kh \in Int : kh = k * h
  BY <1>1, <1>3
<1>5. kh <= n /\ n - k <= kh
  BY <1>1, <1>3, <1>4
<1>6. 2 * unit * h = kh
  BY <1>4
<1>7. HalfUp(x, unit) = h
  BY DEF HalfUp
<1> QED
  BY <1>3, <1>5, <1>6, <1>7

\* The smaller of two.
LEMMA SmallerType == \A x, y \in Nat : Smaller(x, y) \in Nat /\ Smaller(x, y) <= x
  BY DEF Smaller

\* A quotient of natural numbers, with nothing for nothing.
LEMMA QuotientType == \A x \in Nat, y \in Nat \ {0} : x \div y \in Nat
  OBVIOUS

\* What members have together.
LEMMA SumOfIs ==
    ASSUME NEW f, IsFiniteSet(DOMAIN f), \A p \in DOMAIN f : f[p] \in Nat
    PROVE  SumOf(f) = Total(f, DOMAIN f) /\ SumOf(f) \in Nat
<1>1. SumOf(f) = Total(f, DOMAIN f)
  BY DEF SumOf, MapThenSumSet, MapThenFoldSet, Total, Adds, First
<1> QED
  BY <1>1, TotalNat

\* What the quarters add up to is a natural number.
LEMMA OverSlotsType ==
    ASSUME NEW split, \A t \in Quarters : split[t] \in [Members -> Nat]
    PROVE  OverSlots(split) \in [Members -> Nat]
<1> SUFFICES ASSUME NEW p \in Members
             PROVE  MapThenSumSet(LAMBDA t : split[t][p], Quarters) \in Nat
  BY DEF OverSlots
<1> DEFINE w == [t \in Quarters |-> split[t][p]]
           Sums(g) == g = [s \in SUBSET Quarters |->
                              IF s = {} THEN 0 ELSE split[First(s)][p] + g[s \ {First(s)}]]
<1>1. PICK g : g = (CHOOSE a : Adds(w, a, Quarters)) /\ Adds(w, g, Quarters)
  BY AddsExists, ArithmeticAssumption
<1>2. Adds(w, g, Quarters)
  BY <1>1
<1>3. \A s \in SUBSET Quarters : s # {} => w[First(s)] = split[First(s)][p]
  BY DEF First
<1>4. Sums(g)
  BY <1>2, <1>3 DEF Adds
<1> HIDE DEF Sums
<1>5. PICK h : h = (CHOOSE a : Sums(a)) /\ Sums(h)
  BY <1>4
<1> USE DEF Sums
<1>6. Sums(h)
  BY <1>5
<1>7. Adds(w, h, Quarters)
  BY <1>3, <1>6 DEF Adds
<1>8. h[Quarters] = g[Quarters]
  BY <1>2, <1>7, AddsAgree, ArithmeticAssumption
<1>9. MapThenSumSet(LAMBDA t : split[t][p], Quarters) = (CHOOSE a : Sums(a))[Quarters]
  BY DEF MapThenSumSet, MapThenFoldSet, First
<1>10. Total(w, Quarters) \in Nat
  <2>1. \A t \in Quarters : w[t] \in Nat
    OBVIOUS
  <2> HIDE DEF w
  <2> QED
    BY <2>1, TotalNat, ArithmeticAssumption
<1> QED
  BY <1>1, <1>5, <1>8, <1>9, <1>10 DEF Total

LEMMA MadeUsedType ==
    ASSUME NEW m \in BilledMonths, NEW t \in Quarters
    PROVE  Made(m, t) \in [Members -> Nat] /\ Used(m, t) \in [Members -> Nat]
<1>1. m.readings \in Readings
  BY DEF BilledMonths
<1>2. \A p \in Members : {m.readings[t][p].made, m.readings[t][p].used} \subseteq Nat
  BY <1>1, ArithmeticAssumption
<1>3. \A p \in Members : /\ m.readings[t][p].made * Step * Grain \in Nat
                         /\ m.readings[t][p].used * Step * Grain \in Nat
  <2>1. \A i \in Nat : i * Step * Grain \in Nat
    BY ArithmeticAssumption
  <2> QED
    BY <1>2, <2>1
<1> QED
  BY <1>3 DEF Made, Used

\* A sum over the members.
LEMMA SumOfMembers ==
    ASSUME NEW f \in [Members -> Nat]
    PROVE  SumOf(f) = Total(f, Members) /\ SumOf(f) \in Nat
<1>1. DOMAIN f = Members /\ IsFiniteSet(DOMAIN f) /\ \A p \in DOMAIN f : f[p] \in Nat
  BY ArithmeticAssumption
<1> QED
  BY <1>1, SumOfIs

\* Nobody is allocated less than nothing.
LEMMA AllocatedType ==
    ASSUME NEW m \in BilledMonths
    PROVE  allocate_energy(m) \in [Quarters -> [Members -> Nat]]
<1> SUFFICES ASSUME NEW t \in Quarters
             PROVE  Allocated(m, SumOf(Made(m, t)), Used(m, t)) \in [Members -> Nat]
  BY DEF allocate_energy
<1>1. PICK made, used : made = SumOf(Made(m, t)) /\ used = Used(m, t)
  OBVIOUS
<1>2. made \in Nat /\ used \in [Members -> Nat] /\ SumOf(used) \in Nat
  BY <1>1, MadeUsedType, SumOfMembers
<1>3. Proportional(made, used) \in [Members -> Nat]
  <2>1. ASSUME NEW p \in Members, SumOf(used) # 0
        PROVE  (used[p] * Smaller(made, SumOf(used))) \div SumOf(used) \in Nat
    <3>1. used[p] \in Nat /\ Smaller(made, SumOf(used)) \in Nat /\ SumOf(used) \in Nat \ {0}
      BY <1>2, <2>1, SmallerType
    <3>2. used[p] * Smaller(made, SumOf(used)) \in Nat
      BY <3>1
    <3> QED
      BY <3>1, <3>2, QuotientType
  <2> QED
    BY <2>1 DEF Proportional
<1>4. Einfach(made, used) \in [Members -> Nat]
  <2>1. PICK first : first = [p \in Members |-> Smaller(used[p], made \div Cardinality(Members))]
    OBVIOUS
  <2>2. Cardinality(Members) \in Nat \ {0}
    BY FS_CardinalityType, ArithmeticAssumption
  <2>3. made \div Cardinality(Members) \in Nat
    BY <1>2, <2>2, QuotientType
  <2>4. \A p \in Members : first[p] \in Nat /\ first[p] <= used[p]
    BY <1>2, <2>1, <2>3, SmallerType
  <2>5. first \in [Members -> Nat] /\ SumOf(first) \in Nat
    BY <2>1, <2>4, SumOfMembers
  <2>6. PICK unfilled : unfilled = [p \in Members |-> used[p] - first[p]]
    OBVIOUS
  <2>7. \A p \in Members : unfilled[p] \in Nat
    BY <1>2, <2>4, <2>6
  <2>8. PICK rest, all \in Int : rest = made - SumOf(first) /\ all = SumOf(used) - SumOf(first)
    BY <1>2, <2>5
  <2>9. ASSUME NEW p \in Members
        PROVE  first[p] + (IF rest > Step * Grain /\ all > 0
                           THEN Smaller(unfilled[p], (unfilled[p] * rest) \div all) ELSE 0) \in Nat
    <3>1. ASSUME rest > Step * Grain, all > 0
          PROVE  Smaller(unfilled[p], (unfilled[p] * rest) \div all) \in Nat
      <4>1. Step * Grain \in Nat
        BY ArithmeticAssumption
      <4>2. rest \in Nat /\ all \in Nat \ {0}
        BY <3>1, <4>1
      <4>3. unfilled[p] \in Nat /\ unfilled[p] * rest \in Nat
        BY <2>7, <4>2
      <4> QED
        BY <4>2, <4>3, SmallerType, QuotientType
    <3>2. first[p] \in Nat
      BY <2>4
    <3> QED
      BY <3>1, <3>2
  <2>10. Einfach(made, used) = [p \in Members |-> first[p] +
             IF rest > Step * Grain /\ all > 0
             THEN Smaller(unfilled[p], (unfilled[p] * rest) \div all) ELSE 0]
    BY <2>1, <2>6, <2>8 DEF Einfach, TakenUp, FilledUp
  <2> QED
    BY <2>9, <2>10
<1> QED
  BY <1>1, <1>3, <1>4 DEF Allocated

\* A quotient of shares.
LEMMA SharedType ==
    ASSUME NEW made \in [Members -> Nat], NEW taken \in Nat
    PROVE  Shared(made, SumOf(made), taken) \in [Members -> Nat]
<1>1. SumOf(made) \in Nat
  BY SumOfMembers
<1>2. ASSUME NEW p \in Members, SumOf(made) # 0
      PROVE  (made[p] * taken) \div SumOf(made) \in Nat
  <2>1. made[p] * taken \in Nat /\ SumOf(made) \in Nat \ {0}
    BY <1>1, <1>2
  <2> QED
    BY <2>1, QuotientType
<1> QED
  BY <1>2 DEF Shared

LEMMA CreditedType ==
    ASSUME NEW m \in BilledMonths, NEW given \in [Quarters -> [Members -> Nat]]
    PROVE  Credited(m, given) \in [Quarters -> [Members -> Nat]]
<1> SUFFICES ASSUME NEW t \in Quarters
             PROVE  Shared(Made(m, t), SumOf(Made(m, t)), SumOf(given[t])) \in [Members -> Nat]
  BY DEF Credited
<1>1. Made(m, t) \in [Members -> Nat] /\ given[t] \in [Members -> Nat]
  BY MadeUsedType
<1>2. SumOf(given[t]) \in Nat
  BY <1>1, SumOfMembers
<1> QED
  BY <1>1, <1>2, SharedType

\* The reports of the grid operator, for a split without negative shares.
LEMMA ReportedType ==
    ASSUME NEW m, NEW split \in [Quarters -> [Members -> Nat]]
    PROVE  Reported(m, split) \in [Quarters -> [Members -> Nat]]
<1>1. Precision(m) \in Nat \ {0} /\ Grain * Precision(m) \in Nat \ {0}
  BY ArithmeticAssumption DEF Precision
<1>2. ASSUME NEW t \in Quarters, NEW p \in Members
      PROVE  HalfUp(split[t][p], Grain * Precision(m)) * Precision(m) \in Nat
  <2>1. split[t][p] \in Nat
    OBVIOUS
  <2>2. HalfUp(split[t][p], Grain * Precision(m)) \in Nat
    BY <1>1, <2>1, RoundingError
  <2> QED
    BY <1>1, <2>2
<1> QED
  BY <1>2 DEF Reported

LEMMA MovedType ==
    ASSUME NEW m, NEW f \in [Members -> Nat]
    PROVE  Moved(m, f) \in [Members -> Nat]
<1> DEFINE a == Min(Members)
           b == Max(Members)
           moved == [f EXCEPT ![a] = @ - Precision(m), ![b] = @ + Precision(m)]
<1>1. Precision(m) \in Nat
  BY ArithmeticAssumption DEF Precision
<1>2. ASSUME f[a] >= Precision(m), NEW p \in Members
      PROVE  moved[p] \in Nat
  <2>1. f[p] \in Nat
    OBVIOUS
  <2>2. CASE p = b
    BY <1>1, <1>2, <2>1, <2>2
  <2>3. CASE p # b /\ p = a
    BY <1>1, <1>2, <2>1, <2>3
  <2>4. CASE p # b /\ p # a
    BY <2>1, <2>4
  <2> QED
    BY <2>2, <2>3, <2>4
<1>3. f[a] >= Precision(m) => moved \in [Members -> Nat]
  BY <1>2
<1>4. Moved(m, f) \in {moved, f}
  BY DEF Moved
<1> QED
  BY <1>3, <1>4 DEF Moved

\* What is billed: natural numbers, for every member on both sides.
LEMMA ReferenceType ==
    ASSUME NEW m \in BilledMonths, delivered = Delivery(m, allocate_energy(m))
    PROVE  /\ _vnb_reference.consumption \in [Members -> Nat]
           /\ _vnb_reference.production \in [Members -> Nat]
<1>1. PICK given : given = allocate_energy(m)
  OBVIOUS
<1>2. given \in [Quarters -> [Members -> Nat]] /\ Credited(m, given) \in [Quarters -> [Members -> Nat]]
  BY <1>1, AllocatedType, CreditedType
<1>3. /\ Reported(m, given) \in [Quarters -> [Members -> Nat]]
      /\ Reported(m, Credited(m, given)) \in [Quarters -> [Members -> Nat]]
  BY <1>2, ReportedType
<1>4. /\ delivered.consumption = [t \in Quarters |-> Moved(m, Reported(m, given)[t])]
      /\ delivered.production = Reported(m, Credited(m, given))
  BY <1>1 DEF Delivery
<1>5. \A t \in Quarters : /\ delivered.consumption[t] \in [Members -> Nat]
                          /\ delivered.production[t] \in [Members -> Nat]
  BY <1>3, <1>4, MovedType
<1>6. OverSlots(delivered.consumption) \in [Members -> Nat] /\ OverSlots(delivered.production) \in [Members -> Nat]
  BY <1>5, OverSlotsType
<1> QED
  BY <1>6 DEF _vnb_reference

-----------------------------------------------------------------------------
(* The lines of a draft.                                                   *)

Types == {"consumer_charge", "producer_credit", "settlement_fee", "rounding_adjustment", "battery_cost_share"}

\* A line of a member.
LineItem == [of : Members, type : Types, quantity : Int, price : Int, amount : Int]

\* The member with the smallest id.
LEMMA SmallestMember == Min(Members) \in Members /\ Members # {}
<1>1. Members # {}
  BY FS_EmptySet, ArithmeticAssumption
<1>2. PICK x \in Members : \A y \in Members : ~(<<y, x>> \in OpToRel(<, Nat))
  BY <1>1, ArithmeticAssumption, NatLessThanWellFounded, WFMin
<1>3. x \in Nat /\ \A y \in Members : y \in Nat /\ ~(y < x)
  BY <1>2, ArithmeticAssumption DEF OpToRel
<1>4. \A y \in Members : x <= y
  BY <1>3
<1> QED
  BY <1>1, <1>4 DEF Min

\* What one side is charged or credited for.
LEMMA PricedLines ==
    ASSUME NEW f \in [Members -> Nat], NEW type \in Types, NEW price \in Nat, NEW sign \in {1, -1}
    PROVE  /\ Priced(f, type, price, sign) \subseteq LineItem /\ IsFiniteSet(Priced(f, type, price, sign))
           /\ \A l \in Priced(f, type, price, sign) :
                 /\ l.of \in Members /\ l.type = type /\ l.quantity = f[l.of] /\ l.price = price
                 /\ l.amount = sign * _priced_amount(f[l.of], price)
           /\ \A p \in Members : \E l \in Priced(f, type, price, sign) : l.of = p
           /\ \A l, k \in Priced(f, type, price, sign) : l.of = k.of => l = k
           /\ Cardinality(Priced(f, type, price, sign)) = Cardinality(Members)
<1> DEFINE row == [p \in Members |-> Line(p, type, f[p], price, sign * _priced_amount(f[p], price))]
           lines == Priced(f, type, price, sign)
<1>1. lines = {row[p] : p \in Members}
  BY DEF Priced
<1>2. \A p \in Members : f[p] \in Nat /\ _priced_amount(f[p], price) \in Nat
  <2> TAKE p \in Members
  <2>1. f[p] \in Nat /\ f[p] * price \in Nat
    OBVIOUS
  <2> QED
    BY <2>1, RoundingError, ArithmeticAssumption DEF _priced_amount
<1>3. \A p \in Members : /\ row[p] \in LineItem /\ row[p].of = p /\ row[p].type = type
                         /\ row[p].quantity = f[p] /\ row[p].price = price
                         /\ row[p].amount = sign * _priced_amount(f[p], price)
  BY <1>2 DEF Line, LineItem
<1>4. row \in Surjection(Members, lines)
  BY <1>1 DEF Surjection
<1>5. row \in Injection(Members, lines)
  BY <1>1, <1>3, <1>4 DEF Injection, IsInjective, Surjection
<1>6. IsFiniteSet(lines) /\ Cardinality(lines) = Cardinality(Members)
  BY <1>4, <1>5, FS_Surjection, ArithmeticAssumption
<1> HIDE DEF row
<1> QED
  BY <1>1, <1>3, <1>6

\* One line for every member: its quantities are those of the lines.
LEMMA QuantitiesAre ==
    ASSUME NEW lines, NEW type, NEW f \in [Members -> Nat],
           \A l \in OfType(lines, type) : l.of \in Members /\ l.quantity = f[l.of],
           \A p \in Members : \E l \in OfType(lines, type) : l.of = p,
           \A l, k \in OfType(lines, type) : l.of = k.of => l = k
    PROVE  Quantities(lines, type) = f
<1>1. {l.of : l \in OfType(lines, type)} = Members
  OBVIOUS
<1>2. ASSUME NEW p \in Members
      PROVE  MapThenSumSet(LAMBDA l : l.quantity, {l \in OfType(lines, type) : l.of = p}) = f[p]
  <2>1. PICK l \in OfType(lines, type) : l.of = p
    OBVIOUS
  <2>2. PICK one : one = {k \in OfType(lines, type) : k.of = p}
    OBVIOUS
  <2>3. one = {l}
    BY <2>1, <2>2
  <2>4. l.quantity = f[p] /\ l.quantity \in Int
    BY <2>1
  <2>5. MapThenSumSet(LAMBDA k : k.quantity, one) = l.quantity
    BY <2>3, <2>4, QuantityOfOne
  <2> QED
    BY <2>2, <2>4, <2>5
<1>3. Quantities(lines, type) = [p \in Members |-> f[p]]
  BY <1>1, <1>2 DEF Quantities
<1> QED
  BY <1>3

\* The amount of lines is an integer.
LEMMA AmountsType ==
    ASSUME NEW lines, lines \subseteq LineItem, IsFiniteSet(lines)
    PROVE  Amounts(lines) \in Int
<1> DEFINE w == [l \in lines |-> l.amount]
<1>1. \A l \in lines : w[l] = l.amount /\ w[l] \in Int
  BY DEF LineItem
<1> HIDE DEF w
<1>2. Amounts(lines) = Total(w, lines)
  BY <1>1, AmountsAreTotal
<1> QED
  BY <1>1, <1>2, TotalType

\* The energy of a period, as it is charged and credited.
LEMMA EnergyIs ==
    ASSUME NEW m, m.price \in Nat, NEW V, V.consumption \in [Members -> Nat], V.production \in [Members -> Nat]
    PROVE  /\ Priced(V.consumption, "consumer_charge", m.price, 1)
                \cap Priced(V.production, "producer_credit", m.price, -1) = {}
           /\ IsFiniteSet(EnergyPriced(m, V)) /\ EnergyPriced(m, V) \subseteq LineItem
           /\ Cardinality(EnergyPriced(m, V)) = 2 * Cardinality(Members)
           /\ Amounts(EnergyPriced(m, V)) \in Int
<1> DEFINE charges == Priced(V.consumption, "consumer_charge", m.price, 1)
           credits == Priced(V.production, "producer_credit", m.price, -1)
<1>1. EnergyPriced(m, V) = charges \cup credits
  BY DEF EnergyPriced
<1>2. /\ charges \subseteq LineItem /\ IsFiniteSet(charges)
      /\ \A l \in charges : l.type = "consumer_charge"
      /\ Cardinality(charges) = Cardinality(Members)
  BY PricedLines DEF Types
<1>3. /\ credits \subseteq LineItem /\ IsFiniteSet(credits)
      /\ \A l \in credits : l.type = "producer_credit"
      /\ Cardinality(credits) = Cardinality(Members)
  <2>1. -1 \in {1, -1} /\ "producer_credit" \in Types
    BY DEF Types
  <2> QED
    BY <2>1, PricedLines
<1> HIDE DEF charges, credits
<1>4. charges \cap credits = {}
  BY <1>2, <1>3
<1>5. IsFiniteSet(charges \cup credits)
      /\ Cardinality(charges \cup credits)
           = Cardinality(charges) + Cardinality(credits) - Cardinality(charges \cap credits)
  BY <1>2, <1>3, FS_Union
<1>6. Cardinality(Members) \in Nat /\ Cardinality(charges \cap credits) = 0
  BY <1>4, FS_EmptySet, FS_CardinalityType, ArithmeticAssumption
<1>7. Cardinality(charges \cup credits) = 2 * Cardinality(Members)
  BY <1>2, <1>3, <1>5, <1>6
<1> QED
  BY <1>1, <1>2, <1>3, <1>4, <1>5, <1>7, AmountsType DEF charges, credits

\* The lines of a draft, type by type.
LEMMA LinesByType ==
    ASSUME NEW m, m.price \in Nat, m.fee \in Nat,
           NEW V, V.consumption \in [Members -> Nat], V.production \in [Members -> Nat],
           NEW L, L = EnergyLines(m, V) \cup BatteryLines(m)
    PROVE  /\ L \subseteq LineItem /\ IsFiniteSet(L)
           /\ OfType(L, "consumer_charge") = Priced(V.consumption, "consumer_charge", m.price, 1)
           /\ OfType(L, "producer_credit") = Priced(V.production, "producer_credit", m.price, -1)
           /\ OfType(L, "settlement_fee")
                = IF m.fee = 0 THEN {} ELSE Priced(V.consumption, "settlement_fee", m.fee, 1)
           /\ OfType(L, "rounding_adjustment") = RoundingAdjustment(Amounts(EnergyPriced(m, V)))
           /\ OfType(L, "battery_cost_share") = BatteryLines(m)
           /\ Energy(L) = EnergyPriced(m, V)
<1> DEFINE A == Priced(V.consumption, "consumer_charge", m.price, 1)
           B == Priced(V.production, "producer_credit", m.price, -1)
           C == IF m.fee = 0 THEN {} ELSE Priced(V.consumption, "settlement_fee", m.fee, 1)
           D == RoundingAdjustment(Amounts(EnergyPriced(m, V)))
           E == BatteryLines(m)
<1>1. L = A \cup B \cup D \cup C \cup E /\ EnergyPriced(m, V) = A \cup B
  BY DEF EnergyLines, WithFee, EnergyPriced
<1>2. A \subseteq LineItem /\ IsFiniteSet(A) /\ \A l \in A : l.type = "consumer_charge"
  BY PricedLines DEF Types
<1>3. B \subseteq LineItem /\ IsFiniteSet(B) /\ \A l \in B : l.type = "producer_credit"
  <2>1. -1 \in {1, -1} /\ "producer_credit" \in Types
    BY DEF Types
  <2> QED
    BY <2>1, PricedLines
<1>4. C \subseteq LineItem /\ IsFiniteSet(C) /\ \A l \in C : l.type = "settlement_fee"
  BY PricedLines, FS_EmptySet DEF Types
<1>5. D \subseteq LineItem /\ IsFiniteSet(D) /\ \A l \in D : l.type = "rounding_adjustment"
  <2>1. PICK r : r = Amounts(EnergyPriced(m, V))
    OBVIOUS
  <2>2. r \in Int
    BY <2>1, EnergyIs
  <2>3. RoundingAdjustment(r) \in {{}, {Line(Min(Members), "rounding_adjustment", None, None, -r)}}
    BY DEF RoundingAdjustment
  <2>4. PICK l : l = Line(Min(Members), "rounding_adjustment", None, None, -r)
    OBVIOUS
  <2>5. l \in LineItem /\ l.type = "rounding_adjustment"
    BY <2>2, <2>4, SmallestMember DEF Line, LineItem, None, Types
  <2>6. D = {} \/ D = {l}
    BY <2>1, <2>3, <2>4
  <2>7. IsFiniteSet({}) /\ IsFiniteSet({l})
    BY FS_EmptySet, FS_Singleton
  <2> HIDE DEF D
  <2> QED
    BY <2>5, <2>6, <2>7
<1>6. E \subseteq LineItem /\ IsFiniteSet(E) /\ \A l \in E : l.type = "battery_cost_share"
  <2> DEFINE row == [p \in Consuming(m) |-> Line(p, "battery_cost_share", None, None, AnnualShare)]
  <2>1. E \in {{}, {row[p] : p \in Consuming(m)}}
    BY DEF BatteryLines
  <2>2. row \in Surjection(Consuming(m), {row[p] : p \in Consuming(m)})
    BY DEF Surjection
  <2>3. IsFiniteSet(Consuming(m))
    BY FS_Subset, ArithmeticAssumption DEF Consuming
  <2>4. IsFiniteSet({row[p] : p \in Consuming(m)})
    BY <2>2, <2>3, FS_Surjection
  <2>5. \A p \in Consuming(m) : row[p] \in LineItem /\ row[p].type = "battery_cost_share"
    BY ArithmeticAssumption DEF Consuming, Line, LineItem, None, Types
  <2> QED
    BY <2>1, <2>4, <2>5, FS_EmptySet
<1> HIDE DEF A, B, C, D, E
<1>7. IsFiniteSet(L)
  <2>1. IsFiniteSet(A \cup B)
    BY <1>2, <1>3, FS_Union
  <2>2. IsFiniteSet((A \cup B) \cup D)
    BY <2>1, <1>5, FS_Union
  <2>3. IsFiniteSet(((A \cup B) \cup D) \cup C)
    BY <2>2, <1>4, FS_Union
  <2>4. IsFiniteSet((((A \cup B) \cup D) \cup C) \cup E)
    BY <2>3, <1>6, FS_Union
  <2>5. L = (((A \cup B) \cup D) \cup C) \cup E
    BY <1>1
  <2> QED
    BY <2>4, <2>5
<1>8. L \subseteq LineItem
  BY <1>1, <1>2, <1>3, <1>4, <1>5, <1>6
<1>9. OfType(L, "consumer_charge") = A /\ OfType(L, "producer_credit") = B
      /\ OfType(L, "settlement_fee") = C /\ OfType(L, "rounding_adjustment") = D
      /\ OfType(L, "battery_cost_share") = E
  BY <1>1, <1>2, <1>3, <1>4, <1>5, <1>6 DEF OfType
<1>10. Energy(L) = EnergyPriced(m, V)
  BY <1>1, <1>9 DEF Energy
<1> QED
  BY <1>7, <1>8, <1>9, <1>10 DEF A, B, C, D, E

\* What rounding leaves of a balanced month is half a quantum per line at most.
LEMMA ResidueBound ==
    ASSUME NEW m, m.price \in Nat, NEW V, V.consumption \in [Members -> Nat], V.production \in [Members -> Nat],
           SumOf(V.consumption) = SumOf(V.production)
    PROVE  /\ 2 * PriceUnit * Abs(Amounts(EnergyPriced(m, V)))
                <= PriceUnit * Cardinality(EnergyPriced(m, V))
<1> DEFINE A == Priced(V.consumption, "consumer_charge", m.price, 1)
           B == Priced(V.production, "producer_credit", m.price, -1)
           c == V.consumption
           q == V.production
           v == [p \in Members |-> _priced_amount(c[p], m.price) - _priced_amount(q[p], m.price)]
<1>1. PICK E : E = EnergyPriced(m, V)
  OBVIOUS
<1>2. /\ E = A \cup B /\ A \cap B = {} /\ IsFiniteSet(E) /\ E \subseteq LineItem
      /\ Cardinality(E) = 2 * Cardinality(Members) /\ Amounts(E) \in Int
  BY <1>1, EnergyIs DEF EnergyPriced
<1>3. /\ \A l \in A : l.of \in Members /\ l.amount = _priced_amount(c[l.of], m.price)
      /\ \A p \in Members : \E l \in A : l.of = p
      /\ \A l, k \in A : l.of = k.of => l = k
  <2>1. "consumer_charge" \in Types /\ 1 \in {1, -1} /\ c \in [Members -> Nat]
    BY DEF Types
  <2>2. \A p \in Members : c[p] * m.price \in Nat
    BY <2>1
  <2>3. \A p \in Members : _priced_amount(c[p], m.price) \in Nat
    BY <2>2, RoundingError, ArithmeticAssumption DEF _priced_amount
  <2>4. \A l \in A : l.of \in Members /\ l.amount = 1 * _priced_amount(c[l.of], m.price)
    BY <2>1, PricedLines
  <2>5. \A l \in A : l.amount = _priced_amount(c[l.of], m.price)
    BY <2>3, <2>4
  <2> QED
    BY <2>1, <2>4, <2>5, PricedLines
<1>4. /\ \A l \in B : l.of \in Members /\ l.amount = -_priced_amount(q[l.of], m.price)
      /\ \A p \in Members : \E l \in B : l.of = p
      /\ \A l, k \in B : l.of = k.of => l = k
  <2>1. "producer_credit" \in Types /\ -1 \in {1, -1} /\ q \in [Members -> Nat]
    BY DEF Types
  <2>2. \A p \in Members : q[p] * m.price \in Nat
    BY <2>1
  <2>3. \A p \in Members : _priced_amount(q[p], m.price) \in Nat
    BY <2>2, RoundingError, ArithmeticAssumption DEF _priced_amount
  <2>4. \A l \in B : l.of \in Members /\ l.amount = (-1) * _priced_amount(q[l.of], m.price)
    BY <2>1, PricedLines
  <2>5. \A l \in B : l.amount = -_priced_amount(q[l.of], m.price)
    BY <2>3, <2>4
  <2> QED
    BY <2>1, <2>4, <2>5, PricedLines
<1>5. \A p \in Members : /\ c[p] \in Nat /\ q[p] \in Nat
                         /\ _priced_amount(c[p], m.price) \in Nat /\ _priced_amount(q[p], m.price) \in Nat
                         /\ v[p] = _priced_amount(c[p], m.price) - _priced_amount(q[p], m.price)
                         /\ v[p] \in Int
  <2> TAKE p \in Members
  <2>1. c[p] \in Nat /\ q[p] \in Nat /\ c[p] * m.price \in Nat /\ q[p] * m.price \in Nat
    OBVIOUS
  <2>2. _priced_amount(c[p], m.price) \in Nat /\ _priced_amount(q[p], m.price) \in Nat
    BY <2>1, RoundingError, ArithmeticAssumption DEF _priced_amount
  <2> QED
    BY <2>1, <2>2
<1>6. PICK w : w = [l \in E |-> l.amount]
  OBVIOUS
<1>7. \A l \in E : w[l] = l.amount /\ w[l] \in Int
  BY <1>2, <1>6 DEF LineItem
<1>8. PICK part : part = [l \in E |-> l.of]
  OBVIOUS
<1>9. \A l \in E : part[l] = l.of /\ part[l] \in Members
  BY <1>2, <1>8 DEF LineItem
<1> HIDE DEF A, B, c, q, v
<1>10. ASSUME NEW p \in Members
       PROVE  v[p] = Total(w, InPart(E, part, p))
  <2>1. PICK x \in A : x.of = p
    BY <1>3
  <2>2. PICK y \in B : y.of = p
    BY <1>4
  <2>3. x \in E /\ y \in E /\ x # y
    BY <1>2
  <2>4. InPart(E, part, p) = {x} \cup {y}
    BY <1>2, <1>3, <1>4, <1>9, <2>1, <2>2, <2>3 DEF InPart
  <2>5. w[x] = _priced_amount(c[p], m.price) /\ w[y] = -_priced_amount(q[p], m.price)
    BY <1>3, <1>4, <1>7, <2>1, <2>2, <2>3
  <2>6. w[x] \in Int /\ w[y] \in Int
    BY <1>7, <2>3
  <2>7. Total(w, {x}) = w[x] /\ Total(w, {y}) = w[y]
    BY <2>6, TotalOfOne
  <2>8. IsFiniteSet({x}) /\ IsFiniteSet({y}) /\ {x} \cap {y} = {} /\ \A l \in {x} \cup {y} : w[l] \in Int
    BY <2>3, <2>6, FS_Singleton
  <2>9. Total(w, {x} \cup {y}) = Total(w, {x}) + Total(w, {y})
    BY <2>8, TotalOfBoth
  <2> QED
    BY <1>5, <2>4, <2>5, <2>7, <2>9
<1>11. Amounts(E) = Total(v, Members)
  <2>1. Amounts(E) = Total(w, E)
    BY <1>2, <1>7, AmountsAreTotal
  <2>2. Total(v, Members) = Total(w, E)
    <3>1. IsFiniteSet(E) /\ IsFiniteSet(Members)
      BY <1>2, ArithmeticAssumption
    <3>2. \A x \in E : w[x] \in Int
      BY <1>7
    <3>3. \A x \in E : part[x] \in Members
      BY <1>9
    <3>4. \A p \in Members : v[p] = Total(w, InPart(E, part, p))
      BY <1>10
    <3> QED
      BY <3>1, <3>2, <3>3, <3>4, TotalOfParts
  <2> QED
    BY <2>1, <2>2
<1>12. Total(c, Members) = Total(q, Members) /\ Total(c, Members) \in Nat /\ Total(q, Members) \in Nat
  BY SumOfMembers DEF c, q
<1>13. PICK price \in Nat : price = m.price
  OBVIOUS
<1>14. PICK unit \in Nat \ {0} : unit = PriceUnit
  BY ArithmeticAssumption
<1>15. PICK n \in Nat : n = Cardinality(Members)
  BY FS_CardinalityType, ArithmeticAssumption
<1>16. PICK r \in Int : r = Amounts(E)
  BY <1>2
<1>17. ASSUME NEW p \in Members
       PROVE  /\ (2 * unit) * v[p] <= (2 * price) * c[p] - (2 * price) * q[p] + 2 * unit
              /\ (-2 * unit) * v[p] <= (-2 * price) * c[p] - (-2 * price) * q[p] + 2 * unit
  <2>1. PICK i \in Nat, j \in Nat : i = _priced_amount(c[p], m.price) /\ j = _priced_amount(q[p], m.price)
    BY <1>5
  <2>2. PICK a \in Nat, b \in Nat : a = c[p] * price /\ b = q[p] * price
    BY <1>5
  <2>3. i = HalfUp(a, unit) /\ j = HalfUp(b, unit)
    BY <1>13, <1>14, <2>1, <2>2 DEF _priced_amount
  <2>4. 2 * unit * i <= 2 * a + unit /\ 2 * a - unit <= 2 * unit * i
    BY <2>3, RoundingError
  <2>5. 2 * unit * j <= 2 * b + unit /\ 2 * b - unit <= 2 * unit * j
    BY <2>3, RoundingError
  <2>6. v[p] = i - j
    BY <1>5, <2>1
  <2>7. (2 * unit) * v[p] = 2 * unit * i - 2 * unit * j /\ (-2 * unit) * v[p] = 2 * unit * j - 2 * unit * i
    BY <2>6
  <2>8. c[p] \in Nat /\ q[p] \in Nat
    BY <1>5
  <2>9. /\ (2 * price) * c[p] = 2 * a /\ (2 * price) * q[p] = 2 * b
        /\ (-2 * price) * c[p] = -(2 * a) /\ (-2 * price) * q[p] = -(2 * b)
    BY <2>2, <2>8
  <2>10. PICK ui \in Int, uj \in Int : ui = 2 * unit * i /\ uj = 2 * unit * j
    OBVIOUS
  <2> QED
    BY <2>4, <2>5, <2>7, <2>9, <2>10
<1>18. 2 * unit \in Int /\ 2 * price \in Int /\ -2 * unit \in Int /\ -2 * price \in Int
  OBVIOUS
<1>19. \A p \in Members : v[p] \in Int /\ c[p] \in Int /\ q[p] \in Int
  BY <1>5
<1>20. (2 * unit) * Total(v, Members)
         <= (2 * price) * Total(c, Members) - (2 * price) * Total(q, Members) + (2 * unit) * Cardinality(Members)
  BY <1>17, <1>18, <1>19, TotalBound, ArithmeticAssumption
<1>21. (-2 * unit) * Total(v, Members)
         <= (-2 * price) * Total(c, Members) - (-2 * price) * Total(q, Members) + (2 * unit) * Cardinality(Members)
  BY <1>17, <1>18, <1>19, TotalBound, ArithmeticAssumption
<1>22. (2 * unit) * r <= (2 * unit) * n /\ (-2 * unit) * r <= (2 * unit) * n
  <2>1. PICK s \in Nat : s = Total(c, Members) /\ s = Total(q, Members)
    BY <1>12
  <2>2. (2 * unit) * r <= (2 * price) * s - (2 * price) * s + (2 * unit) * n
    BY <1>11, <1>15, <1>16, <1>20, <2>1
  <2>3. (-2 * unit) * r <= (-2 * price) * s - (-2 * price) * s + (2 * unit) * n
    BY <1>11, <1>15, <1>16, <1>21, <2>1
  <2>4. PICK ps \in Int, pt \in Int : ps = (2 * price) * s /\ pt = (-2 * price) * s
    OBVIOUS
  <2>5. PICK un \in Int, ur \in Int, us \in Int : un = (2 * unit) * n /\ ur = (2 * unit) * r /\ us = (-2 * unit) * r
    OBVIOUS
  <2> QED
    BY <2>2, <2>3, <2>4, <2>5
<1>23. 2 * unit * Abs(r) <= unit * (2 * n)
  <2>1. PICK ur \in Int : ur = (2 * unit) * r
    OBVIOUS
  <2>2. (2 * unit) * (-r) = -ur /\ (-2 * unit) * r = -ur /\ unit * (2 * n) = (2 * unit) * n
    BY <2>1
  <2>3. Abs(r) = r \/ Abs(r) = -r
    BY DEF Abs
  <2>4. 2 * unit * Abs(r) \in {ur, -ur}
    BY <2>1, <2>2, <2>3
  <2> QED
    BY <1>22, <2>1, <2>2, <2>4
<1> QED
  BY <1>1, <1>2, <1>14, <1>15, <1>16, <1>23

\* Lines of one type, one a member, are pinned by their quantities and their price.
LEMMA PinnedByQuantity ==
    ASSUME NEW lines, lines \subseteq LineItem, NEW type, NEW f \in [Members -> Nat], NEW price, NEW sign,
           Quantities(lines, type) = f,
           \A l, k \in OfType(lines, type) : l.of = k.of => l = k,
           \A l \in OfType(lines, type) : l.price = price /\ l.amount = sign * _priced_amount(l.quantity, price)
    PROVE  OfType(lines, type) = Priced(f, type, price, sign)
<1>1. PICK own : own = OfType(lines, type)
  OBVIOUS
<1>2. own \subseteq LineItem /\ \A l \in own : l.type = type
  BY <1>1 DEF OfType
<1>3. {l.of : l \in own} = Members
  BY <1>1 DEF Quantities
<1>4. ASSUME NEW l \in own
      PROVE  l.quantity = f[l.of]
  <2>1. PICK one : one = {k \in OfType(lines, type) : k.of = l.of}
    OBVIOUS
  <2>2. one = {l}
    BY <1>1, <2>1
  <2>3. l.quantity \in Int
    BY <1>2 DEF LineItem
  <2>4. MapThenSumSet(LAMBDA k : k.quantity, one) = l.quantity
    BY <2>2, <2>3, QuantityOfOne
  <2>5. l.of \in {k.of : k \in OfType(lines, type)}
    BY <1>1
  <2>6. Quantities(lines, type)[l.of] = MapThenSumSet(LAMBDA k : k.quantity, one)
    BY <2>1, <2>5 DEF Quantities
  <2> QED
    BY <2>4, <2>6
<1>5. \A l \in own : l = Line(l.of, type, f[l.of], price, sign * _priced_amount(f[l.of], price))
  <2> TAKE l \in own
  <2>1. l = [of |-> l.of, type |-> l.type, quantity |-> l.quantity, price |-> l.price, amount |-> l.amount]
    BY <1>2 DEF LineItem
  <2>2. l.type = type /\ l.quantity = f[l.of] /\ l.price = price /\ l.amount = sign * _priced_amount(f[l.of], price)
    BY <1>1, <1>2, <1>4
  <2> QED
    BY <2>1, <2>2 DEF Line
<1>6. own \subseteq Priced(f, type, price, sign)
  BY <1>3, <1>5 DEF Priced
<1>7. Priced(f, type, price, sign) \subseteq own
  <2> SUFFICES ASSUME NEW p \in Members
               PROVE  Line(p, type, f[p], price, sign * _priced_amount(f[p], price)) \in own
    BY DEF Priced
  <2>1. PICK l \in own : l.of = p
    BY <1>3
  <2> QED
    BY <1>5, <2>1
<1> QED
  BY <1>1, <1>6, <1>7

\* What the audit of a draft of a month pins: the quantities billed.
LEMMA ReconciledQuantities ==
    ASSUME NEW m \in BilledMonths, delivered = Delivery(m, allocate_energy(m)), NEW given, NEW lines,
           _require_canonical_reconciliation(m, reconcile_with_vnb(m, given), lines)
    PROVE  /\ Quantities(lines, "consumer_charge") = _vnb_reference.consumption
           /\ Quantities(lines, "producer_credit") = _vnb_reference.production
<1> DEFINE V == _vnb_reference
           ours == IF PrecisionBasis(m)
                   THEN [consumption |-> Persisted(OverSlots(given)),
                         production |-> Persisted(OverSlots(Credited(m, given)))]
                   ELSE V
           audit == reconcile_with_vnb(m, given)
           sides == {"consumption", "production"}
           billed(side) == Quantities(lines, IF side = "consumption" THEN "consumer_charge" ELSE "producer_credit")
<1>1. V.consumption \in [Members -> Nat] /\ V.production \in [Members -> Nat]
  BY ReferenceType
<1>2. audit = Compared(V, ours)
  BY DEF reconcile_with_vnb
<1>3. \A side \in sides : audit[side].each = [p \in Members |-> Entry(V[side][p], ours[side][p])]
  BY <1>2 DEF Compared
<1>4. ASSUME NEW side \in sides, NEW p \in Members
      PROVE  Basis(m, audit[side].each[p]) = V[side][p]
  <2>1. audit[side].each[p] = Entry(V[side][p], ours[side][p])
    BY <1>3
  <2>2. CASE PrecisionBasis(m)
    BY <2>1, <2>2 DEF Basis, Entry
  <2>3. CASE ~PrecisionBasis(m)
    BY <2>1, <2>3 DEF Basis, Entry
  <2> QED
    BY <2>2, <2>3
<1>5. ASSUME NEW side \in sides
      PROVE  DOMAIN billed(side) = Members /\ \A p \in Members : billed(side)[p] = V[side][p]
  <2>1. DOMAIN billed(side) = DOMAIN audit[side].each
        /\ \A p \in DOMAIN billed(side) : Basis(m, audit[side].each[p]) = billed(side)[p]
    BY DEF _require_canonical_reconciliation
  <2>2. DOMAIN audit[side].each = Members
    BY <1>3
  <2> QED
    BY <1>4, <2>1, <2>2
<1>6. \A type : Quantities(lines, type) = [p \in DOMAIN Quantities(lines, type) |-> Quantities(lines, type)[p]]
  BY DEF Quantities
<1>7. /\ billed("consumption") = Quantities(lines, "consumer_charge")
      /\ billed("production") = Quantities(lines, "producer_credit")
  OBVIOUS
<1>8. V["consumption"] = V.consumption /\ V["production"] = V.production
  OBVIOUS
<1> HIDE DEF V, billed
<1>9. /\ DOMAIN Quantities(lines, "consumer_charge") = Members
      /\ \A p \in Members : Quantities(lines, "consumer_charge")[p] = V.consumption[p]
      /\ DOMAIN Quantities(lines, "producer_credit") = Members
      /\ \A p \in Members : Quantities(lines, "producer_credit")[p] = V.production[p]
  BY <1>5, <1>7, <1>8
<1>10. Quantities(lines, "consumer_charge") = V.consumption /\ Quantities(lines, "producer_credit") = V.production
  BY <1>1, <1>6, <1>9
<1> QED
  BY <1>10 DEF V

\* What a month says of money.
LEMMA MonthType == \A m \in BilledMonths : m.price \in Nat /\ m.fee \in Nat
<1> TAKE m \in BilledMonths
<1>1. PICK price, fee : price = m.price /\ fee = m.fee
  OBVIOUS
<1>2. price \in Prices /\ fee \in {0, Fee}
  BY <1>1 DEF BilledMonths
<1>3. Prices \subseteq Nat /\ Fee \in Nat
  BY ArithmeticAssumption
<1>4. price \in Nat /\ fee \in Nat
  BY <1>2, <1>3
<1> QED
  BY <1>1, <1>4

\* Priced lines have the quantities they were made of, one line a member.
LEMMA QuantitiesOfPriced ==
    ASSUME NEW lines, NEW type \in Types, NEW f \in [Members -> Nat], NEW price \in Nat, NEW sign \in {1, -1},
           OfType(lines, type) = Priced(f, type, price, sign)
    PROVE  /\ Quantities(lines, type) = f
           /\ \A l, k \in OfType(lines, type) : l.of = k.of => l = k
           /\ OfType(lines, type) # {}
           /\ \A l \in OfType(lines, type) :
                 /\ l.of \in Members /\ l.quantity \in Nat /\ l.price = price
                 /\ l.amount = sign * _priced_amount(l.quantity, price)
<1>1. /\ \A l \in OfType(lines, type) : /\ l.of \in Members /\ l.quantity = f[l.of] /\ l.price = price
                                        /\ l.amount = sign * _priced_amount(f[l.of], price)
      /\ \A p \in Members : \E l \in OfType(lines, type) : l.of = p
      /\ \A l, k \in OfType(lines, type) : l.of = k.of => l = k
  BY PricedLines
<1>2. Quantities(lines, type) = f
  BY <1>1, QuantitiesAre
<1>3. OfType(lines, type) # {}
  BY <1>1, SmallestMember
<1>4. \A l \in OfType(lines, type) : l.quantity \in Nat /\ l.amount = sign * _priced_amount(l.quantity, price)
  BY <1>1
<1> QED
  BY <1>1, <1>2, <1>3, <1>4

\* The adjustment of a residue.
LEMMA AdjustmentOf ==
    ASSUME NEW r \in Int
    PROVE  /\ r = 0 => RoundingAdjustment(r) = {}
           /\ r # 0 => /\ RoundingAdjustment(r) = {Line(Min(Members), "rounding_adjustment", None, None, -r)}
                       /\ Cardinality(RoundingAdjustment(r)) = 1
           /\ \A l \in RoundingAdjustment(r) :
                 /\ l.of = Min(Members) /\ l.type = "rounding_adjustment"
                 /\ l.quantity = None /\ l.price = None /\ l.amount = -r
<1>1. r = 0 => RoundingAdjustment(r) = {}
  BY DEF RoundingAdjustment
<1>2. PICK l : l = Line(Min(Members), "rounding_adjustment", None, None, -r)
  OBVIOUS
<1>3. r # 0 => RoundingAdjustment(r) = {l}
  BY <1>2 DEF RoundingAdjustment
<1>4. Cardinality({l}) = 1
  BY FS_Singleton
<1>5. /\ l.of = Min(Members) /\ l.type = "rounding_adjustment"
      /\ l.quantity = None /\ l.price = None /\ l.amount = -r
  BY <1>2 DEF Line
<1> QED
  BY <1>1, <1>2, <1>3, <1>4, <1>5

\* The lines of a balanced month are well-formed, whatever was rounded.
LEMMA DraftWellformed ==
    ASSUME NEW m \in BilledMonths, delivered = Delivery(m, allocate_energy(m)),
           SumOf(_vnb_reference.consumption) = SumOf(_vnb_reference.production),
           NEW L, L = EnergyLines(m, _vnb_reference) \cup BatteryLines(m)
    PROVE  /\ _require_wellformed_line_items(m, L)
           /\ Quantities(L, "consumer_charge") = _vnb_reference.consumption
           /\ Quantities(L, "producer_credit") = _vnb_reference.production
           /\ {l.of : l \in L} = Members
<1> DEFINE V == _vnb_reference
           A == OfType(L, "consumer_charge")
           B == OfType(L, "producer_credit")
           C == OfType(L, "settlement_fee")
           D == OfType(L, "rounding_adjustment")
           E == OfType(L, "battery_cost_share")
           r == Amounts(Energy(L))
<1>1. V.consumption \in [Members -> Nat] /\ V.production \in [Members -> Nat] /\ m.price \in Nat /\ m.fee \in Nat
  BY ReferenceType, MonthType
<1>2. L \subseteq LineItem
  BY <1>1, LinesByType
<1>3. A = Priced(V.consumption, "consumer_charge", m.price, 1)
      /\ B = Priced(V.production, "producer_credit", m.price, -1)
  BY <1>1, LinesByType
<1>4. C = IF m.fee = 0 THEN {} ELSE Priced(V.consumption, "settlement_fee", m.fee, 1)
  BY <1>1, LinesByType
<1>5. Energy(L) = EnergyPriced(m, V) /\ r \in Int /\ D = RoundingAdjustment(r) /\ E = BatteryLines(m)
  <2>1. Energy(L) = EnergyPriced(m, V) /\ D = RoundingAdjustment(Amounts(EnergyPriced(m, V))) /\ E = BatteryLines(m)
    BY <1>1, LinesByType
  <2>2. Amounts(EnergyPriced(m, V)) \in Int
    BY <1>1, EnergyIs
  <2> QED
    BY <2>1, <2>2
<1>7. /\ Quantities(L, "consumer_charge") = V.consumption /\ A # {}
      /\ \A l, k \in A : l.of = k.of => l = k
      /\ \A l \in A : l.quantity \in Nat /\ l.price = m.price /\ l.amount = 1 * _priced_amount(l.quantity, m.price)
  <2>1. PICK sign \in {1, -1} : sign = 1
    OBVIOUS
  <2>2. PICK type \in Types : type = "consumer_charge"
    BY DEF Types
  <2>. PICK price \in Nat : price = m.price
    BY <1>1
  <2>. PICK f \in [Members -> Nat] : f = V.consumption
    BY <1>1
  <2>3. OfType(L, type) = Priced(f, type, price, sign)
    BY <1>3, <2>1, <2>2
  <2>4. Quantities(L, type) = f
    BY <2>3, QuantitiesOfPriced
  <2>6. \A l, k \in OfType(L, type) : l.of = k.of => l = k
    BY <2>3, QuantitiesOfPriced
  <2>7. OfType(L, type) # {}
    BY <2>3, QuantitiesOfPriced
  <2>5. \A l \in OfType(L, type) : /\ l.quantity \in Nat /\ l.price = price
                                   /\ l.amount = sign * _priced_amount(l.quantity, price)
    BY <2>3, QuantitiesOfPriced
  <2> QED
    BY <2>1, <2>2, <2>4, <2>5, <2>6, <2>7
<1>8. /\ Quantities(L, "producer_credit") = V.production /\ B # {}
      /\ \A l, k \in B : l.of = k.of => l = k
      /\ \A l \in B : l.quantity \in Nat /\ l.price = m.price /\ l.amount = (-1) * _priced_amount(l.quantity, m.price)
  <2>1. PICK sign \in {1, -1} : sign = -1
    OBVIOUS
  <2>2. PICK type \in Types : type = "producer_credit"
    BY DEF Types
  <2>. PICK price \in Nat : price = m.price
    BY <1>1
  <2>. PICK f \in [Members -> Nat] : f = V.production
    BY <1>1
  <2>3. OfType(L, type) = Priced(f, type, price, sign)
    BY <1>3, <2>1, <2>2
  <2>4. Quantities(L, type) = f
    BY <2>3, QuantitiesOfPriced
  <2>6. \A l, k \in OfType(L, type) : l.of = k.of => l = k
    BY <2>3, QuantitiesOfPriced
  <2>7. OfType(L, type) # {}
    BY <2>3, QuantitiesOfPriced
  <2>5. \A l \in OfType(L, type) : /\ l.quantity \in Nat /\ l.price = price
                                   /\ l.amount = sign * _priced_amount(l.quantity, price)
    BY <2>3, QuantitiesOfPriced
  <2> QED
    BY <2>1, <2>2, <2>4, <2>5, <2>6, <2>7
<1>9. ASSUME m.fee # 0
      PROVE  /\ Quantities(L, "settlement_fee") = V.consumption
             /\ \A l, k \in C : l.of = k.of => l = k
             /\ \A l \in C : l.quantity \in Nat /\ l.price = m.fee /\ l.amount = 1 * _priced_amount(l.quantity, m.fee)
  <2>1. PICK sign \in {1, -1} : sign = 1
    OBVIOUS
  <2>2. PICK type \in Types : type = "settlement_fee"
    BY DEF Types
  <2>. PICK price \in Nat : price = m.fee
    BY <1>1
  <2>. PICK f \in [Members -> Nat] : f = V.consumption
    BY <1>1
  <2>3. OfType(L, type) = Priced(f, type, price, sign)
    BY <1>4, <1>9, <2>1, <2>2
  <2>4. Quantities(L, type) = f
    BY <2>3, QuantitiesOfPriced
  <2>6. \A l, k \in OfType(L, type) : l.of = k.of => l = k
    BY <2>3, QuantitiesOfPriced
  <2>5. \A l \in OfType(L, type) : /\ l.quantity \in Nat /\ l.price = price
                                   /\ l.amount = sign * _priced_amount(l.quantity, price)
    BY <2>3, QuantitiesOfPriced
  <2> QED
    BY <2>1, <2>2, <2>4, <2>5, <2>6
<1>10. \A l \in D : /\ l.of = Min(Members) /\ l.quantity = None /\ l.price = None /\ l.amount = -r
  BY <1>5, AdjustmentOf
<1>11. /\ \A l \in E : l.quantity = None /\ l.price = None /\ l.amount = AnnualShare
       /\ \A l, k \in E : l.of = k.of => l = k
  <2>1. \A l \in BatteryLines(m) : \E p \in Consuming(m) : l = Line(p, "battery_cost_share", None, None, AnnualShare)
    BY DEF BatteryLines
  <2>2. \A l \in BatteryLines(m) : /\ l = Line(l.of, "battery_cost_share", None, None, AnnualShare)
                                 /\ l.quantity = None /\ l.price = None /\ l.amount = AnnualShare
    BY <2>1 DEF Line
  <2> QED
    BY <1>5, <2>2
<1>12. \A l \in L : /\ l.type \in Types
                    /\ l.type = "consumer_charge" => l \in A
                    /\ l.type = "producer_credit" => l \in B
                    /\ l.type = "settlement_fee" => l \in C
                    /\ l.type = "rounding_adjustment" => l \in D
                    /\ l.type = "battery_cost_share" => l \in E
  BY <1>2 DEF LineItem, OfType
<1>13. L # {} /\ {l.of : l \in L} = Members
  <2>1. A \subseteq L
    BY DEF OfType
  <2>2. {l.of : l \in A} = Members
    BY <1>1, <1>7 DEF Quantities
  <2>3. \A l \in L : l.of \in Members
    BY <1>2 DEF LineItem
  <2>4. \A p \in Members : \E l \in A : l.of = p
    BY <2>2
  <2> HIDE DEF A
  <2> QED
    BY <1>7, <2>1, <2>3, <2>4
<1>14. Mismatch(L) = 0
  <2>1. SumOf(V.consumption) \in Nat
    BY <1>1, SumOfMembers
  <2>2. Mismatch(L) = Abs(SumOf(V.consumption) - SumOf(V.consumption))
    BY <1>7, <1>8 DEF Mismatch
  <2> QED
    BY <2>1, <2>2 DEF Abs
<1>15. Cardinality(Energy(L)) = 2 * Cardinality(Members) /\ Cardinality(Members) \in Nat
  BY <1>1, <1>5, EnergyIs, FS_CardinalityType, ArithmeticAssumption
<1>16. 2 * PriceUnit * Abs(r) <= PriceUnit * Cardinality(Energy(L))
  BY <1>1, <1>5, ResidueBound
<1> HIDE DEF V, A, B, C, D, E, r
<1>17. ASSUME NEW l \in L
       PROVE  _validated_line_item(m, l)
  <2>1. CASE l.type = "consumer_charge"
    BY <1>7, <1>12, <2>1 DEF _validated_line_item
  <2>2. CASE l.type = "producer_credit"
    BY <1>8, <1>12, <2>2 DEF _validated_line_item
  <2>3. CASE l.type = "settlement_fee"
    <3>1. m.fee # 0
      BY <1>4, <1>12, <2>3
    <3> QED
      BY <1>9, <1>12, <2>3, <3>1 DEF _validated_line_item
  <2>4. CASE l.type = "rounding_adjustment"
    BY <1>10, <1>12, <2>4 DEF _validated_line_item
  <2>5. CASE l.type = "battery_cost_share"
    BY <1>11, <1>12, <2>5, ArithmeticAssumption DEF _validated_line_item
  <2> QED
    BY <1>12, <2>1, <2>2, <2>3, <2>4, <2>5 DEF Types
<1>18. \A l, k \in L \ D : l.of = k.of /\ l.type = k.type => l = k
  <2> SUFFICES ASSUME NEW l \in L \ D, NEW k \in L \ D, l.of = k.of, l.type = k.type
               PROVE  l = k
    OBVIOUS
  <2>1. CASE l.type = "consumer_charge"
    BY <1>7, <1>12, <2>1
  <2>2. CASE l.type = "producer_credit"
    BY <1>8, <1>12, <2>2
  <2>3. CASE l.type = "settlement_fee"
    <3>1. m.fee # 0
      BY <1>4, <1>12, <2>3
    <3> QED
      BY <1>9, <1>12, <2>3, <3>1
  <2>4. CASE l.type = "battery_cost_share"
    BY <1>11, <1>12, <2>4
  <2> QED
    BY <1>12, <2>1, <2>2, <2>3, <2>4 DEF Types
<1>19. 2 * Mismatch(L) <= Cardinality(Energy(L))
  BY <1>14, <1>15
<1>20. IF m.fee = 0 THEN C = {} ELSE Quantities(L, "settlement_fee") = Quantities(L, "consumer_charge")
  BY <1>4, <1>7, <1>9
<1>21. _require_rounding_adjustment(m, L)
  <2>1. r = 0 => D = {}
    BY <1>5, AdjustmentOf
  <2>2. r # 0 => Cardinality(D) = 1
    BY <1>5, AdjustmentOf
  <2>3. DOMAIN Quantities(L, "producer_credit") = Members
    BY <1>1, <1>8
  <2>4. 2 * PriceUnit * Abs(r) <= 2 * Mismatch(L) * m.price + PriceUnit * Cardinality(Energy(L))
    <3>1. 2 * Mismatch(L) * m.price = 0
      BY <1>1, <1>14
    <3>2. PriceUnit * Cardinality(Energy(L)) \in Int
      BY <1>15, ArithmeticAssumption
    <3> QED
      BY <1>16, <3>1, <3>2
  <2> QED
    BY <1>10, <2>1, <2>2, <2>3, <2>4 DEF _require_rounding_adjustment, D, r
<1>22. B # {}
  BY <1>8
<1>23. _require_wellformed_line_items(m, L)
  BY <1>13, <1>17, <1>18, <1>19, <1>20, <1>21, <1>22 DEF _require_wellformed_line_items, B, C, D
<1> QED
  BY <1>7, <1>8, <1>13, <1>23 DEF V

\* The audit a run writes is the one that approval demands of its lines.
LEMMA DraftReconciled ==
    ASSUME NEW m \in BilledMonths, delivered = Delivery(m, allocate_energy(m)), NEW given, NEW lines,
           Quantities(lines, "consumer_charge") = _vnb_reference.consumption,
           Quantities(lines, "producer_credit") = _vnb_reference.production
    PROVE  _require_canonical_reconciliation(m, reconcile_with_vnb(m, given), lines)
<1> DEFINE V == _vnb_reference
           ours == IF PrecisionBasis(m)
                   THEN [consumption |-> Persisted(OverSlots(given)),
                         production |-> Persisted(OverSlots(Credited(m, given)))]
                   ELSE V
           audit == reconcile_with_vnb(m, given)
           sides == {"consumption", "production"}
           billed(side) == Quantities(lines, IF side = "consumption" THEN "consumer_charge" ELSE "producer_credit")
<1>1. V.consumption \in [Members -> Nat] /\ V.production \in [Members -> Nat]
  BY ReferenceType
<1>2. audit = Compared(V, ours)
  BY DEF reconcile_with_vnb
<1>3. \A side \in sides : /\ audit[side].each = [p \in Members |-> Entry(V[side][p], ours[side][p])]
                          /\ audit[side].total = Entry(SumOf(V[side]), SumOf(ours[side]))
  BY <1>2 DEF Compared
<1>4. \A side \in sides : billed(side) = V[side]
  OBVIOUS
<1>5. \A side \in sides : V[side] \in [Members -> Nat]
  BY <1>1
<1>6. ~PrecisionBasis(m) => ours = V
  OBVIOUS
<1> HIDE DEF V, ours, audit, billed
<1>7. ASSUME NEW x, NEW y \in Nat, ~PrecisionBasis(m) => x = y
      PROVE  _validated_difference(m, Entry(y, x)) /\ Basis(m, Entry(y, x)) = y
  <2>1. /\ Entry(y, x).vnb = y /\ Entry(y, x).engine = x /\ Entry(y, x).difference = x - y
    BY DEF Entry
  <2>2. CASE PrecisionBasis(m)
    BY <2>1, <2>2 DEF _validated_difference, Basis
  <2>3. CASE ~PrecisionBasis(m)
    <3>1. x = y /\ x - y = 0
      BY <1>7, <2>3
    <3> QED
      BY <2>1, <2>3, <3>1 DEF _validated_difference, Basis
  <2> QED
    BY <2>2, <2>3
<1>8. ASSUME NEW side \in sides
      PROVE  /\ _validated_difference(m, audit[side].total)
             /\ DOMAIN billed(side) = DOMAIN audit[side].each
             /\ \A p \in DOMAIN billed(side) : /\ _validated_difference(m, audit[side].each[p])
                                               /\ Basis(m, audit[side].each[p]) = billed(side)[p]
             /\ Basis(m, audit[side].total) = SumOf(billed(side))
  <2>1. billed(side) = V[side] /\ V[side] \in [Members -> Nat] /\ SumOf(V[side]) \in Nat
    BY <1>4, <1>5, SumOfMembers
  <2>2. audit[side].total = Entry(SumOf(V[side]), SumOf(ours[side]))
    BY <1>3
  <2>3. _validated_difference(m, audit[side].total) /\ Basis(m, audit[side].total) = SumOf(V[side])
    BY <1>6, <1>7, <2>1, <2>2
  <2>4. ASSUME NEW p \in Members
        PROVE  _validated_difference(m, audit[side].each[p]) /\ Basis(m, audit[side].each[p]) = V[side][p]
    <3>1. audit[side].each[p] = Entry(V[side][p], ours[side][p]) /\ V[side][p] \in Nat
      BY <1>3, <2>1
    <3> QED
      BY <1>6, <1>7, <3>1
  <2>5. DOMAIN audit[side].each = Members /\ DOMAIN V[side] = Members
    BY <1>3, <2>1
  <2> QED
    BY <2>1, <2>3, <2>4, <2>5
<1> QED
  BY <1>8 DEF _require_canonical_reconciliation, audit, billed

\* The lines a run drafts of a balanced month meet every check of approval.
LEMMA DraftLinesApprovable ==
    ASSUME NEW m \in BilledMonths, delivered = Delivery(m, allocate_energy(m)), NEW given,
           given = allocate_energy(m), ~RunRefuses(m, given), NEW d, d = DraftOf(m, given)
    PROVE  LinesApprovable(m, d, d.lines)
<1> SumOf(_vnb_reference.consumption) = SumOf(_vnb_reference.production)
  BY DEF RunRefuses, VnbImbalance
<1>1. d.lines = EnergyLines(m, _vnb_reference) \cup BatteryLines(m) /\ d.audit = reconcile_with_vnb(m, given)
  BY DEF DraftOf
<1>2. PICK L : L = d.lines
  OBVIOUS
<1>3. /\ _require_wellformed_line_items(m, L)
      /\ Quantities(L, "consumer_charge") = _vnb_reference.consumption
      /\ Quantities(L, "producer_credit") = _vnb_reference.production
      /\ {l.of : l \in L} = Members
  BY <1>1, <1>2, DraftWellformed
<1>4. validate_billed_source(m, d.audit, L)
  <2>1. SUFFICES ASSUME m.format = "e66/1"
                 PROVE  reconcile_with_vnb(m, given) = IndependentAudit(m)
    BY <1>1, <1>3 DEF validate_billed_source
  <2> DEFINE ours == [consumption |-> Persisted(OverSlots(given)),
                      production |-> Persisted(OverSlots(Credited(m, given)))]
  <2>2. IndependentAudit(m) = Compared(_vnb_reference, ours)
    BY DEF IndependentAudit
  <2>3. CASE HasBattery(m)
    <3>1. BilledAsAllocated(m, given)
      BY <2>3 DEF RunRefuses
    <3>2. _vnb_reference = ours
      BY <3>1 DEF BilledAsAllocated, _vnb_reference
    <3>3. reconcile_with_vnb(m, given) = Compared(_vnb_reference, _vnb_reference)
      BY <2>3 DEF reconcile_with_vnb, PrecisionBasis
    <3> HIDE DEF ours
    <3> QED
      BY <2>2, <3>2, <3>3
  <2>4. CASE ~HasBattery(m)
    <3>1. reconcile_with_vnb(m, given) = Compared(_vnb_reference, ours)
      BY <2>1, <2>4 DEF reconcile_with_vnb, PrecisionBasis
    <3> QED
      BY <2>2, <3>1
  <2> QED
    BY <2>3, <2>4
<1>5. _require_canonical_reconciliation(m, d.audit, L)
  BY <1>1, <1>3, DraftReconciled
<1>6. _require_battery_cost_shares(m, L)
  <2> DEFINE shares == OfType(L, "battery_cost_share")
  <2>1. _vnb_reference.consumption \in [Members -> Nat] /\ _vnb_reference.production \in [Members -> Nat]
        /\ m.price \in Nat /\ m.fee \in Nat
    BY ReferenceType, MonthType
  <2>2. shares = BatteryLines(m)
    BY <1>1, <1>2, <2>1, LinesByType
  <2>3. ~HasBattery(m) => shares = {}
    BY <2>2 DEF BatteryLines
  <2>4. HasBattery(m) => shares = {Line(p, "battery_cost_share", None, None, AnnualShare) : p \in Consuming(m)}
    BY <2>2 DEF BatteryLines
  <2> HIDE DEF shares
  <2>5. ASSUME HasBattery(m)
        PROVE  /\ \A l, k \in shares : l.of = k.of => l = k
               /\ {l.of : l \in shares} = Consuming(m)
               /\ \A l \in shares : l.amount = AnnualShare
    <3>1. \A l \in shares : /\ l = Line(l.of, "battery_cost_share", None, None, AnnualShare)
                            /\ l.of \in Consuming(m) /\ l.amount = AnnualShare
      BY <2>4, <2>5 DEF Line
    <3>2. \A p \in Consuming(m) : \E l \in shares : l.of = p
      <4> TAKE p \in Consuming(m)
      <4>1. PICK l : l = Line(p, "battery_cost_share", None, None, AnnualShare)
        OBVIOUS
      <4>2. l \in shares
        BY <2>4, <2>5, <4>1
      <4>3. l.of = p
        BY <4>1 DEF Line
      <4> QED
        BY <4>2, <4>3
    <3> QED
      BY <3>1, <3>2
  <2> QED
    BY <1>3, <2>3, <2>5 DEF _require_battery_cost_shares, Consuming, shares
<1> QED
  BY <1>2, <1>3, <1>4, <1>5, <1>6 DEF LinesApprovable

\* No other lines are approved with this audit and this delivery.
LEMMA LinesPinned ==
    ASSUME NEW m \in BilledMonths, delivered = Delivery(m, allocate_energy(m)), NEW given,
           NEW d, d = DraftOf(m, given), NEW lines, lines \subseteq LineItem, LinesApprovable(m, d, lines)
    PROVE  lines = d.lines
<1> DEFINE V == _vnb_reference
<1>1. V.consumption \in [Members -> Nat] /\ V.production \in [Members -> Nat] /\ m.price \in Nat /\ m.fee \in Nat
  BY ReferenceType, MonthType
<1>2. PICK L : L = d.lines
  OBVIOUS
<1>3. L = EnergyLines(m, V) \cup BatteryLines(m) /\ d.audit = reconcile_with_vnb(m, given)
  BY <1>2 DEF DraftOf
<1>4. Quantities(lines, "consumer_charge") = V.consumption /\ Quantities(lines, "producer_credit") = V.production
  BY <1>3, ReconciledQuantities DEF LinesApprovable
<1>5. /\ \A l \in lines : _validated_line_item(m, l)
      /\ \A l, k \in lines \ OfType(lines, "rounding_adjustment") : l.of = k.of /\ l.type = k.type => l = k
      /\ IF m.fee = 0 THEN OfType(lines, "settlement_fee") = {}
         ELSE Quantities(lines, "settlement_fee") = Quantities(lines, "consumer_charge")
      /\ IF OfType(lines, "producer_credit") = {}
         THEN OfType(lines, "rounding_adjustment") = {}
         ELSE _require_rounding_adjustment(m, lines)
  BY DEF LinesApprovable, _require_wellformed_line_items
<1>6. ASSUME NEW type \in {"consumer_charge", "producer_credit", "settlement_fee"}
      PROVE  \A l, k \in OfType(lines, type) : l.of = k.of => l = k
  BY <1>5 DEF OfType
<1>7. ASSUME NEW type \in {"consumer_charge", "producer_credit", "settlement_fee"}, NEW l \in OfType(lines, type)
      PROVE  /\ l.price = (IF type = "settlement_fee" THEN m.fee ELSE m.price)
             /\ l.amount = (IF type = "producer_credit" THEN -1 ELSE 1) * _priced_amount(l.quantity, l.price)
  <2>1. l \in lines /\ l.type = type
    BY DEF OfType
  <2> QED
    BY <1>5, <2>1 DEF _validated_line_item
<1>8. OfType(lines, "consumer_charge") = Priced(V.consumption, "consumer_charge", m.price, 1)
  <2>1. PICK type : type = "consumer_charge"
    OBVIOUS
  <2>2. \A l, k \in OfType(lines, type) : l.of = k.of => l = k
    BY <1>6, <2>1
  <2>3. \A l \in OfType(lines, type) : l.price = m.price /\ l.amount = 1 * _priced_amount(l.quantity, m.price)
    BY <1>7, <2>1
  <2> HIDE DEF V
  <2> QED
    BY <1>1, <1>4, <2>1, <2>2, <2>3, PinnedByQuantity
<1>9. OfType(lines, "producer_credit") = Priced(V.production, "producer_credit", m.price, -1)
  <2>1. PICK type : type = "producer_credit"
    OBVIOUS
  <2>2. \A l, k \in OfType(lines, type) : l.of = k.of => l = k
    BY <1>6, <2>1
  <2>3. \A l \in OfType(lines, type) : l.price = m.price /\ l.amount = (-1) * _priced_amount(l.quantity, m.price)
    BY <1>7, <2>1
  <2> HIDE DEF V
  <2> QED
    BY <1>1, <1>4, <2>1, <2>2, <2>3, PinnedByQuantity
<1>10. OfType(lines, "settlement_fee")
         = IF m.fee = 0 THEN {} ELSE Priced(V.consumption, "settlement_fee", m.fee, 1)
  <2>1. PICK type : type = "settlement_fee"
    OBVIOUS
  <2>2. \A l, k \in OfType(lines, type) : l.of = k.of => l = k
    BY <1>6, <2>1
  <2>3. \A l \in OfType(lines, type) : l.price = m.fee /\ l.amount = 1 * _priced_amount(l.quantity, m.fee)
    BY <1>7, <2>1
  <2>4. CASE m.fee = 0
    BY <1>5, <2>4
  <2>5. CASE m.fee # 0
    <3>1. Quantities(lines, type) = V.consumption
      BY <1>4, <1>5, <2>1, <2>5
    <3> HIDE DEF V
    <3>2. OfType(lines, type) = Priced(V.consumption, type, m.fee, 1)
      BY <1>1, <2>2, <2>3, <3>1, PinnedByQuantity
    <3> QED
      BY <2>1, <2>5, <3>2
  <2> QED
    BY <2>4, <2>5
<1>11. /\ OfType(L, "consumer_charge") = Priced(V.consumption, "consumer_charge", m.price, 1)
       /\ OfType(L, "producer_credit") = Priced(V.production, "producer_credit", m.price, -1)
       /\ OfType(L, "settlement_fee")
            = IF m.fee = 0 THEN {} ELSE Priced(V.consumption, "settlement_fee", m.fee, 1)
       /\ OfType(L, "rounding_adjustment") = RoundingAdjustment(Amounts(EnergyPriced(m, V)))
       /\ OfType(L, "battery_cost_share") = BatteryLines(m)
       /\ L \subseteq LineItem
  BY <1>1, <1>3, LinesByType
<1>12. Energy(lines) = EnergyPriced(m, V)
  BY <1>8, <1>9 DEF Energy, EnergyPriced
<1>13. OfType(lines, "rounding_adjustment") = OfType(L, "rounding_adjustment")
  <2> DEFINE own == OfType(lines, "rounding_adjustment")
  <2>1. PICK r \in Int : r = Amounts(Energy(lines))
    BY <1>1, <1>12, EnergyIs
  <2>2. OfType(lines, "producer_credit") # {}
    <3>1. Members # {}
      BY SmallestMember
    <3> QED
      BY <1>1, <1>9, <3>1 DEF Priced
  <2>3. _require_rounding_adjustment(m, lines)
    BY <1>5, <2>2
  <2>4. CASE r = 0
    <3>1. own = {}
      BY <2>1, <2>3, <2>4 DEF _require_rounding_adjustment
    <3> QED
      BY <1>11, <1>12, <2>1, <2>4, <3>1, AdjustmentOf
  <2>5. CASE r # 0
    <3>1. Cardinality(own) = 1 /\ \A l \in own : l.of = Min(DOMAIN Quantities(lines, "producer_credit")) /\ l.amount = -r
      BY <2>1, <2>3, <2>5 DEF _require_rounding_adjustment
    <3>2. DOMAIN Quantities(lines, "producer_credit") = Members
      BY <1>1, <1>4
    <3>3. \A l \in own : l \in lines /\ l \in LineItem /\ l.type = "rounding_adjustment"
      BY DEF OfType
    <3>4. \A l \in own : l.quantity = None /\ l.price = None
      BY <1>5, <3>3 DEF _validated_line_item
    <3>5. \A l \in own : l = [of |-> l.of, type |-> l.type, quantity |-> l.quantity, price |-> l.price, amount |-> l.amount]
      BY <3>3 DEF LineItem
    <3>6. \A l \in own : l = Line(Min(Members), "rounding_adjustment", None, None, -r)
      BY <3>1, <3>2, <3>3, <3>4, <3>5 DEF Line
    <3>7. own # {}
      BY <3>1, FS_EmptySet
    <3> HIDE DEF own
    <3>8. own = {Line(Min(Members), "rounding_adjustment", None, None, -r)}
      BY <3>6, <3>7
    <3> QED
      BY <1>11, <1>12, <2>1, <2>5, <3>8, AdjustmentOf DEF own
  <2> QED
    BY <2>4, <2>5
<1>14. OfType(lines, "battery_cost_share") = BatteryLines(m)
  <2>1. PICK shares : shares = OfType(lines, "battery_cost_share")
    OBVIOUS
  <2>2. _require_battery_cost_shares(m, lines)
    BY DEF LinesApprovable
  <2>3. CASE ~HasBattery(m)
    BY <2>1, <2>2, <2>3 DEF _require_battery_cost_shares, BatteryLines
  <2>4. CASE HasBattery(m)
    <3>1. {l.of : l \in shares} = {l.of : l \in lines} \ {Battery(m)} /\ \A l \in shares : l.amount = AnnualShare
      BY <2>1, <2>2, <2>4 DEF _require_battery_cost_shares
    <3>2. {l.of : l \in lines} = Members
      <4>1. \A l \in lines : l.of \in Members
        BY DEF LineItem
      <4>2. {l.of : l \in OfType(lines, "consumer_charge")} = Members
        BY <1>1, <1>4 DEF Quantities
      <4>3. OfType(lines, "consumer_charge") \subseteq lines
        BY DEF OfType
      <4> QED
        BY <4>1, <4>2, <4>3
    <3>3. {l.of : l \in shares} = Consuming(m)
      BY <3>1, <3>2 DEF Consuming
    <3>4. \A l \in shares : l \in lines /\ l \in LineItem /\ l.type = "battery_cost_share"
      BY <2>1 DEF OfType
    <3>5. \A l \in shares : l.quantity = None /\ l.price = None
      BY <1>5, <3>4 DEF _validated_line_item
    <3>6. \A l \in shares : l = [of |-> l.of, type |-> l.type, quantity |-> l.quantity, price |-> l.price, amount |-> l.amount]
      BY <3>4 DEF LineItem
    <3>7. \A l \in shares : l = Line(l.of, "battery_cost_share", None, None, AnnualShare)
      BY <3>1, <3>4, <3>5, <3>6 DEF Line
    <3>8. shares = {Line(p, "battery_cost_share", None, None, AnnualShare) : p \in Consuming(m)}
      <4>1. \A l \in shares : l.of \in Consuming(m)
        BY <3>3
      <4>2. \A p \in Consuming(m) : \E l \in shares : l.of = p
        BY <3>3
      <4>3. \A p \in Consuming(m) : Line(p, "battery_cost_share", None, None, AnnualShare) \in shares
        BY <3>7, <4>2
      <4> QED
        BY <3>7, <4>1, <4>3
    <3> QED
      BY <2>1, <2>4, <3>8 DEF BatteryLines
  <2> QED
    BY <2>3, <2>4
<1>15. \A S \in SUBSET LineItem : \A l : l \in S <=> \E type \in Types : l \in OfType(S, type)
  BY DEF OfType, LineItem
<1>16. \A type \in Types : OfType(lines, type) = OfType(L, type)
  BY <1>8, <1>9, <1>10, <1>11, <1>13, <1>14 DEF Types
<1>17. \A l : (l \in lines <=> \E type \in Types : l \in OfType(lines, type))
  BY <1>15
<1>18. \A l : (l \in L <=> \E type \in Types : l \in OfType(L, type))
  BY <1>11, <1>15
<1>19. \A l : l \in lines <=> l \in L
  BY <1>16, <1>17, <1>18
<1> QED
  BY <1>2, <1>19

\* Every altered set of lines is one of lines of members, and not the draft's.
LEMMA AlteredLines ==
    ASSUME NEW m \in BilledMonths, NEW L, L \subseteq LineItem,
           \A l \in L : l.quantity \in Nat \cup {None} /\ (l.quantity # None => l.price \in Nat),
           NEW lines \in Altered(m, L)
    PROVE  lines \subseteq LineItem /\ lines # L
<1> DEFINE Reprice(l, q) == [l EXCEPT !.quantity = q,
                               !.amount = (IF l.type = "producer_credit" THEN -1 ELSE 1)
                                          * _priced_amount(q, l.price)]
           Less(l) == {L \ {l}}
           Dearer(l) == {(L \ {l}) \cup {[l EXCEPT !.amount = @ + e]} : e \in {-1, 1}}
           Elsewhere(l) == {(L \ {l}) \cup {[l EXCEPT !.of = p]} : p \in Members \ {l.of}}
           Repriced(l) == IF l.quantity \in {None, 0} THEN {}
                          ELSE {(L \ {l}) \cup {Reprice(l, l.quantity + e)} : e \in {-1, 1}}
<1>1. PICK l \in L :
         \/ lines = L \ {l}
         \/ \E e \in {-1, 1} : lines = (L \ {l}) \cup {[l EXCEPT !.amount = @ + e]}
         \/ \E p \in Members \ {l.of} : lines = (L \ {l}) \cup {[l EXCEPT !.of = p]}
         \/ l.quantity \notin {None, 0}
            /\ \E e \in {-1, 1} : lines = (L \ {l}) \cup {Reprice(l, l.quantity + e)}
  <2>1. Altered(m, L) = UNION {((Less(l) \cup Dearer(l)) \cup Elsewhere(l)) \cup Repriced(l) : l \in L}
    BY DEF Altered
  <2> HIDE DEF Less, Dearer, Elsewhere, Repriced
  <2>2. PICK l \in L : lines \in ((Less(l) \cup Dearer(l)) \cup Elsewhere(l)) \cup Repriced(l)
    BY <2>1
  <2>3. lines \in Less(l) \/ lines \in Dearer(l) \/ lines \in Elsewhere(l) \/ lines \in Repriced(l)
    BY <2>2
  <2> HIDE DEF Reprice
  <2> QED
    BY <2>3 DEF Less, Dearer, Elsewhere, Repriced
<1>2. /\ l \in LineItem /\ l.of \in Members /\ l.type \in Types
      /\ l.quantity \in Int /\ l.price \in Int /\ l.amount \in Int
  BY DEF LineItem
<1>3. l = [of |-> l.of, type |-> l.type, quantity |-> l.quantity, price |-> l.price, amount |-> l.amount]
  BY <1>2 DEF LineItem
<1>4. ASSUME NEW k, k \in LineItem, k # l, lines = (L \ {l}) \cup {k}
      PROVE  lines \subseteq LineItem /\ lines # L
  <2>1. l \notin lines
    BY <1>4
  <2> QED
    BY <1>4, <2>1
<1>5. CASE lines = L \ {l}
  BY <1>5
<1>6. ASSUME NEW e \in {-1, 1}, lines = (L \ {l}) \cup {[l EXCEPT !.amount = @ + e]}
      PROVE  lines \subseteq LineItem /\ lines # L
  <2>1. PICK k : k = [l EXCEPT !.amount = @ + e]
    OBVIOUS
  <2>2. k = [of |-> l.of, type |-> l.type, quantity |-> l.quantity, price |-> l.price, amount |-> l.amount + e]
    BY <1>3, <2>1
  <2>3. k \in LineItem /\ k.amount = l.amount + e /\ l.amount + e # l.amount
    BY <1>2, <2>2 DEF LineItem
  <2>4. k # l
    BY <2>3
  <2> QED
    BY <1>4, <1>6, <2>1, <2>3, <2>4
<1>7. ASSUME NEW p \in Members \ {l.of}, lines = (L \ {l}) \cup {[l EXCEPT !.of = p]}
      PROVE  lines \subseteq LineItem /\ lines # L
  <2>1. PICK k : k = [l EXCEPT !.of = p]
    OBVIOUS
  <2>2. k = [of |-> p, type |-> l.type, quantity |-> l.quantity, price |-> l.price, amount |-> l.amount]
    BY <1>3, <2>1
  <2>3. k \in LineItem /\ k.of # l.of
    BY <1>2, <2>2 DEF LineItem
  <2>4. k # l
    BY <2>3
  <2> QED
    BY <1>4, <1>7, <2>1, <2>3, <2>4
<1>8. ASSUME l.quantity \notin {None, 0}, NEW e \in {-1, 1},
             lines = (L \ {l}) \cup {Reprice(l, l.quantity + e)}
      PROVE  lines \subseteq LineItem /\ lines # L
  <2>1. PICK q : q = l.quantity + e
    OBVIOUS
  <2>2. l.quantity \in Nat /\ l.price \in Nat /\ l.quantity # 0
    BY <1>8
  <2>3. q \in Nat /\ q # l.quantity
    BY <2>1, <2>2
  <2>4. PICK price \in Nat : price = l.price
    BY <2>2
  <2>5. q * price \in Nat
    BY <2>3
  <2>6. _priced_amount(q, price) \in Nat
    BY <2>5, RoundingError, ArithmeticAssumption DEF _priced_amount
  <2>7. PICK amount : amount = (IF l.type = "producer_credit" THEN -1 ELSE 1) * _priced_amount(q, price)
    OBVIOUS
  <2>8. amount \in Int
    BY <2>6, <2>7
  <2>9. PICK k : k = Reprice(l, q)
    OBVIOUS
  <2>10. k = [l EXCEPT !.quantity = q, !.amount = amount]
    BY <2>4, <2>7, <2>9
  <2>11. k = [of |-> l.of, type |-> l.type, quantity |-> q, price |-> l.price, amount |-> amount]
    BY <1>3, <2>10
  <2>12. k \in LineItem /\ k.quantity # l.quantity
    BY <1>2, <2>3, <2>8, <2>11 DEF LineItem
  <2>13. k # l
    BY <2>12
  <2> QED
    BY <1>4, <1>8, <2>1, <2>9, <2>12, <2>13
<1> QED
  BY <1>1, <1>5, <1>6, <1>7, <1>8

\* The lines of a draft can be altered, and what members pay each other cancels.
LEMMA DraftLines ==
    ASSUME NEW m \in BilledMonths, delivered = Delivery(m, allocate_energy(m)), NEW given,
           NEW L, L = DraftOf(m, given).lines
    PROVE  /\ L \subseteq LineItem
           /\ \A l \in L : l.quantity \in Nat \cup {None} /\ (l.quantity # None => l.price \in Nat)
           /\ Amounts(Energy(L) \cup OfType(L, "rounding_adjustment")) = 0
<1> DEFINE V == _vnb_reference
           E == EnergyPriced(m, V)
<1>1. V.consumption \in [Members -> Nat] /\ V.production \in [Members -> Nat] /\ m.price \in Nat /\ m.fee \in Nat
  BY ReferenceType, MonthType
<1>2. L = EnergyLines(m, V) \cup BatteryLines(m)
  BY DEF DraftOf
<1>3. /\ L \subseteq LineItem
      /\ OfType(L, "consumer_charge") = Priced(V.consumption, "consumer_charge", m.price, 1)
      /\ OfType(L, "producer_credit") = Priced(V.production, "producer_credit", m.price, -1)
      /\ OfType(L, "settlement_fee")
           = IF m.fee = 0 THEN {} ELSE Priced(V.consumption, "settlement_fee", m.fee, 1)
      /\ OfType(L, "rounding_adjustment") = RoundingAdjustment(Amounts(E))
      /\ OfType(L, "battery_cost_share") = BatteryLines(m)
      /\ Energy(L) = E
  BY <1>1, <1>2, LinesByType
<1>4. IsFiniteSet(E) /\ E \subseteq LineItem /\ Amounts(E) \in Int
  BY <1>1, EnergyIs
<1> HIDE DEF V, E
<1>5. ASSUME NEW type, NEW f \in [Members -> Nat], NEW price \in Nat, NEW sign,
             NEW l \in Priced(f, type, price, sign)
      PROVE  l.quantity \in Nat /\ l.price \in Nat
  BY <1>5 DEF Priced, Line
<1>6. ASSUME NEW l \in L
      PROVE  l.quantity \in Nat \cup {None} /\ (l.quantity # None => l.price \in Nat)
  <2>1. l \in OfType(L, l.type) /\ l.type \in Types
    BY <1>3 DEF OfType, LineItem
  <2>2. CASE l.type = "consumer_charge"
    BY <1>1, <1>3, <1>5, <2>1, <2>2
  <2>3. CASE l.type = "producer_credit"
    BY <1>1, <1>3, <1>5, <2>1, <2>3
  <2>4. CASE l.type = "settlement_fee"
    BY <1>1, <1>3, <1>5, <2>1, <2>4
  <2>5. CASE l.type = "rounding_adjustment"
    BY <1>3, <1>4, <2>1, <2>5, AdjustmentOf
  <2>6. CASE l.type = "battery_cost_share"
    <3>1. l \in BatteryLines(m)
      BY <1>3, <2>1, <2>6
    <3> QED
      BY <3>1 DEF BatteryLines, Line
  <2> QED
    BY <2>1, <2>2, <2>3, <2>4, <2>5, <2>6 DEF Types
<1>7. Amounts(Energy(L) \cup OfType(L, "rounding_adjustment")) = 0
  <2>1. PICK r \in Int : r = Amounts(E)
    BY <1>4
  <2>2. CASE r = 0
    <3>1. OfType(L, "rounding_adjustment") = {}
      BY <1>3, <2>1, <2>2, AdjustmentOf
    <3>2. Energy(L) \cup {} = E
      BY <1>3
    <3> QED
      BY <2>1, <2>2, <3>1, <3>2
  <2>3. CASE r # 0
    <3>1. PICK k : k = Line(Min(Members), "rounding_adjustment", None, None, -r)
      OBVIOUS
    <3>2. Energy(L) \cup OfType(L, "rounding_adjustment") = E \cup {k}
      BY <1>3, <2>1, <2>3, <3>1, AdjustmentOf
    <3>3. k.amount = -r /\ k.type = "rounding_adjustment"
      BY <3>1 DEF Line
    <3>4. k \notin E
      BY <1>3, <3>3 DEF Energy, OfType
    <3>5. PICK w : w = [l \in E \cup {k} |-> l.amount]
      OBVIOUS
    <3>6. \A l \in E \cup {k} : w[l] = l.amount /\ w[l] \in Int
      BY <1>4, <3>3, <3>5 DEF LineItem
    <3>7. IsFiniteSet({k}) /\ IsFiniteSet(E \cup {k}) /\ E \cap {k} = {}
      BY <1>4, <3>4, FS_Singleton, FS_Union
    <3>8. Amounts(E \cup {k}) = Total(w, E \cup {k})
      BY <3>6, <3>7, AmountsAreTotal
    <3>9. Amounts(E) = Total(w, E)
      BY <1>4, <3>6, AmountsAreTotal
    <3>10. Total(w, {k}) = -r
      <4>1. w[k] = -r /\ w[k] \in Int
        BY <3>3, <3>6
      <4> QED
        BY <4>1, TotalOfOne
    <3>11. Total(w, E \cup {k}) = Total(w, E) + Total(w, {k})
      BY <1>4, <3>6, <3>7, TotalOfBoth
    <3>12. r + -r = 0
      OBVIOUS
    <3> QED
      BY <2>1, <3>2, <3>8, <3>9, <3>10, <3>11, <3>12
  <2> QED
    BY <2>2, <2>3
<1> QED
  BY <1>3, <1>6, <1>7

-----------------------------------------------------------------------------
(* A month that is billed.                                                 *)

\* The delivery is the grid operator's of the month, and the draft the one
\* that a run makes of it, of a split that balances.
MoneyIInv ==
    /\ month \in BilledMonths /\ delivered = Delivery(month, allocate_energy(month))
    /\ stage \in {"open", "refused", "draft", "invoiced"}
    /\ IF stage \in {"draft", "invoiced"}
       THEN draft = DraftOf(month, allocate_energy(month)) /\ ~RunRefuses(month, allocate_energy(month))
       ELSE draft = NoDraft
    /\ stage = "invoiced" => bills = Snapshots(draft.lines)

LEMMA MoneyIInvInit == (month \in BilledMonths /\ MoneyStart) => MoneyIInv
  BY DEF MoneyStart, MoneyIInv

LEMMA MoneyIInvStep == MoneyIInv /\ [MoneyNext]_moneyVars => MoneyIInv'
<1> SUFFICES ASSUME MoneyIInv, [MoneyNext]_moneyVars
             PROVE  MoneyIInv'
  OBVIOUS
<1>1. ASSUME UNCHANGED <<month, delivered>>, NEW given
      PROVE  RunRefuses(month, given)' <=> RunRefuses(month, given)
  BY <1>1 DEF RunRefuses, VnbImbalance, IntervalsAgree, BilledAsAllocated, _vnb_reference
<1>2. ASSUME UNCHANGED <<month, delivered>>, NEW given
      PROVE  DraftOf(month, given)' = DraftOf(month, given)
  BY <1>2 DEF DraftOf, reconcile_with_vnb, _vnb_reference
<1>3. CASE run_billing_period
  BY <1>1, <1>2, <1>3 DEF run_billing_period, MoneyIInv
<1>4. CASE prepare_invoice_snapshots
  BY <1>1, <1>2, <1>4 DEF prepare_invoice_snapshots, MoneyIInv
<1>5. CASE UNCHANGED moneyVars
  BY <1>1, <1>2, <1>5 DEF moneyVars, MoneyIInv
<1> QED
  BY <1>3, <1>4, <1>5 DEF MoneyNext

LEMMA MoneyIInvHolds == MoneySpec => []MoneyIInv
<1> QED
  BY MoneyIInvInit, MoneyIInvStep, PTL DEF MoneySpec

\* The period keeps its types: it has a draft once a run made one, and every
\* member has an invoice once it was approved.
THEOREM MoneyTypes == MoneySpec => []MoneyTypeOK
<1>1. MoneyIInv => MoneyTypeOK
  <2> SUFFICES ASSUME MoneyIInv
               PROVE  MoneyTypeOK
    OBVIOUS
  <2>1. ASSUME stage \in {"draft", "invoiced"}
        PROVE  {l.of : l \in draft.lines} = Members
    <3>1. /\ month \in BilledMonths /\ delivered = Delivery(month, allocate_energy(month))
          /\ draft = DraftOf(month, allocate_energy(month))
          /\ SumOf(_vnb_reference.consumption) = SumOf(_vnb_reference.production)
      BY <2>1 DEF MoneyIInv, RunRefuses, VnbImbalance
    <3>2. draft.lines = EnergyLines(month, _vnb_reference) \cup BatteryLines(month)
      BY <3>1 DEF DraftOf
    <3> QED
      BY <3>1, <3>2, DraftWellformed
  <2>2. stage \in {"draft", "invoiced"} => draft # NoDraft
    <3> SUFFICES ASSUME stage \in {"draft", "invoiced"}, draft = NoDraft
                 PROVE  FALSE
      OBVIOUS
    <3>1. draft.lines = {}
      BY DEF NoDraft
    <3>2. Members = {}
      BY <2>1, <3>1
    <3> QED
      BY <3>2, SmallestMember
  <2>3. stage = "invoiced" => DOMAIN bills = Members
    BY <2>1 DEF MoneyIInv, Snapshots
  <2> QED
    BY <2>2, <2>3 DEF MoneyIInv, MoneyTypeOK
<1> QED
  BY <1>1, MoneyIInvHolds, PTL

\* Every draft a run saves has lines that approval accepts: no rounding and no
\* redistribution by the grid operator meets a check that does not foresee it.
THEOREM DraftLinesAreApprovable == MoneySpec => []LinesAreApprovable
<1>1. MoneyIInv => LinesAreApprovable
  <2> SUFFICES ASSUME MoneyIInv, stage = "draft"
               PROVE  LinesApprovable(month, draft, draft.lines)
    BY DEF LinesAreApprovable
  <2>1. /\ month \in BilledMonths /\ delivered = Delivery(month, allocate_energy(month))
        /\ draft = DraftOf(month, allocate_energy(month))
        /\ ~RunRefuses(month, allocate_energy(month))
    BY DEF MoneyIInv
  <2> QED
    BY <2>1, DraftLinesApprovable
<1> QED
  BY <1>1, MoneyIInvHolds, PTL

\* And approval accepts no other: an amount, a quantity or a member changed, or
\* a line left out, is refused, and what members pay each other cancels.
THEOREM ApprovalPinsTheLinesHolds == MoneySpec => []ApprovalPinsTheLines
<1>1. MoneyIInv => ApprovalPinsTheLines
  <2> SUFFICES ASSUME MoneyIInv, stage = "draft"
               PROVE  /\ \A lines \in Altered(month, draft.lines) : ~LinesApprovable(month, draft, lines)
                      /\ Amounts(Energy(draft.lines) \cup OfType(draft.lines, "rounding_adjustment")) = 0
    BY DEF ApprovalPinsTheLines
  <2>1. PICK given : given = allocate_energy(month)
    OBVIOUS
  <2>2. /\ month \in BilledMonths /\ delivered = Delivery(month, allocate_energy(month))
        /\ draft = DraftOf(month, given)
    BY <2>1 DEF MoneyIInv
  <2>3. PICK L : L = draft.lines
    OBVIOUS
  <2>4. /\ L \subseteq LineItem
        /\ \A l \in L : l.quantity \in Nat \cup {None} /\ (l.quantity # None => l.price \in Nat)
        /\ Amounts(Energy(L) \cup OfType(L, "rounding_adjustment")) = 0
    BY <2>2, <2>3, DraftLines
  <2>5. ASSUME NEW lines \in Altered(month, L), LinesApprovable(month, draft, lines)
        PROVE  FALSE
    <3>1. lines \subseteq LineItem /\ lines # L
      BY <2>2, <2>4, AlteredLines
    <3>2. lines = L
      BY <2>2, <2>3, <2>5, <3>1, LinesPinned
    <3> QED
      BY <3>1, <3>2
  <2> QED
    BY <2>3, <2>4, <2>5
<1> QED
  BY <1>1, MoneyIInvHolds, PTL
=============================================================================
