-------------------------- MODULE SharedQuota_proofs --------------------------
(***************************************************************************)
(* Proofs about SharedQuota for any set of runs, any set of request ids,   *)
(* any capacity and any number of consume attempts.                        *)
(***************************************************************************)
EXTENDS SharedQuota, TLAPS

\* A run that was granted a reservation, whether or not it has read the answer.
Holder(p) == Entered(p) \/ (pc[p] = "reserving" /\ call[p] = "reserved")

\* Runs whose flow and accounting succeeded, and runs that gave their unit back.
Succeeded(p) == pc[p] \in {"consuming", "answered", "chargeError"}
GaveBack(p)  == pc[p] \in {"releasing", "executeError"}

\* An id with a holder has a record, and one holder only.
HoldersApart ==
  /\ \A p \in Run : Holder(p) => ledger[rid[p]] # "none"
  /\ \A p, q \in Run : Holder(p) /\ Holder(q) /\ rid[p] = rid[q] => p = q

\* A run that goes past executeFlow saved a message, and counts attempts once it did.
SavedByFlow ==
  /\ \A p \in Run : attempt[p] > 0 <=> Succeeded(p)
  /\ \A p \in Run : pc[p] = "accounting" \/ Succeeded(p) => p \in saved
  /\ \A p \in saved : pc[p] = "accounting" \/ Succeeded(p) \/ GaveBack(p)

\* Every consume and release, even a late one, stems from a run that came to that end.
LateHasCause ==
  \A r \in Rid :
    /\ <<"consume", r>> \in late => \E p \in Run : Succeeded(p) /\ rid[p] = r
    /\ <<"release", r>> \in late => \E p \in Run : GaveBack(p) /\ rid[p] = r

\* So has every record that is consumed or released.
RecordHasCause ==
  \A r \in Rid :
    /\ ledger[r] = "consumed" => \E p \in Run : Succeeded(p) /\ rid[p] = r
    /\ ledger[r] = "released" => \/ r \in expired
                                 \/ \E p \in Run : GaveBack(p) /\ rid[p] = r

\* An answer that says "consumed" stays true.
AnswerIsTrue ==
  \A p \in Run : \/ pc[p] = "answered"
                 \/ pc[p] = "consuming" /\ Consumed(call[p])
                 => ledger[rid[p]] = "consumed"

IInv == TypeOK /\ HoldersApart /\ SavedByFlow /\ LateHasCause /\ RecordHasCause /\ AnswerIsTrue

--------------------------------------------------------------------------------
\* Which record a call leaves depends on the record it finds.
LEMMA ApplyRecord ==
  ASSUME TypeOK, NEW op \in Op, NEW r \in Rid, Apply(op, r), NEW s \in Rid
  PROVE  \/ ledger'[s] = ledger[s]
         \/ /\ s = r
            /\ \/ op = "reserve" /\ ledger[s] = "none" /\ ledger'[s] = "reserved"
               \/ op = "consume" /\ ledger[s] = "reserved" /\ ledger'[s] = "consumed"
               \/ op = "release" /\ ledger[s] = "reserved" /\ ledger'[s] = "released"
BY DEF TypeOK, Op, Apply, Applies, RecordAfter

\* The invariant holds initially.
LEMMA InitInv == Init => IInv
<1> SUFFICES ASSUME Init PROVE IInv
  OBVIOUS
<1>1. TypeOK
  BY QuotaAssumption DEF Init, TypeOK, Record
<1>2. HoldersApart
  BY DEF Init, HoldersApart, Holder, Entered
<1>3. SavedByFlow /\ AnswerIsTrue
  BY DEF Init, SavedByFlow, Succeeded, AnswerIsTrue
<1>4. LateHasCause /\ RecordHasCause
  BY DEF Init, LateHasCause, RecordHasCause
<1> QED
  BY <1>1, <1>2, <1>3, <1>4 DEF IInv

\* A call that reaches the service late finds the record as its run left it.
LEMMA LateInv == ASSUME IInv, NEW c \in late, ServeLate(c) PROVE IInv'
<1> PICK op \in Op, r \in Rid : c = <<op, r>>
  BY DEF IInv, TypeOK
<1>1. Apply(op, r) /\ c[1] = op /\ c[2] = r
  BY DEF ServeLate
<1>2. \A s \in Rid :
        \/ ledger'[s] = ledger[s]
        \/ /\ s = r
           /\ \/ op = "reserve" /\ ledger[s] = "none" /\ ledger'[s] = "reserved"
              \/ op = "consume" /\ ledger[s] = "reserved" /\ ledger'[s] = "consumed"
              \/ op = "release" /\ ledger[s] = "reserved" /\ ledger'[s] = "released"
  BY <1>1, ApplyRecord DEF IInv
<1>3. TypeOK'
  BY <1>1 DEF IInv, TypeOK, Record, ServeLate, Apply, RecordAfter
<1>4. HoldersApart'
  BY <1>2 DEF IInv, TypeOK, HoldersApart, Holder, Entered, ServeLate
<1>5. SavedByFlow'
  BY DEF IInv, SavedByFlow, Succeeded, GaveBack, ServeLate
<1>6. LateHasCause'
  BY DEF IInv, LateHasCause, Succeeded, GaveBack, ServeLate
<1>7. RecordHasCause'
  <2>1. /\ op = "consume" => \E p \in Run : Succeeded(p) /\ rid[p] = r
        /\ op = "release" => \E p \in Run : GaveBack(p) /\ rid[p] = r
    BY DEF IInv, LateHasCause, ServeLate
  <2>2. UNCHANGED <<pc, rid, expired>>
    BY DEF ServeLate
  <2>3. ASSUME NEW s \in Rid, ledger'[s] = ledger[s]
        PROVE  /\ ledger'[s] = "consumed" => \E p \in Run : Succeeded(p) /\ rid[p] = s
               /\ ledger'[s] = "released" => \/ s \in expired
                                            \/ \E p \in Run : GaveBack(p) /\ rid[p] = s
    BY <2>3 DEF IInv, RecordHasCause
  <2>4. ASSUME NEW s \in Rid, ledger'[s] # ledger[s]
        PROVE  /\ ledger'[s] = "consumed" => \E p \in Run : Succeeded(p) /\ rid[p] = s
               /\ ledger'[s] = "released" => \E p \in Run : GaveBack(p) /\ rid[p] = s
    BY <2>1, <2>4, <1>2
  <2> QED
    BY <2>2, <2>3, <2>4 DEF RecordHasCause, Succeeded, GaveBack
<1>8. AnswerIsTrue'
  BY <1>2 DEF IInv, TypeOK, AnswerIsTrue, Consumed, ServeLate
<1> QED
  BY <1>3, <1>4, <1>5, <1>6, <1>7, <1>8 DEF IInv

\* Every step preserves the invariant.
LEMMA StepInv == IInv /\ [Next]_vars => IInv'
<1> SUFFICES ASSUME IInv, [Next]_vars PROVE IInv'
  OBVIOUS
<1> USE QuotaAssumption
    DEF IInv, TypeOK, Op, Waiting, Refused, Ended, Record, Refusal, Status,
        HoldersApart, Holder, Entered, SavedByFlow, Succeeded, GaveBack,
        LateHasCause, RecordHasCause, AnswerIsTrue, Consumed
<1>1. ASSUME NEW p \in Run, Bypass(p) \/ Start(p) PROVE IInv'
  BY <1>1 DEF Bypass, Start, Goto
<1>2. ASSUME NEW p \in Run, ResolveFails(p) PROVE IInv'
  BY <1>2 DEF ResolveFails, Goto
<1>3. ASSUME NEW p \in Run, Resolved(p) PROVE IInv'
  BY <1>3 DEF Resolved, Send, Goto
<1>4. ASSUME NEW p \in Run, ReserveReturns(p) PROVE IInv'
  BY <1>4 DEF ReserveReturns, ReserveOutcome, Leave, Goto
<1>5. ASSUME NEW p \in Run, FlowSaves(p) \/ FlowSavesAndThrows(p) PROVE IInv'
  BY <1>5 DEF FlowSaves, FlowSavesAndThrows, Send, Goto
<1>6. ASSUME NEW p \in Run, FlowFails(p) PROVE IInv'
  BY <1>6 DEF FlowFails, Send, Goto
<1>7. ASSUME NEW p \in Run, AccountingFails(p) PROVE IInv'
  BY <1>7 DEF AccountingFails, Send, Goto
<1>8. ASSUME NEW p \in Run, AccountingDone(p) PROVE IInv'
  BY <1>8 DEF AccountingDone, Send, Goto
<1>9. ASSUME NEW p \in Run, ConsumeSucceeds(p) PROVE IInv'
  BY <1>9 DEF ConsumeSucceeds, Leave, Goto
<1>10. ASSUME NEW p \in Run, ConsumeTooLate(p) PROVE IInv'
  BY <1>10 DEF ConsumeTooLate, Leave, Goto
<1>11. ASSUME NEW p \in Run, ConsumeRetries(p) PROVE IInv'
  BY <1>11 DEF ConsumeRetries, AttemptsLeft, Send, Goto
<1>12. ASSUME NEW p \in Run, ConsumeGivesUp(p) PROVE IInv'
  BY <1>12 DEF ConsumeGivesUp, AttemptsLeft, Leave, Goto
<1>13. ASSUME NEW p \in Run, ReleaseReturns(p) PROVE IInv'
  BY <1>13 DEF ReleaseReturns, Leave, Goto
<1>14. ASSUME NEW p \in Run, Serve(p) PROVE IInv'
  BY <1>14 DEF Serve, InCall, OpOf, StatusOf, Apply, Applies, RecordAfter
<1>15. ASSUME NEW p \in Run, Refuse(p) PROVE IInv'
  BY <1>15 DEF Refuse, InCall
<1>16. ASSUME NEW p \in Run, Break(p) PROVE IInv'
  BY <1>16 DEF Break, InCall, OpOf
<1>17. ASSUME NEW c \in late, ServeLate(c) PROVE IInv'
  BY <1>17, LateInv
<1>18. ASSUME NEW c \in late, DropLate(c) PROVE IInv'
  BY <1>18 DEF DropLate
<1>19. ASSUME NEW r \in Rid, Expire(r) PROVE IInv'
  BY <1>19 DEF Expire
<1>20. CASE UNCHANGED vars
  BY <1>20 DEF vars
<1> QED
  BY <1>1, <1>2, <1>3, <1>4, <1>5, <1>6, <1>7, <1>8, <1>9, <1>10, <1>11, <1>12, <1>13,
     <1>14, <1>15, <1>16, <1>17, <1>18, <1>19, <1>20
     DEF Next, Handler, Network

\* IInv is an invariant of the runs and the service.
THEOREM Invariance == Spec => []IInv
<1> QED
  BY InitInv, StepInv, PTL DEF Spec

\* The type invariant holds for every instance.
THEOREM TypeCorrect == Spec => []TypeOK
<1>1. IInv => TypeOK
  BY DEF IInv
<1> QED
  BY <1>1, Invariance, PTL

\* No interleaving of runs, retries and late calls runs the flow of one id twice.
THEOREM ExecutesOnce == Spec => []OneExecution
<1>1. IInv => OneExecution
  BY DEF IInv, HoldersApart, Holder, OneExecution
<1> QED
  BY <1>1, Invariance, PTL

\* Every message returned to a caller under a reservation is charged.
THEOREM AnswersAreCharged == Spec => []AnsweredIsCharged
<1>1. IInv => AnsweredIsCharged
  BY DEF IInv, AnswerIsTrue, AnsweredIsCharged
<1> QED
  BY <1>1, Invariance, PTL

\* Every unit charged pays for a saved message.
THEOREM ChargesAreSaved == Spec => []ChargedIsSaved
<1>1. IInv => ChargedIsSaved
  BY DEF IInv, RecordHasCause, SavedByFlow, Succeeded, ChargedIsSaved
<1> QED
  BY <1>1, Invariance, PTL

\* The program never gives back the unit of a flow that succeeded.
THEOREM SuccessIsKept == Spec => []NoRefundAfterSuccess
<1>1. ASSUME IInv, NEW p \in Run, attempt[p] > 0, ledger[rid[p]] = "released"
      PROVE  rid[p] \in expired
  <2>1. \A q \in Run : GaveBack(q) => rid[q] # rid[p]
    BY <1>1 DEF IInv, HoldersApart, Holder, Entered, SavedByFlow, Succeeded, GaveBack
  <2>2. rid[p] \in Rid
    BY <1>1 DEF IInv, TypeOK
  <2> QED
    BY <1>1, <2>1, <2>2 DEF IInv, RecordHasCause
<1>2. IInv => NoRefundAfterSuccess
  BY <1>1 DEF NoRefundAfterSuccess
<1> QED
  BY <1>2, Invariance, PTL

--------------------------------------------------------------------------------
\* The record of one id decides how its account stands.
LEMMA AccountOf ==
  ASSUME TypeOK, NEW r \in Rid
  PROVE  /\ accountBar[r] = "none" <=> ledger[r] = "none"
         /\ accountBar[r] = "held" <=> ledger[r] = "reserved"
         /\ accountBar[r] = "charged" <=> ledger[r] = "consumed"
         /\ accountBar[r] = "refunded" <=> ledger[r] = "released"
BY DEF TypeOK, Record, accountBar

\* The units in use are the same on both sides, and so is their number.
LEMMA UsedIsUsed == TypeOK => Metered!Cardinality(Metered!Used) = Cardinality(Used)
<1>1. TypeOK => Metered!Used = Used
  BY AccountOf DEF Metered!Used, Used
<1>2. Metered!Cardinality(Used) = Cardinality(Used)
  BY Zenon DEF Cardinality, Metered!Cardinality
<1> QED
  BY <1>1, <1>2

\* Steps that leave the ledger, the saved messages and the answers alone are invisible.
LEMMA Invisible ==
  UNCHANGED <<ledger, rid, saved>> /\ (\A q \in Run : (pc'[q] = "answered") <=> (pc[q] = "answered"))
    => UNCHANGED Metered!vars
BY DEF Metered!vars, accountBar, savedBar, deliveredBar

\* A call the service sees holds, charges or refunds the unit, or changes nothing.
LEMMA ApplyRefines ==
  ASSUME TypeOK, NEW op \in Op, NEW r \in Rid, Apply(op, r),
         UNCHANGED <<pc, rid, saved>>,
         op = "consume" => r \in savedBar
  PROVE  Metered!Next \/ UNCHANGED Metered!vars
<1>1. UNCHANGED <<savedBar, deliveredBar>>
  BY DEF savedBar, deliveredBar
<1>2. CASE ~Applies(op, r)
  <2>1. ledger' = ledger
    BY <1>2 DEF Apply
  <2> QED
    BY <1>1, <2>1 DEF Metered!vars, accountBar
<1>3. ASSUME Applies(op, r)
      PROVE  accountBar' = [accountBar EXCEPT ![r] =
               CASE op = "reserve" -> "held" [] op = "consume" -> "charged" [] OTHER -> "refunded"]
  <2>1. ledger' = [ledger EXCEPT ![r] = RecordAfter(op)]
    BY <1>3 DEF Apply
  <2>2. CASE op = "reserve"
    BY <2>1, <2>2 DEF RecordAfter, TypeOK, accountBar
  <2>3. CASE op = "consume"
    BY <2>1, <2>3 DEF RecordAfter, TypeOK, accountBar
  <2>4. CASE op = "release"
    BY <2>1, <2>4 DEF RecordAfter, TypeOK, accountBar
  <2> QED
    BY <2>2, <2>3, <2>4 DEF Op
<1>4. CASE Applies(op, r) /\ op = "reserve"
  <2>1. accountBar[r] = "none" /\ Metered!Cardinality(Metered!Used) < Capacity
    BY <1>4, AccountOf, UsedIsUsed DEF Applies
  <2> QED
    BY <1>1, <1>3, <1>4, <2>1 DEF Metered!Next, Metered!Hold
<1>5. CASE Applies(op, r) /\ op = "consume"
  <2>1. accountBar[r] = "held" /\ r \in savedBar
    BY <1>5, AccountOf DEF Applies
  <2> QED
    BY <1>1, <1>3, <1>5, <2>1 DEF Metered!Next, Metered!Charge
<1>6. CASE Applies(op, r) /\ op = "release"
  <2>1. accountBar[r] = "held"
    BY <1>6, AccountOf DEF Applies
  <2> QED
    BY <1>1, <1>3, <1>6, <2>1 DEF Metered!Next, Metered!Refund
<1> QED
  BY <1>2, <1>4, <1>5, <1>6 DEF Op

\* Every step of the runs and the service is a step of the metered delivery, or none.
LEMMA StepRefines == IInv /\ [Next]_vars => [Metered!Next]_(Metered!vars)
<1> SUFFICES ASSUME IInv, [Next]_vars PROVE Metered!Next \/ UNCHANGED Metered!vars
  OBVIOUS
<1> USE DEF IInv
<1>1. ASSUME NEW p \in Run, Bypass(p) \/ Start(p) \/ ResolveFails(p) \/ Resolved(p)
                            \/ ReserveReturns(p) \/ FlowFails(p)
      PROVE  UNCHANGED Metered!vars
  BY <1>1, Invisible
     DEF TypeOK, Bypass, Start, ResolveFails, Resolved, ReserveReturns, ReserveOutcome,
         FlowFails, Leave, Send, Goto
<1>2. ASSUME NEW p \in Run, AccountingFails(p) \/ AccountingDone(p) \/ ConsumeTooLate(p)
                            \/ ConsumeRetries(p) \/ ConsumeGivesUp(p) \/ ReleaseReturns(p)
                            \/ Refuse(p) \/ Break(p)
      PROVE  UNCHANGED Metered!vars
  BY <1>2, Invisible
     DEF TypeOK, AccountingFails, AccountingDone, ConsumeTooLate, ConsumeRetries,
         ConsumeGivesUp, ReleaseReturns, Refuse, Break, Leave, Send, Goto
<1>3. ASSUME NEW p \in Run, FlowSaves(p) \/ FlowSavesAndThrows(p) PROVE Metered!Save(rid[p])
  <2>1. /\ rid[p] \in Rid
        /\ ledger[rid[p]] # "none"
        /\ \A q \in Run : Entered(q) /\ rid[q] = rid[p] => q = p
        /\ ~Succeeded(p) /\ p \notin saved
    BY <1>3 DEF FlowSaves, FlowSavesAndThrows, TypeOK, HoldersApart, Holder, Entered, SavedByFlow, Succeeded, GaveBack
  <2>2. ledger[rid[p]] # "consumed"
    BY <2>1 DEF RecordHasCause, Succeeded, Entered
  <2>3. rid[p] \notin savedBar
    BY <2>1 DEF savedBar, SavedByFlow, Succeeded, GaveBack, Entered, TypeOK
  <2>4. savedBar' = savedBar \cup {rid[p]}
    BY <1>3 DEF FlowSaves, FlowSavesAndThrows, savedBar
  <2>5. UNCHANGED <<accountBar, deliveredBar>>
    BY <1>3 DEF FlowSaves, FlowSavesAndThrows, Send, Goto, TypeOK, accountBar, deliveredBar
  <2> QED
    BY <2>1, <2>2, <2>3, <2>4, <2>5, AccountOf DEF Metered!Save, TypeOK, Record
<1>4. ASSUME NEW p \in Run, ConsumeSucceeds(p) PROVE Metered!Return(rid[p])
  <2>1. /\ rid[p] \in Rid
        /\ ledger[rid[p]] = "consumed"
        /\ \A q \in Run : Entered(q) /\ rid[q] = rid[p] => q = p
    BY <1>4 DEF ConsumeSucceeds, TypeOK, HoldersApart, Holder, Entered, AnswerIsTrue
  <2>2. rid[p] \notin deliveredBar
    BY <1>4, <2>1 DEF ConsumeSucceeds, deliveredBar, Entered
  <2>3. deliveredBar' = deliveredBar \cup {rid[p]}
    BY <1>4 DEF ConsumeSucceeds, Leave, Goto, TypeOK, deliveredBar
  <2>4. UNCHANGED <<accountBar, savedBar>>
    BY <1>4 DEF ConsumeSucceeds, accountBar, savedBar
  <2> QED
    BY <2>1, <2>2, <2>3, <2>4, AccountOf DEF Metered!Return
<1>5. ASSUME NEW p \in Run, Serve(p) PROVE Metered!Next \/ UNCHANGED Metered!vars
  <2>1. OpOf(p) \in Op /\ rid[p] \in Rid /\ Apply(OpOf(p), rid[p]) /\ UNCHANGED <<pc, rid, saved>>
    BY <1>5 DEF Serve, OpOf, Op, TypeOK
  <2>2. OpOf(p) = "consume" => rid[p] \in savedBar
    BY <1>5 DEF Serve, InCall, OpOf, SavedByFlow, Succeeded, savedBar
  <2> QED
    BY <2>1, <2>2, ApplyRefines
<1>6. ASSUME NEW c \in late, ServeLate(c) PROVE Metered!Next \/ UNCHANGED Metered!vars
  <2> PICK op \in Op, r \in Rid : c = <<op, r>>
    BY DEF TypeOK
  <2>1. Apply(op, r) /\ UNCHANGED <<pc, rid, saved>>
    BY <1>6 DEF ServeLate
  <2>2. op = "consume" => r \in savedBar
    BY DEF LateHasCause, SavedByFlow, savedBar
  <2> QED
    BY <2>1, <2>2, ApplyRefines
<1>7. ASSUME NEW c \in late, DropLate(c) PROVE UNCHANGED Metered!vars
  BY <1>7, Invisible DEF DropLate
<1>8. ASSUME NEW r \in Rid, Expire(r) PROVE Metered!Refund(r)
  <2>1. accountBar[r] = "held" /\ UNCHANGED <<savedBar, deliveredBar>>
    BY <1>8, AccountOf DEF Expire, savedBar, deliveredBar
  <2>2. accountBar' = [accountBar EXCEPT ![r] = "refunded"]
    BY <1>8 DEF Expire, TypeOK, accountBar
  <2> QED
    BY <2>1, <2>2 DEF Metered!Refund
<1>9. CASE UNCHANGED vars
  BY <1>9, Invisible DEF vars
<1>10. \A p \in Run : FlowSaves(p) \/ FlowSavesAndThrows(p) \/ ConsumeSucceeds(p) => Metered!Next
  BY <1>3, <1>4 DEF Metered!Next, TypeOK
<1>11. \A r \in Rid : Expire(r) => Metered!Next
  BY <1>8 DEF Metered!Next
<1> QED
  BY <1>1, <1>2, <1>5, <1>6, <1>7, <1>9, <1>10, <1>11 DEF Next, Handler, Network

\* Runs that share ids, lose calls and retry them implement the metered delivery.
THEOREM Refinement == Spec => ImplementsMetered
<1>1. Init => Metered!Init
  BY DEF Init, Metered!Init, accountBar, savedBar, deliveredBar
<1>2. IInv /\ [Next]_vars => [Metered!Next]_(Metered!vars)
  BY StepRefines
<1> QED
  BY <1>1, <1>2, Invariance, PTL DEF Spec, ImplementsMetered, Metered!Spec
================================================================================
