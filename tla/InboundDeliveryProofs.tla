----------------------- MODULE InboundDeliveryProofs -----------------------
(* Proofs about InboundDelivery, for any number of envelopes and           *)
(* deliveries and any kind and number of faults: the invariants first, and *)
(* from them that receiving mail implements MailPromise.                   *)
EXTENDS InboundDelivery, TLAPS

-----------------------------------------------------------------------------
(* Types.                                                                  *)

Pcs == Working \cup {"idle", "check", "claim", "done"}
PcTypes == pc \in [Deliveries -> Pcs]
AnswerTypes ==
  /\ envelope \in [Envelopes -> {"new", "open", "retry", "accepted", "refused"}]
  /\ sender \in [Deliveries -> Envelopes \cup {NoOne}]

LEMMA GotoFacts ==
  ASSUME PcTypes, NEW d \in Deliveries, NEW p \in Pcs, Goto(d, p)
  PROVE  PcTypes' /\ pc'[d] = p /\ \A e \in Deliveries \ {d} : pc'[e] = pc[e]
BY DEF PcTypes, Goto

LEMMA AnswerFacts ==
  ASSUME PcTypes, AnswerTypes, NEW d \in Deliveries,
         NEW what \in {"retry", "accepted", "refused"}, Answer(d, what)
  PROVE  /\ PcTypes' /\ AnswerTypes'
         /\ pc'[d] = "done" /\ \A e \in Deliveries \ {d} : pc'[e] = pc[e]
<1>1. Goto(d, "done") /\ "done" \in Pcs
  BY DEF Answer, Pcs
<1>2. PcTypes' /\ pc'[d] = "done" /\ \A e \in Deliveries \ {d} : pc'[e] = pc[e]
  BY <1>1, GotoFacts
<1>3. AnswerTypes'
  BY DEF AnswerTypes, Answer
<1> QED BY <1>2, <1>3

\* Every call of GiveUp is an answer.
LEMMA GiveUpFacts ==
  ASSUME NEW d \in Deliveries, GiveUp(d)
  PROVE  \E what \in {"retry", "accepted", "refused"} : Answer(d, what)
BY DEF GiveUp

\* Where a delivery may be after one step of another or of its own.
LEMMA OnlyOneMoves ==
  ASSUME TypeOK, NEW d \in Deliveries, Run(d) \/ Fail(d)
  PROVE  PcTypes' /\ AnswerTypes' /\ \A e \in Deliveries \ {d} : pc'[e] = pc[e]
<1> USE DEF TypeOK, PcTypes, AnswerTypes, Pcs, Working
<1>1. \A p \in Pcs : Goto(d, p) => PcTypes' /\ \A e \in Deliveries \ {d} : pc'[e] = pc[e]
  BY GotoFacts
<1>2. \A w \in {"retry", "accepted", "refused"} : Answer(d, w) =>
        PcTypes' /\ AnswerTypes' /\ \A e \in Deliveries \ {d} : pc'[e] = pc[e]
  BY AnswerFacts
<1>3. GiveUp(d) => PcTypes' /\ AnswerTypes' /\ \A e \in Deliveries \ {d} : pc'[e] = pc[e]
  BY <1>2, GiveUpFacts
<1>4. CASE Check(d)
  BY <1>1, <1>2, <1>4 DEF Check
<1>5. CASE ClaimMessage(d)
  BY <1>1, <1>2, <1>5 DEF ClaimMessage
<1>6. CASE Attach(d)
  BY <1>1, <1>6 DEF Attach
<1>7. CASE Classify(d)
  BY <1>1, <1>7 DEF Classify
<1>8. CASE StoreContent(d)
  BY <1>1, <1>8 DEF StoreContent
<1>9. CASE StoreRow(d)
  BY <1>1, <1>9 DEF StoreRow
<1>10. CASE Complete(d)
  BY <1>2, <1>10 DEF Complete
<1>11. CASE Abandon(d)
  BY <1>1, <1>3, <1>11 DEF Abandon
<1>12. CASE Erase(d)
  BY <1>3, <1>12 DEF Erase
<1>13. CASE ClaimThrows(d)
  BY <1>2, <1>13 DEF ClaimThrows
<1>14. CASE StoreThrows(d)
  BY <1>1, <1>14 DEF StoreThrows
<1>15. CASE AbandonThrows(d)
  BY <1>1, <1>3, <1>15 DEF AbandonThrows
<1>16. CASE Dies(d)
  BY <1>2, <1>16 DEF Dies
<1>17. CASE TimesOut(d)
  BY <1>17 DEF TimesOut
<1> QED BY <1>4, <1>5, <1>6, <1>7, <1>8, <1>9, <1>10, <1>11, <1>12, <1>13, <1>14,
           <1>15, <1>16, <1>17 DEF Run, Fail

\* Turns of the DO that touch the claim keep its type.
LEMMA ClaimTypes ==
  ASSUME claim \in Claims, NEW d \in Deliveries
  PROVE  /\ TakeClaim(d) => claim' \in Claims
         /\ CompleteClaim(d) => claim' \in Claims
         /\ ReleaseClaim(d) => claim' \in Claims
         /\ AbandonInDO(d) => claim' \in Claims
<1>1. claim.by = d => claim \in [by : Deliveries, state : {"pending", "stale", "done"}]
  BY Names DEF Claims, NoClaim
<1>2. claim.by = d => [claim EXCEPT !.state = "done"] \in Claims
  BY <1>1 DEF Claims
<1>3. CompleteClaim(d) => claim' \in Claims
  BY <1>2 DEF CompleteClaim
<1>4. ReleaseClaim(d) => claim' \in Claims
  BY DEF ReleaseClaim, Claims
<1>5. TakeClaim(d) => claim' \in Claims
  BY DEF TakeClaim, Claims
<1> QED BY <1>3, <1>4, <1>5 DEF AbandonInDO

LEMMA StaleTypes ==
  ASSUME claim \in Claims, ClaimGoesStale
  PROVE  claim' \in Claims /\ claim'.by = claim.by
<1>1. claim \in [by : Deliveries, state : {"pending", "stale", "done"}]
  BY DEF Claims, NoClaim, ClaimGoesStale
<1> QED BY <1>1 DEF Claims, ClaimGoesStale

LEMMA BudgetTypes ==
  ASSUME faults \in Faults
  PROVE  /\ NoFault => faults' \in Faults
         /\ \A k : Fault(k) => faults' \in Faults
<1>1. NoFault => faults' \in Faults
  BY DEF NoFault
<1>2. ASSUME NEW k, Fault(k) PROVE faults' \in Faults
  <2>1. faults.count \in 0..MaxFaults /\ faults.count < MaxFaults
    BY <1>2 DEF Faults, Fault
  <2>2. faults.count + 1 \in 0..MaxFaults
    BY <2>1, FaultBound
  <2>3. (faults.mild /\ k \in Mild) \in BOOLEAN
    OBVIOUS
  <2> QED BY <1>2, <2>2, <2>3, Zenon DEF Fault, Faults
<1> QED BY <1>1, <1>2

LEMMA InitBudget == faults = [count |-> 0, mild |-> TRUE] => faults \in Faults
BY FaultBound DEF Faults

\* What a step of a delivery does to the other variables keeps their types.
LEMMA RestTypes ==
  ASSUME TypeOK, NEW d \in Deliveries, Run(d) \/ Fail(d)
  PROVE  /\ UNCHANGED mailbox
         /\ row' \in [Deliveries -> {"none", "stored", "gone"}]
         /\ claim' \in Claims
         /\ blobs' \in [Deliveries -> SUBSET {"attachment", "content"}]
         /\ listed' \subseteq Deliveries /\ reports' \subseteq Deliveries
         /\ refused' \subseteq Deliveries /\ overtaken' \subseteq Deliveries
         /\ faults' \in Faults /\ slips' \in Nat
<1> USE DEF TypeOK, doVars, notes, ghosts
<1>1. /\ TakeClaim(d) \/ CompleteClaim(d) \/ AbandonInDO(d) => claim' \in Claims
      /\ NoFault => faults' \in Faults
      /\ \A k : Fault(k) => faults' \in Faults
      /\ faults' = faults => faults' \in Faults
  BY ClaimTypes, BudgetTypes
<1>2. CASE Check(d)
  BY <1>1, <1>2 DEF Check
<1>3. CASE ClaimMessage(d)
  BY <1>1, <1>3 DEF ClaimMessage, TakeClaim
<1>4. CASE Attach(d)
  BY <1>1, <1>4 DEF Attach
<1>5. CASE Classify(d)
  BY <1>1, <1>5 DEF Classify
<1>6. CASE StoreContent(d)
  BY <1>1, <1>6 DEF StoreContent
<1>7. CASE StoreRow(d)
  BY <1>1, <1>7 DEF StoreRow, CreateEmail
<1>8. CASE Complete(d)
  BY <1>1, <1>8 DEF Complete
<1>9. CASE Abandon(d)
  BY <1>1, <1>9 DEF Abandon
<1>10. CASE Erase(d)
  BY <1>1, <1>10 DEF Erase, Erasable
<1>11. CASE ClaimThrows(d)
  BY <1>1, <1>11 DEF ClaimThrows, TakeClaim, Slip
<1>12. CASE StoreThrows(d)
  BY <1>1, <1>12 DEF StoreThrows, CreateEmail
<1>13. CASE AbandonThrows(d)
  BY <1>1, <1>13 DEF AbandonThrows, Slip
<1>14. CASE Dies(d)
  BY <1>1, <1>14 DEF Dies, Slip
<1>15. CASE TimesOut(d)
  BY <1>1, <1>15 DEF TimesOut, Slip
<1> QED BY <1>2, <1>3, <1>4, <1>5, <1>6, <1>7, <1>8, <1>9, <1>10, <1>11, <1>12, <1>13, <1>14, <1>15 DEF Run, Fail

LEMMA TypeStep == TypeOK /\ [Next]_vars => TypeOK'
<1> SUFFICES ASSUME TypeOK, [Next]_vars PROVE TypeOK'
  OBVIOUS
<1>1. CASE \E d \in Deliveries : Run(d) \/ Fail(d)
  <2>1. PICK d \in Deliveries : Run(d) \/ Fail(d)
    BY <1>1
  <2>2. PcTypes' /\ AnswerTypes'
    BY <2>1, OnlyOneMoves
  <2> QED BY <2>1, <2>2, RestTypes DEF TypeOK, PcTypes, AnswerTypes, Pcs
<1>2. CASE \E d \in Deliveries, v \in Envelopes : Arrive(d, v)
  <2>1. PICK d \in Deliveries, v \in Envelopes : Arrive(d, v)
    BY <1>2
  <2>2. PcTypes'
    BY <2>1, GotoFacts DEF Arrive, PcTypes, Pcs, TypeOK
  <2> QED BY <2>1, <2>2 DEF TypeOK, PcTypes, Pcs, Arrive, doVars, notes, ghosts
<1>3. CASE \E d \in Deliveries : DeleteRow(d)
  BY <1>3 DEF TypeOK, DeleteRow, notes, ghosts
<1>4. CASE Purge
  <2>1. faults' \in Faults
    BY <1>4, BudgetTypes DEF Purge, TypeOK
  <2> QED BY <1>4, <2>1 DEF TypeOK, Purge, Claims, notes
<1>5. CASE Revive
  BY <1>5 DEF TypeOK, Revive, notes, ghosts
<1>6. CASE ClaimGoesStale
  BY <1>6, StaleTypes DEF TypeOK, ClaimGoesStale, notes, ghosts
<1>7. CASE UNCHANGED vars
  BY <1>7 DEF TypeOK, vars, doVars, notes, ghosts
<1> QED BY <1>1, <1>2, <1>3, <1>4, <1>5, <1>6, <1>7 DEF Next

\* Every variable of a delivery, the claim and the mailbox keeps its type.
THEOREM TypeCorrect == Spec => []TypeOK
<1>1. Init => TypeOK
  BY InitBudget DEF Init, TypeOK, Claims
<1> QED BY <1>1, TypeStep, PTL DEF Spec

-----------------------------------------------------------------------------
(* Rows keep their blobs.                                                  *)

Full == {"attachment", "content"}
Storing == {"attach", "classify", "content", "store", "fallback"}

\* The invariant behind RowsKeepBlobs: no row before both blobs are there, and no
\* erasing of what a row needs.
BlobOK(d) ==
  /\ pc[d] \in Storing \cup {"idle", "check", "claim"} => row[d] = "none" /\ d \notin refused
  /\ pc[d] \in {"classify", "content"} => "attachment" \in blobs[d]
  /\ pc[d] \in {"store", "fallback"} => blobs[d] = Full
  /\ pc[d] = "erase" => row[d] # "stored"
  /\ pc[d] = "abandon" /\ d \in refused => row[d] # "stored"
  /\ row[d] = "stored" => blobs[d] = Full
BlobInv == \A d \in Deliveries : BlobOK(d)

LEMMA OthersStay ==
  ASSUME TypeOK, NEW d \in Deliveries, Run(d) \/ Fail(d), NEW e \in Deliveries \ {d}
  PROVE  /\ pc'[e] = pc[e] /\ row'[e] = row[e] /\ blobs'[e] = blobs[e]
         /\ e \in refused' <=> e \in refused
         /\ e \in listed' <=> e \in listed
<1> USE DEF TypeOK, doVars, notes, ghosts
<1>0. pc'[e] = pc[e]
  BY OnlyOneMoves
<1>1. CASE Check(d)
  BY <1>0, <1>1 DEF Check
<1>2. CASE ClaimMessage(d)
  BY <1>0, <1>2 DEF ClaimMessage
<1>3. CASE Attach(d)
  BY <1>0, <1>3 DEF Attach
<1>4. CASE Classify(d)
  BY <1>0, <1>4 DEF Classify
<1>5. CASE StoreContent(d)
  BY <1>0, <1>5 DEF StoreContent
<1>6. CASE StoreRow(d)
  BY <1>0, <1>6 DEF StoreRow, CreateEmail
<1>7. CASE Complete(d)
  BY <1>0, <1>7 DEF Complete
<1>8. CASE Abandon(d)
  BY <1>0, <1>8 DEF Abandon
<1>9. CASE Erase(d)
  BY <1>0, <1>9 DEF Erase
<1>10. CASE ClaimThrows(d)
  BY <1>0, <1>10 DEF ClaimThrows
<1>11. CASE StoreThrows(d)
  BY <1>0, <1>11 DEF StoreThrows, CreateEmail
<1>12. CASE AbandonThrows(d)
  BY <1>0, <1>12 DEF AbandonThrows
<1>13. CASE Dies(d)
  BY <1>0, <1>13 DEF Dies
<1>14. CASE TimesOut(d)
  BY <1>0, <1>14 DEF TimesOut
<1> QED BY <1>1, <1>2, <1>3, <1>4, <1>5, <1>6, <1>7, <1>8, <1>9, <1>10, <1>11, <1>12, <1>13, <1>14 DEF Run, Fail

LEMMA EndsAnswered ==
  ASSUME TypeOK, NEW d \in Deliveries
  PROVE  /\ \A w \in {"retry", "accepted", "refused"} : Answer(d, w) => pc'[d] = "done"
         /\ GiveUp(d) => pc'[d] = "done"
         /\ \A p \in Pcs : Goto(d, p) => pc'[d] = p
<1>1. PcTypes /\ AnswerTypes
  BY DEF TypeOK, PcTypes, AnswerTypes, Pcs
<1> QED BY <1>1, AnswerFacts, GiveUpFacts, GotoFacts

LEMMA OwnBlobs ==
  ASSUME TypeOK, BlobInv, NEW d \in Deliveries, Run(d) \/ Fail(d)
  PROVE  BlobOK(d)'
<1> USE DEF BlobInv, BlobOK, TypeOK, doVars, notes, ghosts, Pcs, Working, Storing, Full
<1>0. /\ \A w \in {"retry", "accepted", "refused"} : Answer(d, w) => pc'[d] = "done"
      /\ GiveUp(d) => pc'[d] = "done"
      /\ \A p \in Pcs : Goto(d, p) => pc'[d] = p
  BY EndsAnswered
<1>1. CASE Check(d)
  BY <1>0, <1>1 DEF Check
<1>2. CASE ClaimMessage(d)
  BY <1>0, <1>2 DEF ClaimMessage
<1>3. CASE Attach(d)
  BY <1>0, <1>3 DEF Attach
<1>4. CASE Classify(d)
  BY <1>0, <1>4 DEF Classify
<1>5. CASE StoreContent(d)
  BY <1>0, <1>5 DEF StoreContent
<1>6. CASE StoreRow(d)
  BY <1>0, <1>6 DEF StoreRow, CreateEmail
<1>7. CASE Complete(d)
  BY <1>0, <1>7 DEF Complete
<1>8. CASE Abandon(d)
  BY <1>0, <1>8 DEF Abandon
<1>9. CASE Erase(d)
  BY <1>0, <1>9 DEF Erase
<1>10. CASE ClaimThrows(d)
  BY <1>0, <1>10 DEF ClaimThrows
<1>11. CASE StoreThrows(d)
  BY <1>0, <1>11 DEF StoreThrows, CreateEmail
<1>12. CASE AbandonThrows(d)
  BY <1>0, <1>12 DEF AbandonThrows
<1>13. CASE Dies(d)
  BY <1>0, <1>13 DEF Dies
<1>14. CASE TimesOut(d)
  BY <1>0, <1>14 DEF TimesOut
<1> QED BY <1>1, <1>2, <1>3, <1>4, <1>5, <1>6, <1>7, <1>8, <1>9, <1>10, <1>11, <1>12, <1>13, <1>14 DEF Run, Fail

LEMMA BlobStep == TypeOK /\ BlobInv /\ [Next]_vars => BlobInv'
<1> SUFFICES ASSUME TypeOK, BlobInv, [Next]_vars, NEW e \in Deliveries PROVE BlobOK(e)'
  BY DEF BlobInv
<1> USE DEF BlobInv, BlobOK
<1>1. CASE \E d \in Deliveries : Run(d) \/ Fail(d)
  <2>1. PICK d \in Deliveries : Run(d) \/ Fail(d)
    BY <1>1
  <2>2. CASE e = d
    BY <2>1, <2>2, OwnBlobs
  <2>3. CASE e # d
    BY <2>1, <2>3, OthersStay
  <2> QED BY <2>2, <2>3
<1>2. CASE \E d \in Deliveries, v \in Envelopes : Arrive(d, v)
  <2>1. PICK d \in Deliveries, v \in Envelopes : Arrive(d, v)
    BY <1>2
  <2> QED BY <2>1 DEF Arrive, Goto, TypeOK, doVars, notes, Storing
<1>3. CASE \E d \in Deliveries : DeleteRow(d)
  BY <1>3 DEF DeleteRow, TypeOK, notes, Storing, Full
<1>4. CASE Purge
  BY <1>4 DEF Purge, TypeOK, notes, Storing, Full
<1>5. CASE Revive \/ ClaimGoesStale \/ UNCHANGED vars
  BY <1>5 DEF Revive, ClaimGoesStale, vars, doVars, notes
<1> QED BY <1>1, <1>2, <1>3, <1>4, <1>5 DEF Next

\* Whatever fails and however a cleanup races a late success, the blobs of a stored
\* row are never deleted.
THEOREM RowsKeep == Spec => []RowsKeepBlobs
<1>1. Init => TypeOK /\ BlobInv
  BY InitBudget DEF Init, TypeOK, Claims, BlobInv, BlobOK
<1>2. BlobInv => RowsKeepBlobs
  BY DEF BlobInv, BlobOK, RowsKeepBlobs, Stored, Full
<1> QED BY <1>1, <1>2, TypeStep, BlobStep, PTL DEF Spec

-----------------------------------------------------------------------------
(* No blob outlives its delivery.                                          *)

\* The invariant behind NoOrphanBlobs: nothing is written before the claim is won,
\* the cleanup knows of every attachment, a deleted row leaves nothing behind, and
\* a delivery that is over without a row has cleaned up.
CleanOK(d) ==
  /\ row[d] = "gone" => blobs[d] = {}
  /\ pc[d] = "complete" => row[d] # "none"
  /\ faults.mild =>
       /\ "attachment" \in blobs[d] => d \in listed
       /\ pc[d] \in {"idle", "check", "claim"} => blobs[d] = {}
       /\ pc[d] = "done" /\ row[d] # "stored" => blobs[d] = {}
CleanInv == \A d \in Deliveries : CleanOK(d)

\* A fault that is not mild ends what the invariant promises.
LEMMA MildFacts ==
  ASSUME faults \in Faults
  PROVE  /\ NoFault => faults'.mild = faults.mild
         /\ \A k : Fault(k) /\ faults'.mild => faults.mild /\ k \in Mild
<1>1. ASSUME NEW k, Fault(k), faults'.mild PROVE faults.mild /\ k \in Mild
  <2>1. faults' = [count |-> faults.count + 1, mild |-> faults.mild /\ k \in Mild]
    BY <1>1, Zenon DEF Fault
  <2>2. faults'.mild = (faults.mild /\ k \in Mild)
    BY <2>1, Zenon
  <2> QED BY <1>1, <2>2, Zenon
<1> QED BY <1>1 DEF NoFault

LEMMA OwnClean ==
  ASSUME TypeOK, BlobInv, CleanInv, NEW d \in Deliveries, Run(d) \/ Fail(d)
  PROVE  CleanOK(d)'
<1> USE DEF CleanInv, CleanOK, TypeOK, doVars, notes, ghosts, Pcs, Working
<1>0. /\ \A w \in {"retry", "accepted", "refused"} : Answer(d, w) => pc'[d] = "done"
      /\ GiveUp(d) => pc'[d] = "done"
      /\ \A p \in Pcs : Goto(d, p) => pc'[d] = p
  BY EndsAnswered
<1>1. /\ NoFault => faults'.mild = faults.mild
      /\ \A k : Fault(k) /\ faults'.mild => faults.mild /\ k \in Mild
  BY MildFacts
<1>2. pc[d] \in Storing \cup {"idle", "check", "claim"} => row[d] = "none"
  BY DEF BlobInv, BlobOK
<1>3. CASE Check(d)
  BY <1>0, <1>1, <1>3 DEF Check
<1>4. CASE ClaimMessage(d)
  BY <1>0, <1>4 DEF ClaimMessage
<1>5. CASE Attach(d)
  BY <1>0, <1>1, <1>2, <1>5 DEF Attach, Mild, Storing
<1>6. CASE Classify(d)
  BY <1>0, <1>1, <1>2, <1>6 DEF Classify, Storing
<1>7. CASE StoreContent(d)
  BY <1>0, <1>1, <1>2, <1>7 DEF StoreContent, Storing
<1>8. CASE StoreRow(d)
  BY <1>0, <1>1, <1>2, <1>8 DEF StoreRow, CreateEmail, Storing
<1>9. CASE Complete(d)
  BY <1>0, <1>1, <1>9 DEF Complete
<1>10. CASE Abandon(d)
  BY <1>0, <1>1, <1>10 DEF Abandon
<1>11. CASE Erase(d)
  <2>1. CASE blobs' = [blobs EXCEPT ![d] = @ \ Erasable(d)] /\ NoFault
    BY <1>0, <1>1, <1>11, <2>1 DEF Erase, Erasable
  <2>2. CASE UNCHANGED blobs /\ Fault("delete")
    BY <1>0, <1>1, <1>11, <2>2 DEF Erase, Mild
  <2> QED BY <1>11, <2>1, <2>2 DEF Erase
<1>12. CASE ClaimThrows(d)
  BY <1>0, <1>1, <1>12 DEF ClaimThrows, Mild
<1>13. CASE StoreThrows(d)
  BY <1>0, <1>1, <1>2, <1>13 DEF StoreThrows, CreateEmail, Storing
<1>14. CASE AbandonThrows(d)
  BY <1>0, <1>1, <1>14 DEF AbandonThrows, Mild
<1>15. CASE Dies(d)
  BY <1>0, <1>1, <1>15 DEF Dies, Mild
<1>16. CASE TimesOut(d)
  BY <1>1, <1>16 DEF TimesOut
<1> QED BY <1>3, <1>4, <1>5, <1>6, <1>7, <1>8, <1>9, <1>10, <1>11, <1>12, <1>13, <1>14,
           <1>15, <1>16 DEF Run, Fail

\* A fault that befalls another delivery leaves this one's part of the invariant as it
\* was, or ends it.
LEMMA MildShrinks ==
  ASSUME TypeOK, NEW d \in Deliveries, Run(d) \/ Fail(d)
  PROVE  faults'.mild => faults.mild
<1>1. /\ NoFault => faults'.mild = faults.mild
      /\ \A k : Fault(k) /\ faults'.mild => faults.mild
  BY MildFacts DEF TypeOK
<1> QED BY <1>1 DEF Run, Fail, Check, ClaimMessage, ClaimThrows, Attach, Classify,
     StoreContent, StoreRow, StoreThrows, Complete, Abandon, AbandonThrows, Erase, Dies,
     TimesOut

LEMMA CleanStep == TypeOK /\ BlobInv /\ CleanInv /\ [Next]_vars => CleanInv'
<1> SUFFICES ASSUME TypeOK, BlobInv, CleanInv, [Next]_vars, NEW e \in Deliveries
             PROVE  CleanOK(e)'
  BY DEF CleanInv
<1> USE DEF CleanInv, CleanOK
<1>1. CASE \E d \in Deliveries : Run(d) \/ Fail(d)
  <2>1. PICK d \in Deliveries : Run(d) \/ Fail(d)
    BY <1>1
  <2>2. CASE e = d
    BY <2>1, <2>2, OwnClean
  <2>3. CASE e # d
    BY <2>1, <2>3, OthersStay, MildShrinks
  <2> QED BY <2>2, <2>3
<1>2. CASE \E d \in Deliveries, v \in Envelopes : Arrive(d, v)
  <2>1. PICK d \in Deliveries, v \in Envelopes : Arrive(d, v)
    BY <1>2
  <2> QED BY <2>1 DEF Arrive, Goto, TypeOK, doVars, notes
<1>3. CASE \E d \in Deliveries : DeleteRow(d)
  BY <1>3 DEF DeleteRow, TypeOK, notes
<1>4. CASE Purge
  <2>1. faults'.mild => faults.mild
    BY <1>4, MildFacts DEF Purge, TypeOK
  <2> QED BY <1>4, <2>1 DEF Purge, TypeOK, notes
<1>5. CASE Revive \/ ClaimGoesStale \/ UNCHANGED vars
  BY <1>5 DEF Revive, ClaimGoesStale, vars, doVars, notes
<1> QED BY <1>1, <1>2, <1>3, <1>4, <1>5 DEF Next

\* Whichever copy of a message wins and whatever mild thing fails on the way, a
\* delivery that is over leaves no object in R2 that no row speaks of.
THEOREM NothingOrphaned == Spec => []NoOrphanBlobs
<1>1. Init => TypeOK /\ BlobInv /\ CleanInv
  BY InitBudget DEF Init, TypeOK, Claims, BlobInv, BlobOK, CleanInv, CleanOK
<1>2. CleanInv => NoOrphanBlobs
  BY DEF CleanInv, CleanOK, NoOrphanBlobs
<1> QED BY <1>1, <1>2, TypeStep, BlobStep, CleanStep, PTL DEF Spec

-----------------------------------------------------------------------------
(* One row.                                                                *)

\* The invariant behind OneRow: a delivery that may still store and was not
\* overtaken owns the claim, and meets no row of a delivery that was not.
Slot(d) ==
  pc[d] \in Storing /\ d \notin overtaken =>
    claim.by = d /\ Stored \subseteq overtaken
SlotInv == OneRow /\ \A d \in Deliveries : Slot(d)

LEMMA OvertakenGrows ==
  ASSUME TypeOK, [Next]_vars
  PROVE  overtaken \subseteq overtaken'
BY DEF Next, Run, Fail, Arrive, Check, ClaimMessage, TakeClaim, ClaimThrows, Attach, Classify,
       StoreContent, StoreRow, StoreThrows, Complete, Abandon, AbandonThrows, Erase, Dies,
       TimesOut, DeleteRow, Purge, Revive, ClaimGoesStale, vars, ghosts

\* A step that stores nothing, lets nobody in, and takes the claim from nobody but
\* those it records as overtaken, keeps the invariant.
LEMMA QuietStep ==
  ASSUME SlotInv, Stored' \subseteq Stored, overtaken \subseteq overtaken',
         \A e \in Deliveries : pc'[e] \in Storing /\ e \notin overtaken' =>
           pc[e] \in Storing /\ (claim.by = e => claim'.by = e)
  PROVE  SlotInv'
BY DEF SlotInv, OneRow, Slot

LEMMA ClaimKept ==
  ASSUME TypeOK, NEW d \in Deliveries, NEW e \in Deliveries \ {d}, claim.by = e
  PROVE  /\ CompleteClaim(d) => claim'.by = e
         /\ ReleaseClaim(d) => claim'.by = e
         /\ AbandonInDO(d) => claim'.by = e
BY DEF CompleteClaim, ReleaseClaim, AbandonInDO

LEMMA OwnSlot ==
  ASSUME TypeOK, BlobInv, SlotInv, NEW d \in Deliveries, Run(d) \/ Fail(d)
  PROVE  SlotInv'
<1> USE DEF TypeOK, doVars, notes, ghosts, Pcs, Working, Storing
<1>0. /\ \A w \in {"retry", "accepted", "refused"} : Answer(d, w) => pc'[d] = "done"
      /\ GiveUp(d) => pc'[d] = "done"
      /\ \A p \in Pcs : Goto(d, p) => pc'[d] = p
      /\ \A e \in Deliveries \ {d} : pc'[e] = pc[e] /\ row'[e] = row[e]
      /\ overtaken \subseteq overtaken'
  BY EndsAnswered, OthersStay, OvertakenGrows DEF Next
\* A claim is taken while no row is stored; its holder, if under way, is overtaken.
<1>1. ASSUME TakeClaim(d), MayClaim, row' = row, pc'[d] \in {"attach", "done"}
      PROVE  SlotInv'
  <2>1. Stored' = {}
    BY <1>1 DEF MayClaim, Stored
  <2>2. ASSUME NEW e \in Deliveries \ {d}, pc'[e] \in Storing, e \notin overtaken'
        PROVE  FALSE
    BY <1>0, <1>1, <2>2 DEF SlotInv, Slot, TakeClaim, Under
  <2>3. claim'.by = d
    BY <1>1 DEF TakeClaim
  <2> QED BY <2>1, <2>2, <2>3 DEF SlotInv, OneRow, Slot
<1>2. CASE ClaimMessage(d)
  <2>1. CASE MayClaim /\ TakeClaim(d) /\ Goto(d, "attach")
    BY <1>0, <1>1, <1>2, <2>1 DEF ClaimMessage
  <2>2. CASE Answer(d, "accepted") /\ UNCHANGED <<claim, overtaken>>
    BY <1>0, <1>2, <2>2, QuietStep DEF ClaimMessage, Stored
  <2> QED BY <1>2, <2>1, <2>2 DEF ClaimMessage
<1>3. CASE ClaimThrows(d)
  <2>1. CASE MayClaim /\ TakeClaim(d)
    BY <1>0, <1>1, <1>3, <2>1 DEF ClaimThrows
  <2>2. CASE UNCHANGED <<claim, overtaken>>
    BY <1>0, <1>3, <2>2, QuietStep DEF ClaimThrows, Stored
  <2> QED BY <1>3, <2>1, <2>2 DEF ClaimThrows
\* A row is stored: its delivery was in its slot alone, or overtaken.
<1>4. ASSUME pc[d] \in {"store", "fallback"}, CreateEmail(d), UNCHANGED <<claim, overtaken>>,
             pc'[d] \in {"complete", "abandon"}
      PROVE  SlotInv'
  <2>1. Stored' = Stored \cup {d}
    BY <1>4 DEF CreateEmail, Stored
  <2>2. d \notin overtaken => Stored \subseteq overtaken /\ claim.by = d
    BY <1>4 DEF SlotInv, Slot
  <2>3. OneRow'
    BY <1>4, <2>1, <2>2 DEF OneRow, SlotInv
  <2>4. ASSUME NEW e \in Deliveries PROVE Slot(e)'
    BY <1>0, <1>4, <2>1, <2>2, <2>4 DEF SlotInv, Slot
  <2> QED BY <2>3, <2>4 DEF SlotInv
<1>5. CASE StoreRow(d)
  <2>1. CASE CreateEmail(d) /\ Goto(d, "complete")
    BY <1>0, <1>4, <1>5, <2>1 DEF StoreRow
  <2>2. CASE UNCHANGED row
    BY <1>0, <1>5, <2>2, QuietStep DEF StoreRow, Stored
  <2> QED BY <1>5, <2>1, <2>2 DEF StoreRow
<1>6. CASE StoreThrows(d)
  <2>1. CASE CreateEmail(d)
    BY <1>0, <1>4, <1>6, <2>1 DEF StoreThrows
  <2>2. CASE UNCHANGED row
    BY <1>0, <1>6, <2>2, QuietStep DEF StoreThrows, Stored
  <2> QED BY <1>6, <2>1, <2>2 DEF StoreThrows
\* Only the delivery's own claim moves when it completes or gives up.
<1>7. ASSUME pc'[d] \notin Storing, row' = row,
             CompleteClaim(d) \/ AbandonInDO(d) \/ UNCHANGED claim
      PROVE  SlotInv'
  <2>1. ASSUME NEW e \in Deliveries, pc'[e] \in Storing, claim.by = e PROVE claim'.by = e
    BY <1>7, <2>1, ClaimKept
  <2> QED BY <1>0, <1>7, <2>1, QuietStep DEF Stored
<1>8. CASE Complete(d)
  BY <1>0, <1>7, <1>8 DEF Complete
<1>9. CASE Abandon(d)
  BY <1>0, <1>7, <1>9 DEF Abandon
<1>10. CASE AbandonThrows(d)
  BY <1>0, <1>7, <1>10 DEF AbandonThrows
<1>11. CASE Erase(d)
  BY <1>0, <1>7, <1>11 DEF Erase
<1>12. CASE Dies(d)
  BY <1>0, <1>7, <1>12 DEF Dies
\* The other steps touch neither the claim nor a row.
<1>13. CASE Check(d)
  BY <1>0, <1>13, QuietStep DEF Check, Stored
<1>14. CASE Attach(d)
  BY <1>0, <1>14, QuietStep DEF Attach, Stored
<1>15. CASE Classify(d)
  BY <1>0, <1>15, QuietStep DEF Classify, Stored
<1>16. CASE StoreContent(d)
  BY <1>0, <1>16, QuietStep DEF StoreContent, Stored
<1>17. CASE TimesOut(d)
  BY <1>0, <1>17, QuietStep DEF TimesOut, Stored
<1> QED BY <1>2, <1>3, <1>5, <1>6, <1>8, <1>9, <1>10, <1>11, <1>12, <1>13, <1>14,
           <1>15, <1>16, <1>17 DEF Run, Fail

LEMMA SlotStep == TypeOK /\ BlobInv /\ SlotInv /\ [Next]_vars => SlotInv'
<1> SUFFICES ASSUME TypeOK, BlobInv, SlotInv, [Next]_vars PROVE SlotInv'
  OBVIOUS
<1> USE DEF TypeOK, doVars, notes, ghosts, Storing
<1>0. overtaken \subseteq overtaken'
  BY OvertakenGrows
<1>1. CASE \E d \in Deliveries : Run(d) \/ Fail(d)
  BY <1>1, OwnSlot
<1>2. CASE \E d \in Deliveries, v \in Envelopes : Arrive(d, v)
  <2>1. PICK d \in Deliveries, v \in Envelopes : Arrive(d, v)
    BY <1>2
  <2> QED BY <1>0, <2>1, QuietStep DEF Arrive, Goto, Stored
<1>3. CASE \E d \in Deliveries : DeleteRow(d)
  BY <1>0, <1>3, QuietStep DEF DeleteRow, Stored
<1>4. CASE Purge
  BY <1>0, <1>4, QuietStep DEF Purge, Stored, Under, Working
<1>5. CASE Revive
  BY <1>0, <1>5, QuietStep DEF Revive, Stored
<1>6. CASE ClaimGoesStale
  <2>1. claim'.by = claim.by
    BY <1>6, StaleTypes
  <2> QED BY <1>0, <1>6, <2>1, QuietStep DEF ClaimGoesStale, Stored
<1>7. CASE UNCHANGED vars
  BY <1>0, <1>7, QuietStep DEF vars, Stored
<1> QED BY <1>1, <1>2, <1>3, <1>4, <1>5, <1>6, <1>7 DEF Next

\* However many copies and retries of a message arrive together, only a delivery that
\* outlived its claim can add a second row.
THEOREM StoredOnce == Spec => []OneRow
<1>1. Init => TypeOK /\ BlobInv /\ SlotInv
  BY InitBudget DEF Init, TypeOK, Claims, BlobInv, BlobOK, SlotInv, OneRow, Slot, Stored, Storing
<1>2. SlotInv => OneRow
  BY DEF SlotInv
<1> QED BY <1>1, <1>2, TypeStep, BlobStep, SlotStep, PTL DEF Spec

-----------------------------------------------------------------------------
(* Accepted mail is kept.                                                  *)

\* An envelope that waits is open, waits for one delivery, and, as long as nothing
\* slipped, every delivery on its way has an envelope waiting for it.
SenderInv ==
  /\ \A d \in Deliveries : sender[d] # NoOne => envelope[sender[d]] = "open"
  /\ \A d, e \in Deliveries : sender[d] # NoOne /\ sender[e] = sender[d] => d = e
  /\ \A d \in Deliveries :
       slips = 0 /\ pc[d] \in Working \cup {"check", "claim"} => sender[d] # NoOne

\* A claim that keeps others out has a stored row, or (as long as nothing slipped) a
\* delivery that will still answer for it.
Answering == Working \ {"erase"}
ClaimInv ==
  /\ \A d \in Deliveries : pc[d] = "complete" => row[d] # "none"
  /\ claim.state = "done" => row[claim.by] # "none"
  /\ slips = 0 /\ claim.state \in {"pending", "stale"} =>
       pc[claim.by] \in Answering \/ row[claim.by] # "none"

\* Where the message may be while some envelope was accepted.
Safe == EverStored \/ \E v \in Envelopes : envelope[v] \in {"open", "retry", "refused"}
KeptInv == slips = 0 /\ (\E v \in Envelopes : envelope[v] = "accepted") => Safe

LEMMA ClaimedFacts ==
  ASSUME TypeOK, claim # NoClaim
  PROVE  claim.by \in Deliveries
BY DEF TypeOK, Claims

LEMMA SlipsGrow ==
  ASSUME TypeOK, [Next]_vars, slips' = 0
  PROVE  slips = 0
BY DEF TypeOK, Next, Run, Fail, Slip, Arrive, Check, ClaimMessage, ClaimThrows, Attach,
       Classify, StoreContent, StoreRow, StoreThrows, Complete, Abandon, AbandonThrows, Erase,
       Dies, TimesOut, DeleteRow, Purge, Revive, ClaimGoesStale, vars, ghosts

\* A row that was stored stays known as such.
LEMMA RowsStay ==
  ASSUME TypeOK, [Next]_vars, NEW d \in Deliveries, row[d] # "none"
  PROVE  row'[d] # "none"
BY DEF TypeOK, Next, Run, Fail, CreateEmail, Arrive, Check, ClaimMessage, ClaimThrows, Attach,
       Classify, StoreContent, StoreRow, StoreThrows, Complete, Abandon, AbandonThrows, Erase,
       Dies, TimesOut, DeleteRow, Purge, Revive, ClaimGoesStale, vars, doVars

LEMMA AnswerSenders ==
  ASSUME TypeOK, SenderInv, NEW d \in Deliveries,
         NEW w \in {"retry", "accepted", "refused"}, Answer(d, w), slips' = 0 => slips = 0
  PROVE  /\ SenderInv'
         /\ \A v \in Envelopes : v # sender[d] => envelope'[v] = envelope[v]
         /\ sender[d] # NoOne => envelope'[sender[d]] = w
<1>1. PcTypes /\ AnswerTypes
  BY DEF TypeOK, PcTypes, AnswerTypes, Pcs
<1>2. pc'[d] = "done" /\ \A e \in Deliveries \ {d} : pc'[e] = pc[e]
  BY <1>1, AnswerFacts
<1>3. sender' = [sender EXCEPT ![d] = NoOne]
  BY DEF Answer
<1>4. /\ \A v \in Envelopes : v # sender[d] => envelope'[v] = envelope[v]
      /\ sender[d] # NoOne => envelope'[sender[d]] = w
  BY DEF Answer, TypeOK
<1>5. \A e \in Deliveries : sender'[e] # NoOne =>
        e # d /\ sender'[e] = sender[e] /\ sender[e] # sender[d] /\ sender[e] \in Envelopes
  BY <1>3 DEF TypeOK, SenderInv
<1> QED BY <1>2, <1>3, <1>4, <1>5 DEF SenderInv, TypeOK, Working

LEMMA SenderStep == TypeOK /\ SenderInv /\ [Next]_vars => SenderInv'
<1> SUFFICES ASSUME TypeOK, SenderInv, [Next]_vars PROVE SenderInv'
  OBVIOUS
<1>0. slips' = 0 => slips = 0
  BY SlipsGrow
<1>1. ASSUME NEW d \in Deliveries, Run(d) \/ Fail(d) PROVE SenderInv'
  <2>1. \A w \in {"retry", "accepted", "refused"} : Answer(d, w) => SenderInv'
    BY <1>0, AnswerSenders
  <2>2. GiveUp(d) => SenderInv'
    BY <2>1, GiveUpFacts
  <2>3. ASSUME NEW p \in Pcs, Goto(d, p), UNCHANGED <<envelope, sender>>,
               pc[d] \in Working \cup {"check", "claim"}
        PROVE  SenderInv'
    BY <1>0, <2>3 DEF Goto, SenderInv, TypeOK
  <2> USE DEF Pcs, Working
  <2>4. CASE Check(d)
    BY <2>1, <2>2, <2>3, <2>4 DEF Check
  <2>5. CASE ClaimMessage(d)
    BY <2>1, <2>2, <2>3, <2>5 DEF ClaimMessage
  <2>6. CASE Attach(d)
    BY <2>1, <2>2, <2>3, <2>6 DEF Attach
  <2>7. CASE Classify(d)
    BY <2>1, <2>2, <2>3, <2>7 DEF Classify
  <2>8. CASE StoreContent(d)
    BY <2>1, <2>2, <2>3, <2>8 DEF StoreContent
  <2>9. CASE StoreRow(d)
    BY <2>1, <2>2, <2>3, <2>9 DEF StoreRow
  <2>10. CASE Complete(d)
    BY <2>1, <2>2, <2>3, <2>10 DEF Complete
  <2>11. CASE Abandon(d)
    BY <2>1, <2>2, <2>3, <2>11 DEF Abandon
  <2>12. CASE Erase(d)
    BY <2>1, <2>2, <2>3, <2>12 DEF Erase
  <2>13. CASE ClaimThrows(d)
    BY <2>1, <2>2, <2>3, <2>13 DEF ClaimThrows
  <2>14. CASE StoreThrows(d)
    BY <2>1, <2>2, <2>3, <2>14 DEF StoreThrows
  <2>15. CASE AbandonThrows(d)
    BY <2>1, <2>2, <2>3, <2>15 DEF AbandonThrows
  <2>16. CASE Dies(d)
    BY <2>1, <2>2, <2>3, <2>16 DEF Dies
  <2>17. CASE TimesOut(d)
    <3>1. slips' # 0 /\ pc' = pc
      BY <2>17 DEF TimesOut, Slip, TypeOK
    <3>2. \A e \in Deliveries : sender'[e] # NoOne =>
            e # d /\ sender'[e] = sender[e] /\ sender[e] # sender[d] /\ sender[e] \in Envelopes
      BY <2>17 DEF TimesOut, TypeOK, SenderInv
    <3>3. \A v \in Envelopes : v # sender[d] => envelope'[v] = envelope[v]
      BY <2>17 DEF TimesOut, TypeOK
    <3> QED BY <3>1, <3>2, <3>3 DEF SenderInv
  <2> QED BY <1>1, <2>4, <2>5, <2>6, <2>7, <2>8, <2>9, <2>10, <2>11, <2>12, <2>13, <2>14, <2>15,
             <2>16, <2>17 DEF Run, Fail
<1>2. ASSUME NEW d \in Deliveries, NEW v \in Envelopes, Arrive(d, v) PROVE SenderInv'
  <2>1. \A e \in Deliveries : sender[e] # v
    BY <1>2, Names DEF Arrive, SenderInv, TypeOK
  <2>2. sender' = [sender EXCEPT ![d] = v] /\ envelope' = [envelope EXCEPT ![v] = "open"]
    BY <1>2 DEF Arrive
  <2>3. pc' = [pc EXCEPT ![d] = "check"] /\ slips' = slips
    BY <1>2 DEF Arrive, Goto, ghosts
  <2> QED BY <2>1, <2>2, <2>3, Names DEF SenderInv, TypeOK
<1>3. CASE \/ \E d \in Deliveries : DeleteRow(d)
           \/ Purge \/ Revive \/ ClaimGoesStale \/ UNCHANGED vars
  BY <1>3 DEF DeleteRow, Purge, Revive, ClaimGoesStale, vars, ghosts, SenderInv
<1> QED BY <1>1, <1>2, <1>3 DEF Next

LEMMA ClaimStep == TypeOK /\ BlobInv /\ ClaimInv /\ [Next]_vars => ClaimInv'
<1> SUFFICES ASSUME TypeOK, BlobInv, ClaimInv, [Next]_vars PROVE ClaimInv'
  OBVIOUS
<1>0. /\ slips' = 0 => slips = 0
      /\ \A e \in Deliveries : row[e] # "none" => row'[e] # "none"
  BY SlipsGrow, RowsStay
<1>1. claim \in Claims /\ NoClaim.state = "none"
  BY DEF TypeOK, NoClaim
<1> USE DEF Working, Answering
\* What is to be shown of the claim, when d alone moved.
<1>2. ASSUME NEW d \in Deliveries,
             \A e \in Deliveries \ {d} : pc'[e] = pc[e],
             pc'[d] = "complete" => row'[d] # "none",
             \/ claim' = NoClaim
             \/ claim' = claim /\ (claim.by = d => \/ pc'[d] \in Answering
                                                   \/ row'[d] # "none"
                                                   \/ claim.state = "done"
                                                   \/ slips' # 0)
             \/ claim'.by = d /\ claim'.state = "done" /\ row'[d] # "none"
             \/ /\ claim'.by = d /\ claim'.state = "pending"
                /\ pc'[d] \in Answering \/ slips' # 0
      PROVE  ClaimInv'
  <2>1. \A e \in Deliveries : pc'[e] = "complete" => row'[e] # "none"
    BY <1>0, <1>2 DEF ClaimInv
  <2>2. CASE claim' = claim /\ claim # NoClaim
    <3>1. claim.by \in Deliveries
      BY <2>2, ClaimedFacts
    <3> QED BY <1>0, <1>2, <2>1, <2>2, <3>1 DEF ClaimInv
  <2>3. CASE claim' = NoClaim
    BY <1>1, <2>1, <2>3 DEF ClaimInv
  <2> QED BY <1>2, <2>1, <2>2, <2>3 DEF ClaimInv
<1>3. ASSUME NEW d \in Deliveries, Run(d) \/ Fail(d) PROVE ClaimInv'
  <2>0. /\ \A w \in {"retry", "accepted", "refused"} : Answer(d, w) => pc'[d] = "done"
        /\ GiveUp(d) => pc'[d] = "done"
        /\ \A p \in Pcs : Goto(d, p) => pc'[d] = p
        /\ \A e \in Deliveries \ {d} : pc'[e] = pc[e]
    BY <1>3, EndsAnswered, OthersStay
  <2>1. TakeClaim(d) => claim'.by = d /\ claim'.state = "pending"
    BY DEF TakeClaim
  <2>2. CompleteClaim(d) => \/ claim' = claim /\ claim.by # d
                            \/ claim'.by = d /\ claim'.state = "done"
    <3>1. claim.by = d => claim \in [by : Deliveries, state : {"pending", "stale", "done"}]
      BY <1>1, Names DEF Claims, NoClaim
    <3> QED BY <3>1 DEF CompleteClaim
  <2>3. ReleaseClaim(d) => \/ claim' = NoClaim
                           \/ claim' = claim /\ (claim.by # d \/ claim.state = "done")
    BY DEF ReleaseClaim
  <2>4. Slip => slips' # 0
    BY DEF Slip, TypeOK
  <2>5. ASSUME AbandonInDO(d), UNCHANGED row, pc'[d] # "complete" PROVE ClaimInv'
    BY <1>2, <2>0, <2>2, <2>3, <2>5 DEF AbandonInDO
  <2>6. ASSUME UNCHANGED <<claim, row>>, pc[d] \in {"check", "claim"}, pc'[d] # "complete"
        PROVE  ClaimInv'
    <3>1. claim.by = d => claim.state \in {"pending", "stale", "done"}
      BY <1>1, Names DEF Claims, NoClaim
    <3> QED BY <1>0, <1>2, <2>0, <2>6, <3>1 DEF ClaimInv
  <2> USE DEF Pcs, doVars, notes, ghosts
  <2>7. CASE Check(d)
    BY <2>0, <2>6, <2>7 DEF Check
  <2>8. CASE ClaimMessage(d)
    BY <2>0, <2>1, <2>6, <1>2, <2>8 DEF ClaimMessage
  <2>9. CASE Attach(d)
    BY <2>0, <1>2, <2>9 DEF Attach
  <2>10. CASE Classify(d)
    BY <2>0, <1>2, <2>10 DEF Classify
  <2>11. CASE StoreContent(d)
    BY <2>0, <1>2, <2>11 DEF StoreContent
  <2>12. CASE StoreRow(d)
    BY <2>0, <1>2, <2>12 DEF StoreRow, CreateEmail, TypeOK, ClaimInv
  <2>13. CASE Complete(d)
    BY <2>0, <2>2, <1>2, <2>13 DEF Complete, ClaimInv
  <2>14. CASE Abandon(d)
    BY <2>0, <2>5, <2>14 DEF Abandon
  <2>15. CASE Erase(d)
    BY <2>0, <1>2, <2>15 DEF Erase, ClaimInv
  <2>16. CASE ClaimThrows(d)
    BY <2>0, <2>1, <2>4, <2>6, <1>2, <2>16 DEF ClaimThrows
  <2>17. CASE StoreThrows(d)
    BY <2>0, <1>2, <2>17 DEF StoreThrows, CreateEmail, TypeOK
  <2>18. CASE AbandonThrows(d)
    BY <2>0, <2>4, <2>5, <1>2, <2>18 DEF AbandonThrows
  <2>19. CASE Dies(d)
    BY <2>0, <2>4, <1>2, <2>19 DEF Dies, TypeOK
  <2>20. CASE TimesOut(d)
    BY <2>4, <1>0, <1>2, <2>20 DEF TimesOut, ClaimInv
  <2> QED BY <1>3, <2>7, <2>8, <2>9, <2>10, <2>11, <2>12, <2>13, <2>14,
             <2>15, <2>16, <2>17, <2>18, <2>19, <2>20 DEF Run, Fail
<1>4. ASSUME NEW d \in Deliveries, NEW v \in Envelopes, Arrive(d, v) PROVE ClaimInv'
  <2>1. claim' = claim /\ row' = row /\ slips' = slips /\ pc' = [pc EXCEPT ![d] = "check"]
    BY <1>4 DEF Arrive, Goto, doVars, ghosts
  <2>2. pc[d] = "idle"
    BY <1>4 DEF Arrive
  <2> QED BY <2>1, <2>2, <1>1 DEF ClaimInv, TypeOK
<1>5. CASE \E d \in Deliveries : DeleteRow(d)
  BY <1>5, <1>0, <1>1, ClaimedFacts DEF DeleteRow, ClaimInv, ghosts
<1>6. CASE Purge
  BY <1>6, <1>0, <1>1 DEF Purge, ClaimInv
<1>7. CASE ClaimGoesStale
  <2>1. claim'.by = claim.by /\ claim.state = "pending" /\ claim'.state # "done"
    <3>1. claim \in [by : Deliveries, state : {"pending", "stale", "done"}]
      BY <1>1, <1>7 DEF Claims, NoClaim, ClaimGoesStale
    <3> QED BY <1>7, <3>1 DEF ClaimGoesStale
  <2> QED BY <1>7, <2>1 DEF ClaimGoesStale, ClaimInv, ghosts
<1>8. CASE Revive \/ UNCHANGED vars
  BY <1>8 DEF Revive, vars, doVars, ghosts, ClaimInv
<1> QED BY <1>3, <1>4, <1>5, <1>6, <1>7, <1>8 DEF Next

LEMMA KeptStep ==
  TypeOK /\ BlobInv /\ SenderInv /\ ClaimInv /\ KeptInv /\ [Next]_vars => KeptInv'
<1> SUFFICES ASSUME TypeOK, BlobInv, SenderInv, ClaimInv, KeptInv, [Next]_vars PROVE KeptInv'
  OBVIOUS
<1>0. /\ slips' = 0 => slips = 0
      /\ EverStored => EverStored'
  BY SlipsGrow, RowsStay DEF EverStored
<1>1. ASSUME UNCHANGED envelope PROVE KeptInv'
  BY <1>0, <1>1 DEF KeptInv, Safe
\* Asking for a retry, or refusing, leaves an envelope to ask.
<1>2. ASSUME NEW d \in Deliveries, NEW w \in {"retry", "refused"}, Answer(d, w) PROVE KeptInv'
  <2>1. CASE sender[d] = NoOne
    BY <1>1, <1>2, <2>1, Names DEF Answer, TypeOK
  <2>2. CASE sender[d] # NoOne
    BY <1>0, <1>2, <2>2, AnswerSenders DEF KeptInv, Safe, TypeOK
  <2> QED BY <2>1, <2>2
\* So does accepting, if another envelope is open.
<1>3. ASSUME NEW d \in Deliveries, Answer(d, "accepted"),
             \/ EverStored
             \/ slips # 0
             \/ \E e \in Deliveries \ {d} : sender[e] # NoOne
      PROVE  KeptInv'
  <2>1. CASE \E e \in Deliveries \ {d} : sender[e] # NoOne
    <3>1. PICK e \in Deliveries \ {d} : sender[e] # NoOne
      BY <2>1
    <3>2. sender[e] \in Envelopes /\ sender[e] # sender[d] /\ envelope[sender[e]] = "open"
      BY <3>1 DEF SenderInv, TypeOK
    <3>3. envelope'[sender[e]] = "open"
      BY <1>0, <1>3, <3>2 DEF Answer, TypeOK
    <3> QED BY <3>2, <3>3 DEF KeptInv, Safe
  <2> QED BY <1>0, <1>3, <2>1 DEF KeptInv, Safe
<1>4. ASSUME NEW d \in Deliveries, GiveUp(d) PROVE KeptInv'
  BY <1>2, <1>4 DEF GiveUp
<1>5. ASSUME NEW d \in Deliveries, Run(d) \/ Fail(d) PROVE KeptInv'
  <2>1. CASE Check(d)
    BY <1>1, <1>2, <2>1 DEF Check
  \* A duplicate is turned away by a row, or by a claim somebody answers for.
  <2>2. CASE ClaimMessage(d)
    <3>1. CASE UNCHANGED envelope
      BY <1>1, <3>1
    <3>2. CASE ~MayClaim /\ Answer(d, "accepted")
      <4>1. CASE Stored # {}
        <5>1. EverStored
          BY <4>1 DEF Stored, EverStored
        <5> QED BY <1>3, <3>2, <5>1
      <4>2. CASE claim.state = "pending" /\ slips = 0
        <5>1. claim # NoClaim
          BY <4>2 DEF NoClaim
        <5>2. claim.by \in Deliveries
          BY <5>1, ClaimedFacts
        <5>3. CASE row[claim.by] # "none"
          BY <1>3, <3>2, <5>2, <5>3 DEF EverStored
        <5>4. CASE pc[claim.by] \in Answering
          <6>1. claim.by # d
            BY <2>2, <5>4 DEF ClaimMessage, Answering, Working
          <6>2. sender[claim.by] # NoOne
            BY <4>2, <5>2, <5>4 DEF SenderInv, Answering
          <6> QED BY <1>3, <3>2, <5>2, <6>1, <6>2
        <5> QED BY <4>2, <5>3, <5>4 DEF ClaimInv
      <4> QED BY <1>3, <3>2, <4>1, <4>2 DEF MayClaim
    <3> QED BY <2>2, <3>1, <3>2 DEF ClaimMessage
  <2>3. CASE Complete(d)
    <3>1. EverStored
      BY <2>3 DEF Complete, ClaimInv, EverStored
    <3> QED BY <1>3, <2>3, <3>1 DEF Complete
  <2>4. CASE Abandon(d)
    BY <1>1, <1>4, <2>4 DEF Abandon
  <2>5. CASE Erase(d)
    BY <1>4, <2>5 DEF Erase
  <2>6. CASE AbandonThrows(d)
    BY <1>1, <1>4, <2>6 DEF AbandonThrows
  <2>7. CASE ClaimThrows(d) \/ Dies(d)
    BY <1>2, <2>7 DEF ClaimThrows, Dies
  <2>8. CASE TimesOut(d)
    <3>1. slips' # 0
      BY <2>8 DEF TimesOut, Slip, TypeOK
    <3> QED BY <3>1 DEF KeptInv
  <2>9. CASE Attach(d) \/ Classify(d) \/ StoreContent(d) \/ StoreRow(d) \/ StoreThrows(d)
    BY <1>1, <2>9 DEF Attach, Classify, StoreContent, StoreRow, StoreThrows
  <2> QED BY <1>5, <2>1, <2>2, <2>3, <2>4, <2>5, <2>6, <2>7, <2>8, <2>9 DEF Run, Fail
<1>6. ASSUME NEW d \in Deliveries, NEW v \in Envelopes, Arrive(d, v) PROVE KeptInv'
  <2>1. envelope'[v] = "open"
    BY <1>6 DEF Arrive, TypeOK
  <2> QED BY <2>1 DEF KeptInv, Safe
<1>7. CASE \/ \E d \in Deliveries : DeleteRow(d)
           \/ Purge \/ Revive \/ ClaimGoesStale \/ UNCHANGED vars
  BY <1>1, <1>7 DEF DeleteRow, Purge, Revive, ClaimGoesStale, vars
<1> QED BY <1>5, <1>6, <1>7 DEF Next

\* No accepted message is lost unless a delivery failed with nobody left to know:
\* killed or timed out, or a call about its claim lost.
THEOREM AcceptedKept == Spec => []KeptUnlessSlip
<1>1. Init => TypeOK /\ BlobInv /\ SenderInv /\ ClaimInv /\ KeptInv
  BY InitBudget DEF Init, TypeOK, Claims, NoClaim, BlobInv, BlobOK, SenderInv, ClaimInv,
     KeptInv, Working
<1>2. KeptInv => KeptUnlessSlip
  BY DEF KeptInv, Safe, KeptUnlessSlip, AcceptedIsKept, Pending
<1> QED BY <1>1, <1>2, TypeStep, BlobStep, SenderStep, ClaimStep, KeptStep, PTL DEF Spec

-----------------------------------------------------------------------------
(* What the senders are promised.                                          *)

\* Nothing is forgotten of what went wrong.
Remembered == overtaken \subseteq overtaken' /\ slips' \in Nat /\ slips <= slips'

LEMMA StepsRemember == ASSUME TypeOK, [Next]_vars PROVE Remembered
<1>1. slips' \in {slips, slips + 1}
  BY DEF Next, Run, Fail, Slip, Arrive, Check, ClaimMessage, ClaimThrows, Attach, Classify,
         StoreContent, StoreRow, StoreThrows, Complete, Abandon, AbandonThrows, Erase, Dies,
         TimesOut, DeleteRow, Purge, Revive, ClaimGoesStale, vars, ghosts
<1>2. slips \in Nat
  BY DEF TypeOK
<1>3. slips' \in Nat /\ slips <= slips'
  BY <1>1, <1>2
<1> QED BY <1>3, OvertakenGrows DEF Remembered

\* The sender of a delivery learns that its message was accepted only if the message was
\* stored or another delivery goes on.
Vouched(d) == slips = 0 => EverStored \/ \E e \in Deliveries \ {d} : sender[e] # NoOne

LEMMA QuietPromised ==
  ASSUME Remembered, UNCHANGED <<row, envelope>>
  PROVE  Promise!Next
BY DEF Remembered, Promise!Next

LEMMA AnswerPromised ==
  ASSUME TypeOK, SenderInv, Remembered, UNCHANGED row, NEW d \in Deliveries,
         NEW w \in {"retry", "accepted", "refused"}, Answer(d, w),
         w = "accepted" => Vouched(d)
  PROVE  Promise!Next
<1>1. envelope' = [v \in Envelopes |-> IF v = sender[d] THEN w ELSE envelope[v]]
  BY DEF Answer
<1>2. CASE sender[d] = NoOne
  <2>1. envelope' = envelope
    BY <1>1, <1>2, Names DEF TypeOK
  <2> QED BY <2>1, QuietPromised
<1>3. CASE sender[d] # NoOne
  <2> DEFINE v == sender[d]
  <2>1. v \in Envelopes /\ envelope[v] = "open"
    BY <1>3 DEF TypeOK, SenderInv
  <2>2. envelope' = [envelope EXCEPT ![v] = w]
    BY <1>1, <2>1 DEF TypeOK
  <2>3. \A e \in Deliveries \ {d} : sender[e] # NoOne =>
          sender[e] \in Envelopes \ {v} /\ envelope[sender[e]] = "open"
    BY <1>3 DEF TypeOK, SenderInv
  <2> HIDE DEF v
  <2>4. CASE w = "accepted"
    <3>1. Promise!Accept(v)
      BY <2>1, <2>2, <2>3, <2>4 DEF Promise!Accept, Promise!EverStored, Vouched, EverStored
    <3> QED BY <2>1, <3>1 DEF Remembered, Promise!Next
  <2>5. CASE w \in {"retry", "refused"}
    <3>1. Promise!TurnAway(v)
      BY <2>1, <2>2, <2>5 DEF Promise!TurnAway
    <3> QED BY <2>1, <3>1 DEF Remembered, Promise!Next
  <2> QED BY <2>4, <2>5
<1> QED BY <1>2, <1>3

LEMMA StorePromised ==
  ASSUME BlobInv, SlotInv, Remembered, UNCHANGED envelope, NEW d \in Deliveries,
         pc[d] \in {"store", "fallback"}, CreateEmail(d)
  PROVE  Promise!Next
<1>1. row[d] = "none"
  BY DEF BlobInv, BlobOK, Storing
<1>2. \A e \in Stored : d \in overtaken \/ e \in overtaken
  BY DEF SlotInv, Slot, Storing
<1>3. Promise!Store(d)
  BY <1>1, <1>2 DEF CreateEmail, Promise!Store, Promise!Stored, Stored
<1> QED BY <1>3 DEF Remembered, Promise!Next

\* A duplicate is turned away by a row, or by a claim whose holder still answers.
LEMMA DuplicateVouched ==
  ASSUME TypeOK, SenderInv, ClaimInv, NEW d \in Deliveries, pc[d] = "claim", ~MayClaim
  PROVE  Vouched(d)
<1> SUFFICES ASSUME slips = 0, ~EverStored
             PROVE  \E e \in Deliveries \ {d} : sender[e] # NoOne
  BY DEF Vouched
<1>1. claim.state = "pending"
  BY DEF MayClaim, Stored, EverStored
<1>2. claim.by \in Deliveries
  BY <1>1, ClaimedFacts DEF NoClaim
<1>3. pc[claim.by] \in Answering
  BY <1>1, <1>2 DEF ClaimInv, EverStored
<1>4. claim.by # d /\ sender[claim.by] # NoOne
  BY <1>2, <1>3 DEF SenderInv, Answering, Working
<1> QED BY <1>2, <1>4

LEMMA WorkPromised ==
  ASSUME TypeOK, BlobInv, SlotInv, SenderInv, ClaimInv, Remembered,
         NEW d \in Deliveries, Run(d) \/ Fail(d)
  PROVE  Promise!Next
<1> USE DEF doVars
<1>1. \A w \in {"retry", "refused"} : UNCHANGED row /\ Answer(d, w) => Promise!Next
  BY AnswerPromised
<1>2. UNCHANGED row /\ GiveUp(d) => Promise!Next
  BY <1>1 DEF GiveUp
<1>3. UNCHANGED <<row, envelope>> => Promise!Next
  BY QuietPromised
<1>4. CASE Check(d)
  BY <1>1, <1>3, <1>4 DEF Check
<1>5. CASE ClaimMessage(d)
  <2>1. CASE UNCHANGED envelope
    BY <1>3, <1>5, <2>1 DEF ClaimMessage
  <2>2. CASE ~MayClaim /\ Answer(d, "accepted")
    BY <1>5, <2>2, DuplicateVouched, AnswerPromised DEF ClaimMessage
  <2> QED BY <1>5, <2>1, <2>2 DEF ClaimMessage
<1>6. CASE StoreRow(d)
  BY <1>3, <1>6, StorePromised DEF StoreRow
<1>7. CASE StoreThrows(d)
  BY <1>3, <1>7, StorePromised DEF StoreThrows
<1>8. CASE Complete(d)
  <2>1. Vouched(d)
    BY <1>8 DEF Complete, ClaimInv, Vouched, EverStored
  <2> QED BY <1>8, <2>1, AnswerPromised DEF Complete
<1>9. CASE Abandon(d)
  BY <1>2, <1>3, <1>9 DEF Abandon
<1>10. CASE AbandonThrows(d)
  BY <1>2, <1>3, <1>10 DEF AbandonThrows
<1>11. CASE Erase(d)
  BY <1>2, <1>11 DEF Erase
<1>12. CASE ClaimThrows(d) \/ Dies(d)
  BY <1>1, <1>12 DEF ClaimThrows, Dies
<1>13. CASE Attach(d) \/ Classify(d) \/ StoreContent(d)
  BY <1>3, <1>13 DEF Attach, Classify, StoreContent
<1>14. CASE TimesOut(d)
  <2> DEFINE v == sender[d]
  <2>1. v \in Envelopes /\ envelope[v] = "open"
    BY <1>14 DEF TimesOut, TypeOK, SenderInv
  <2>2. Promise!TurnAway(v)
    BY <1>14, <2>1 DEF TimesOut, Promise!TurnAway
  <2> QED BY <2>1, <2>2 DEF Remembered, Promise!Next
<1> QED BY <1>4, <1>5, <1>6, <1>7, <1>8, <1>9, <1>10, <1>11, <1>12, <1>13, <1>14 DEF Run, Fail

LEMMA RemovePromised ==
  ASSUME TypeOK, Remembered, UNCHANGED envelope, NEW S \in SUBSET Stored,
         row' = [d \in Deliveries |-> IF d \in S THEN "gone" ELSE row[d]]
  PROVE  Promise!Next
<1>1. Promise!Remove(S) /\ S \in SUBSET Promise!Stored
  BY DEF Promise!Remove, Promise!Stored, Stored
<1> QED BY <1>1 DEF Remembered, Promise!Next

\* However deliveries of one message interleave, and whatever fails, receiving it keeps
\* MailPromise: one row unless a delivery outlived its claim, each stored at most once,
\* and no envelope accepted on nothing.
THEOREM Implements == Spec => KeepsMail
<1> DEFINE MailInv == TypeOK /\ BlobInv /\ SlotInv /\ SenderInv /\ ClaimInv
<1>1. Init => MailInv
  BY InitBudget DEF Init, TypeOK, Claims, NoClaim, BlobInv, BlobOK, SlotInv, OneRow, Slot,
     Stored, Storing, SenderInv, ClaimInv, Working
<1>2. MailInv /\ [Next]_vars => MailInv'
  BY TypeStep, BlobStep, SlotStep, SenderStep, ClaimStep
<1>3. Init => Promise!Init
  BY DEF Init, Promise!Init
<1>4. MailInv /\ [Next]_vars => [Promise!Next]_(Promise!vars)
  <2> SUFFICES ASSUME MailInv, [Next]_vars PROVE Promise!Next
    OBVIOUS
  <2>1. Remembered
    BY StepsRemember
  <2>2. CASE \E d \in Deliveries : Run(d) \/ Fail(d)
    BY <2>1, <2>2, WorkPromised
  <2>3. CASE \E d \in Deliveries, v \in Envelopes : Arrive(d, v)
    <3>1. PICK d \in Deliveries, v \in Envelopes : Arrive(d, v)
      BY <2>3
    <3>2. Promise!Offer(v)
      BY <3>1 DEF Arrive, doVars, Promise!Offer
    <3> QED BY <2>1, <3>2 DEF Remembered, Promise!Next
  <2>4. CASE \E d \in Deliveries : DeleteRow(d)
    <3>1. PICK d \in Deliveries : DeleteRow(d)
      BY <2>4
    <3>2. {d} \in SUBSET Stored /\ UNCHANGED envelope
          /\ row' = [e \in Deliveries |-> IF e \in {d} THEN "gone" ELSE row[e]]
      BY <3>1 DEF DeleteRow, Stored, TypeOK
    <3> QED BY <2>1, <3>2, RemovePromised
  <2>5. CASE Purge
    <3>1. row' = [e \in Deliveries |-> IF e \in Stored THEN "gone" ELSE row[e]]
          /\ UNCHANGED envelope
      BY <2>5 DEF Purge, Stored
    <3> QED BY <2>1, <3>1, RemovePromised
  <2>6. CASE Revive \/ ClaimGoesStale \/ UNCHANGED vars
    BY <2>1, <2>6, QuietPromised DEF Revive, ClaimGoesStale, vars, doVars
  <2> QED BY <2>2, <2>3, <2>4, <2>5, <2>6 DEF Next
<1> QED
  <2> HIDE DEF MailInv
  <2> QED BY <1>1, <1>2, <1>3, <1>4, PTL DEF Spec, KeepsMail, Promise!Spec

\* The promise says enough: a mailbox that keeps it shows the message once unless a
\* delivery outlived its claim, and loses no accepted message unless a failure went unseen.
THEOREM PromiseSuffices == KeepsMail => [](OneRow /\ KeptUnlessSlip)
<1> DEFINE Types == /\ row \in [Deliveries -> {"none", "stored", "gone"}]
                    /\ envelope \in [Envelopes -> {"new", "open", "retry", "accepted", "refused"}]
                    /\ slips \in Nat
           Inv == Types /\ OneRow /\ KeptInv
<1>1. Promise!Init => Inv
  BY DEF Promise!Init, OneRow, Stored, KeptInv
<1>2. Inv /\ [Promise!Next]_(Promise!vars) => Inv'
  <2> SUFFICES ASSUME Inv, [Promise!Next]_(Promise!vars) PROVE Inv'
    OBVIOUS
  <2>1. /\ overtaken \subseteq overtaken' /\ slips' \in Nat
        /\ slips' = 0 => slips = 0
    BY DEF Promise!Next, Promise!vars
  <2>2. CASE UNCHANGED <<row, envelope>>
    BY <2>1, <2>2 DEF OneRow, Stored, KeptInv, Safe, EverStored
  <2>3. ASSUME UNCHANGED row, NEW v \in Envelopes,
               Promise!Offer(v) \/ Promise!Accept(v) \/ Promise!TurnAway(v)
        PROVE  Inv'
    <3>1. OneRow' /\ (EverStored' <=> EverStored)
      BY <2>1, <2>3 DEF OneRow, Stored, EverStored
    <3>2. CASE Promise!Accept(v)
      <4>1. envelope' = [envelope EXCEPT ![v] = "accepted"]
        BY <3>2 DEF Promise!Accept
      <4>2. slips' = 0 => EverStored \/ \E u \in Envelopes \ {v} : envelope[u] = "open"
        BY <2>1, <3>2 DEF Promise!Accept, Promise!EverStored, EverStored
      <4>3. slips' = 0 => Safe'
        BY <3>1, <4>1, <4>2 DEF Safe
      <4> QED BY <2>1, <2>3, <3>1, <4>1, <4>3 DEF KeptInv
    <3>3. CASE Promise!Offer(v) \/ Promise!TurnAway(v)
      <4>1. \E a \in {"open", "retry", "refused"} : envelope' = [envelope EXCEPT ![v] = a]
        BY <3>3 DEF Promise!Offer, Promise!TurnAway
      <4>2. Safe'
        BY <4>1 DEF Safe
      <4> QED BY <2>1, <2>3, <3>1, <4>1, <4>2 DEF KeptInv
    <3> QED BY <2>3, <3>2, <3>3
  <2>4. ASSUME NEW d \in Deliveries, Promise!Store(d) PROVE Inv'
    <3>1. /\ row' = [row EXCEPT ![d] = "stored"] /\ envelope' = envelope
          /\ \A e \in Stored : d \in overtaken \/ e \in overtaken
      BY <2>4 DEF Promise!Store, Promise!Stored, Stored
    <3>2. Stored' = Stored \cup {d} /\ EverStored'
      BY <3>1 DEF Stored, EverStored
    <3>3. OneRow'
      BY <2>1, <3>1, <3>2 DEF OneRow
    <3> QED BY <2>1, <3>1, <3>2, <3>3 DEF KeptInv, Safe
  <2>5. ASSUME NEW S \in SUBSET Promise!Stored, Promise!Remove(S) PROVE Inv'
    <3>1. /\ row' = [d \in Deliveries |-> IF d \in S THEN "gone" ELSE row[d]]
          /\ envelope' = envelope
      BY <2>5 DEF Promise!Remove
    <3>2. Stored' \subseteq Stored /\ (EverStored => EverStored')
      BY <3>1 DEF Stored, EverStored
    <3>3. OneRow'
      BY <2>1, <3>2 DEF OneRow
    <3> QED BY <2>1, <3>1, <3>2, <3>3 DEF KeptInv, Safe
  <2> QED BY <2>2, <2>3, <2>4, <2>5
          DEF Promise!Next, Promise!vars, Promise!Offer, Promise!Accept, Promise!TurnAway
<1>3. Inv => OneRow /\ KeptUnlessSlip
  BY DEF KeptInv, Safe, KeptUnlessSlip, AcceptedIsKept, Pending
<1> QED
  <2> HIDE DEF Inv
  <2> QED BY <1>1, <1>2, <1>3, PTL DEF KeepsMail, Promise!Spec

=============================================================================
