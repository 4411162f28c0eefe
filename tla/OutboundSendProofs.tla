------------------------- MODULE OutboundSendProofs -------------------------
(* Proofs about OutboundSend, for any number of rows and consumers and any *)
(* kind and number of faults.                                              *)
EXTENDS OutboundSend, FiniteSetTheorems, TLAPS

-----------------------------------------------------------------------------
(* Types.                                                                  *)

LEMMA NobodyIsAParty ==
  /\ NoMessage \notin Message
  /\ NoRow \notin Snapshot
  /\ IdleWorker \notin Busy
BY Parties DEF Message, NoMessage, Snapshot, NoRow, IdleWorker, Busy

LEMMA BusyFacts ==
  ASSUME WorkerTypes, NEW w \in Workers, worker[w].pc # "idle"
  PROVE  /\ worker[w] \in Busy
         /\ worker[w].msg \in Message
         /\ MailOf(w) \in Mails
BY DEF WorkerTypes, Busy, IdleWorker, Message, MailOf

\* A consumer that moves on keeps its message.
LEMMA GotoFacts ==
  ASSUME WorkerTypes, NEW w \in Workers, worker[w].pc # "idle",
         NEW pc \in WorkerPcs \ {"idle"}, Goto(w, pc)
  PROVE  /\ WorkerTypes'
         /\ worker'[w] = [worker[w] EXCEPT !.pc = pc]
         /\ worker'[w].pc = pc /\ worker'[w].msg = worker[w].msg
         /\ \A v \in Workers \ {w} : worker'[v] = worker[v]
         /\ UNCHANGED queues
<1>1. worker[w] \in Busy
  BY BusyFacts
<1>2. [worker[w] EXCEPT !.pc = pc] \in Busy
  BY <1>1 DEF Busy
<1> QED BY <1>1, <1>2 DEF WorkerTypes, Goto, Busy

LEMMA IdleFacts ==
  ASSUME WorkerTypes, NEW w \in Workers, worker' = [worker EXCEPT ![w] = IdleWorker]
  PROVE  /\ WorkerTypes'
         /\ worker'[w] = IdleWorker
         /\ \A v \in Workers \ {w} : worker'[v] = worker[v]
BY DEF WorkerTypes

LEMMA RedeliverFacts ==
  ASSUME WorkerTypes, QueueTypes, NEW w \in Workers, worker[w].pc # "idle", Redeliver(w)
  PROVE  /\ QueueTypes'
         /\ \A m \in sendQueue' \cup deadLetters' :
              m \in sendQueue \cup deadLetters \/ m.mail = MailOf(w)
<1> DEFINE m == worker[w].msg
<1>1. m \in Message
  BY BusyFacts
<1>2. /\ [m EXCEPT !.attempt = @ + 1] \in Message
      /\ [m EXCEPT !.attempt = 1] \in Message
      /\ [m EXCEPT !.attempt = @ + 1].mail = m.mail
      /\ [m EXCEPT !.attempt = 1].mail = m.mail
  BY <1>1 DEF Message
<1> QED BY <1>2 DEF Redeliver, QueueTypes, MailOf, queues

LEMMA TakeFacts ==
  ASSUME WorkerTypes, NEW w \in Workers, NEW q \in {"send", "dlq"}, NEW m \in Message,
         Take(w, q, m)
  PROVE  /\ WorkerTypes'
         /\ worker'[w] = [pc |-> "claim", queue |-> q, msg |-> m]
         /\ \A v \in Workers \ {w} : worker'[v] = worker[v]
<1>1. [pc |-> "claim", queue |-> q, msg |-> m] \in Busy
  BY DEF Busy, WorkerPcs
<1> QED BY <1>1 DEF WorkerTypes, Take

LEMMA SetStateFacts ==
  ASSUME RowTypes, NEW e \in Mails, NEW s \in {"accepted", "failed"},
         SetDeliveryState(e, s)
  PROVE  /\ RowTypes'
         /\ status'[e] = IF status[e] \in {"none", "gone"} THEN status[e] ELSE s
         /\ \A d \in Mails \ {e} : status'[d] = status[d] /\ claim'[d] = claim[d]
         /\ UNCHANGED <<queuedAt, reenqueues>>
BY DEF RowTypes, SetDeliveryState

LEMMA ClaimFacts ==
  ASSUME RowTypes, NEW e \in Mails, NEW h \in Workers \cup {Sweeper},
         ClaimOutboundSend(e, h)
  PROVE  /\ RowTypes'
         /\ Decision(e) = "claimed" => claim'[e] = h
         /\ Decision(e) = "in_flight" => claim'[e] = claim[e]
         /\ \A d \in Mails \ {e} : claim'[d] = claim[d]
         /\ UNCHANGED <<status, queuedAt, reenqueues>>
BY DEF RowTypes, ClaimOutboundSend, Decision

LEMMA ReleaseFacts ==
  ASSUME RowTypes, NEW e \in Mails, ReleaseOutboundSendClaim(e)
  PROVE  /\ RowTypes'
         /\ \A d \in Mails \ {e} : claim'[d] = claim[d]
         /\ UNCHANGED <<status, queuedAt, reenqueues>>
BY DEF RowTypes, ReleaseOutboundSendClaim

LEMMA BudgetFacts ==
  ASSUME GhostTypes
  PROVE  /\ NoFault => faults' \in Faults
         /\ \A k : Fault(k) => faults' \in Faults
<1>1. NoFault => faults' \in Faults
  BY DEF GhostTypes, NoFault
<1>2. ASSUME NEW k, Fault(k) PROVE faults' \in Faults
  <2>1. faults.count \in 0..MaxFaults /\ faults.count < MaxFaults
    BY <1>2 DEF GhostTypes, Faults, Fault
  <2>2. faults.count + 1 \in 0..MaxFaults
    BY <2>1, Bounds
  <2>3. (faults.mild /\ k \in Mild) \in BOOLEAN
    OBVIOUS
  <2> QED BY <1>2, <2>2, <2>3, Zenon DEF Fault, Faults
<1> QED BY <1>1, <1>2

LEMMA SweepFacts ==
  ASSUME SweepTypes
  PROVE  /\ sweep.pc \in {"send", "read", "settle", "clean"} =>
              sweep.row \in Snapshot /\ sweep.row.mail \in Mails
         /\ sweep.todo \subseteq Snapshot
         /\ \A r \in sweep.todo : r.mail \in Mails
         /\ sweep.pc \in {"idle", "next"} => sweep.row = NoRow
BY NobodyIsAParty DEF SweepTypes, Snapshot, NoRow

LEMMA IdleSweepFacts ==
  /\ IdleSweep.pc = "idle" /\ IdleSweep.row = NoRow /\ IdleSweep.todo = {}
  /\ IdleSweep.accepted = FALSE
  /\ IdleSweep \in [pc : {"idle", "next", "send", "read", "settle", "clean"},
                    todo : SUBSET Snapshot, row : Snapshot \cup {NoRow},
                    accepted : BOOLEAN, again : BOOLEAN]
BY DEF IdleSweep

LEMMA InitTypeOK == Init => TypeOK
<1> SUFFICES ASSUME Init PROVE TypeOK
  OBVIOUS
<1>1. RowTypes /\ StoreTypes /\ QueueTypes
  <2>1. RowTypes
    BY Bounds DEF Init, RowTypes
  <2>2. StoreTypes
    BY DEF Init, StoreTypes
  <2>3. QueueTypes
    BY DEF Init, QueueTypes
  <2> QED BY <2>1, <2>2, <2>3
<1>2. WorkerTypes
  BY DEF Init, WorkerTypes
<1>3. SweepTypes
  <2>1. sweep = IdleSweep
    BY DEF Init
  <2>2. sweep.pc = "idle" /\ sweep.row \notin Snapshot
    BY <2>1, NobodyIsAParty, IdleSweepFacts
  <2> QED BY <2>1, <2>2, IdleSweepFacts DEF SweepTypes
<1>4. GhostTypes
  <2>1. faults \in Faults
    BY Bounds DEF Init, Faults
  <2> QED BY <2>1 DEF Init, GhostTypes
<1> QED BY <1>1, <1>2, <1>3, <1>4 DEF TypeOK

\* The steps of a request, of the user and of time.
LEMMA MailStepTypeOK ==
  ASSUME TypeOK, NEW e \in Mails, MailStep(e)
  PROVE  TypeOK'
<1> USE DEF TypeOK
<1>1. CASE StoreRow(e)
  BY <1>1 DEF StoreRow, At, RowTypes, StoreTypes, QueueTypes, WorkerTypes, SweepTypes, GhostTypes,
     queues, ghosts
<1>2. CASE Stage(e)
  <2>1. faults' \in Faults
    BY <1>2, BudgetFacts DEF Stage
  <2> QED BY <1>2, <2>1 DEF Stage, At, RowTypes, StoreTypes, QueueTypes, WorkerTypes, SweepTypes,
          GhostTypes, queues, ghosts, rowVars
<1>3. CASE Enqueue(e)
  <2>1. faults' \in Faults
    BY <1>3, BudgetFacts DEF Enqueue
  <2>2. NewMessage(e, 0) \in Message
    BY Bounds DEF NewMessage, Message
  <2>3. slips' \in [Mails -> Nat]
    BY <1>3 DEF Enqueue, Slip, GhostTypes
  <2> QED BY <1>3, <2>1, <2>2, <2>3 DEF Enqueue, At, RowTypes, StoreTypes, QueueTypes, WorkerTypes,
          SweepTypes, GhostTypes, rowVars
<1>4. CASE NoteQueued(e)
  <2>1. faults' \in Faults
    BY <1>4, BudgetFacts DEF NoteQueued
  <2>2. RowTypes'
    BY <1>4 DEF NoteQueued, MarkQueued, RowTypes, rowVars
  <2> QED BY <1>4, <2>1, <2>2 DEF NoteQueued, At, StoreTypes, QueueTypes, WorkerTypes,
          SweepTypes, GhostTypes, queues, ghosts
<1>5. CASE RecordEnqueueFailure(e)
  <2>1. faults' \in Faults
    BY <1>5, BudgetFacts DEF RecordEnqueueFailure
  <2>2. RowTypes'
    BY <1>5 DEF RecordEnqueueFailure, SetDeliveryState, RowTypes, rowVars
  <2> QED BY <1>5, <2>1, <2>2 DEF RecordEnqueueFailure, At, StoreTypes, QueueTypes, WorkerTypes,
          SweepTypes, GhostTypes, queues, ghosts
<1>6. CASE Unstage(e)
  <2>1. faults' \in Faults
    BY <1>6, BudgetFacts DEF Unstage
  <2> QED BY <1>6, <2>1 DEF Unstage, DeletePayload, At, RowTypes, StoreTypes, QueueTypes, WorkerTypes,
          SweepTypes, GhostTypes, queues, ghosts, rowVars
<1>7. CASE RequestDies(e)
  <2>1. faults' \in Faults
    BY <1>7, BudgetFacts DEF RequestDies
  <2> QED BY <1>7, <2>1 DEF RequestDies, At, RowTypes, StoreTypes, QueueTypes, WorkerTypes,
          SweepTypes, GhostTypes, queues, ghosts, rowVars
<1>8. CASE DeleteRow(e)
  BY <1>8 DEF DeleteRow, RowTypes, StoreTypes, QueueTypes, WorkerTypes, SweepTypes, GhostTypes,
     queues, ghosts
<1>9. CASE ThresholdPasses(e)
  BY <1>9 DEF ThresholdPasses, RowTypes, StoreTypes, QueueTypes, WorkerTypes, SweepTypes,
     GhostTypes, queues, ghosts
<1>10. CASE LeaseExpires(e)
  BY <1>10, ReleaseFacts DEF LeaseExpires, StoreTypes, QueueTypes, WorkerTypes, SweepTypes,
     GhostTypes, queues, NoFault
<1>11. CASE LeaseOverrun(e)
  <2>1. faults' \in Faults
    BY <1>11, BudgetFacts DEF LeaseOverrun
  <2>2. slips' \in [Mails -> Nat]
    BY <1>11 DEF LeaseOverrun, Slip, GhostTypes
  <2> QED BY <1>11, <2>1, <2>2, ReleaseFacts DEF LeaseOverrun, StoreTypes, QueueTypes,
          WorkerTypes, SweepTypes, GhostTypes, queues
<1> QED BY <1>1, <1>2, <1>3, <1>4, <1>5, <1>6, <1>7, <1>8, <1>9, <1>10, <1>11
        DEF MailStep, Produce

\* The steps of a consumer.
LEMMA WorkerStepTypeOK ==
  ASSUME TypeOK, NEW w \in Workers, WorkerStep(w)
  PROVE  TypeOK'
<1> DEFINE e == MailOf(w)
<1> USE DEF TypeOK
<1>1. CASE DeliverSend(w)
  <2>1. PICK m \in Message : m \in sendQueue /\ Take(w, "send", m)
    BY <1>1 DEF DeliverSend, QueueTypes
  <2>2. WorkerTypes'
    BY <2>1, TakeFacts
  <2>3. QueueTypes' /\ faults' \in Faults
    BY <1>1, BudgetFacts DEF DeliverSend, QueueTypes
  <2> QED BY <1>1, <2>2, <2>3 DEF DeliverSend, RowTypes, StoreTypes, SweepTypes, GhostTypes,
          rowVars, ghosts
<1>2. CASE DeliverDeadLetter(w)
  <2>1. PICK m \in Message : m \in deadLetters /\ Take(w, "dlq", m)
    BY <1>2 DEF DeliverDeadLetter, QueueTypes
  <2>2. WorkerTypes'
    BY <2>1, TakeFacts
  <2>3. QueueTypes' /\ faults' \in Faults
    BY <1>2, BudgetFacts DEF DeliverDeadLetter, QueueTypes
  <2> QED BY <1>2, <2>2, <2>3 DEF DeliverDeadLetter, RowTypes, StoreTypes, SweepTypes, GhostTypes,
          rowVars, ghosts
<1>3. CASE Consume(w) \/ ClaimThrows(w) \/ ReadThrows(w) \/ WorkerDies(w)
  <2>0. worker[w].pc # "idle" /\ e \in Mails
    BY <1>3, BusyFacts DEF Consume, Claim, ReadPayload, SendAccepted, SendThrows, Record,
       MarkAccepted, ReleaseClaim, Settle, Clean, ClaimThrows, ReadThrows, WorkerDies
  <2>1. QueueTypes' /\ WorkerTypes'
    <3>1. \/ \E pc \in WorkerPcs \ {"idle"} : Goto(w, pc)
          \/ Ack(w) \/ Retry(w)
      BY <1>3 DEF Consume, Claim, ReadPayload, SendAccepted, SendThrows, Record, MarkAccepted,
         ReleaseClaim, Settle, Clean, ClaimThrows, ReadThrows, WorkerDies, WorkerPcs, Holding
    <3>2. ASSUME NEW pc \in WorkerPcs \ {"idle"}, Goto(w, pc) PROVE QueueTypes' /\ WorkerTypes'
      BY <2>0, <3>2, GotoFacts DEF QueueTypes, queues
    <3>3. CASE Ack(w)
      BY <3>3, IdleFacts DEF Ack, QueueTypes, queues
    <3>4. CASE Retry(w)
      BY <2>0, <3>4, IdleFacts, RedeliverFacts DEF Retry
    <3> QED BY <3>1, <3>2, <3>3, <3>4
  <2>2. RowTypes'
    BY <1>3, <2>0, SetStateFacts, ClaimFacts, ReleaseFacts
       DEF Consume, Claim, ReadPayload, SendAccepted, SendThrows, Record, MarkAccepted,
         ReleaseClaim, Settle, Clean, ClaimThrows, ReadThrows, WorkerDies, rowVars, RowTypes
  <2>3. StoreTypes' /\ SweepTypes'
    BY <1>3, <2>0 DEF Consume, Claim, ReadPayload, SendAccepted, SendThrows, Record, MarkAccepted,
         ReleaseClaim, Settle, Clean, ClaimThrows, ReadThrows, WorkerDies, DeletePayload,
         StoreTypes, SweepTypes
  <2>4. faults' \in Faults
    BY <1>3, BudgetFacts DEF Consume, Claim, ReadPayload, SendAccepted, SendThrows, Record,
         MarkAccepted, ReleaseClaim, Settle, Clean, ClaimThrows, ReadThrows, WorkerDies
  <2>5. copies' \in [Mails -> Nat] /\ slips' \in [Mails -> Nat]
    BY <1>3, <2>0 DEF Consume, Claim, ReadPayload, SendAccepted, SendThrows, Record,
         MarkAccepted, ReleaseClaim, Settle, Clean, ClaimThrows, ReadThrows, WorkerDies,
         Slip, GhostTypes, ghosts
  <2> QED BY <2>1, <2>2, <2>3, <2>4, <2>5 DEF GhostTypes
<1> QED BY <1>1, <1>2, <1>3 DEF WorkerStep

\* The steps of the sweeper; SnapshotInv is why its count stays in bounds.
LEMMA SweepStepTypeOK ==
  ASSUME TypeOK, SnapshotInv, Sweep \/ AlarmFires \/ Wake
  PROVE  TypeOK'
<1> USE DEF TypeOK
<1> USE SweepFacts
<1>1. CASE AlarmFires
  <2> DEFINE todo == {[mail |-> x, at |-> queuedAt[x], tries |-> reenqueues[x]] : x \in Queued}
  <2>1. todo \in SUBSET Snapshot
    BY DEF Queued, Snapshot, RowTypes
  <2>2. sweep' = [IdleSweep EXCEPT !.pc = "next", !.todo = todo]
    BY <1>1 DEF AlarmFires
  <2>3. SweepTypes'
    <3> HIDE DEF todo
    <3> QED BY <2>1, <2>2, NobodyIsAParty DEF SweepTypes, IdleSweep
  <2>4. alarm' \in BOOLEAN
    BY <1>1 DEF AlarmFires
  <2> QED BY <1>1, <2>3, <2>4 DEF AlarmFires, RowTypes, StoreTypes, QueueTypes, WorkerTypes, GhostTypes,
          rowVars, queues, ghosts
<1>2. CASE SweepRow
  <2>1. PICK r \in sweep.todo : SweepStamp(r) \/ SweepWait(r) \/ SweepReenqueue(r) \/ SweepGiveUp(r)
    BY <1>2 DEF SweepRow
  <2>2. r \in Snapshot /\ r.mail \in Mails /\ r.tries \in 0..MaxReenqueues
    BY DEF Snapshot
  <2>3. sweep.pc = "next" /\ sweep.row = NoRow
    BY <1>2 DEF SweepRow
  <2>4. RowTypes'
    <3>1. CASE SweepStamp(r)
      BY <2>2, <3>1 DEF SweepStamp, MarkQueued, RowTypes
    <3>2. CASE SweepWait(r)
      BY <3>2 DEF SweepWait, RowTypes, rowVars
    <3>3. CASE SweepReenqueue(r)
      <4>1. reenqueues[r.mail] + 1 \in 0..MaxReenqueues
        BY <2>2, <3>3, Bounds DEF SweepReenqueue, SnapshotInv
      <4> QED BY <2>2, <3>3, <4>1 DEF SweepReenqueue, RowTypes
    <3>4. CASE SweepGiveUp(r)
      BY <2>2, <3>4, ClaimFacts DEF SweepGiveUp
    <3> QED BY <2>1, <3>1, <3>2, <3>3, <3>4
  <2>5. SweepTypes'
    <3>1. NextRow(r).pc = "next" /\ NextRow(r).row = NoRow /\ NextRow(r).accepted = FALSE
      BY <2>3 DEF NextRow, SweepTypes
    <3>2. /\ NextRow(r) \in [pc : {"idle", "next", "send", "read", "settle", "clean"},
                todo : SUBSET Snapshot, row : Snapshot \cup {NoRow},
                accepted : BOOLEAN, again : BOOLEAN]
          /\ NextAgain(r) \in [pc : {"idle", "next", "send", "read", "settle", "clean"},
                todo : SUBSET Snapshot, row : Snapshot \cup {NoRow},
                accepted : BOOLEAN, again : BOOLEAN]
      BY DEF NextRow, NextAgain, SweepTypes
    <3>3. NextAgain(r).pc = "next" /\ NextAgain(r).row = NoRow /\ NextAgain(r).accepted = FALSE
      BY <3>1 DEF NextAgain, NextRow, SweepTypes
    <3>4. CASE sweep' = NextRow(r) \/ sweep' = NextAgain(r)
      BY <3>1, <3>2, <3>3, <3>4, NobodyIsAParty DEF SweepTypes
    <3>5. CASE sweep' = [NextAgain(r) EXCEPT !.pc = "send", !.row = r] /\ r.tries < MaxReenqueues
      BY <2>2, <3>2, <3>3, <3>5 DEF SweepTypes
    <3>6. CASE sweep' = [NextRow(r) EXCEPT !.pc = "read", !.row = r]
      BY <2>2, <3>1, <3>2, <3>6 DEF SweepTypes
    <3>7. CASE SweepGiveUp(r)
      BY <3>4, <3>6, <3>7 DEF SweepGiveUp
    <3>8. CASE SweepStamp(r) \/ SweepWait(r)
      BY <3>4, <3>8 DEF SweepStamp, SweepWait
    <3>9. CASE SweepReenqueue(r)
      BY <3>5, <3>9 DEF SweepReenqueue
    <3> QED BY <2>1, <3>7, <3>8, <3>9
  <2> QED BY <1>2, <2>4, <2>5 DEF SweepRow, StoreTypes, QueueTypes, WorkerTypes, GhostTypes,
          queues, ghosts
<1>3. ASSUME sweep.pc \in {"send", "read", "settle", "clean"}, Resume PROVE SweepTypes'
  BY <1>3, NobodyIsAParty DEF Resume, SweepTypes
<1>4. CASE SweepSend
  <2>1. faults' \in Faults
    BY <1>4, BudgetFacts DEF SweepSend
  <2>2. NewMessage(sweep.row.mail, sweep.row.tries + 1) \in Message
    BY <1>4, Bounds DEF SweepSend, SweepTypes, Snapshot, NewMessage, Message
  <2> QED BY <1>3, <1>4, <2>1, <2>2 DEF SweepSend, RowTypes, StoreTypes, QueueTypes, WorkerTypes,
          GhostTypes, rowVars, ghosts
<1>5. CASE SweepRead
  <2>1. faults' \in Faults
    BY <1>5, BudgetFacts DEF SweepRead
  <2>2. slips' \in [Mails -> Nat]
    BY <1>5 DEF SweepRead, Slip, GhostTypes
  <2>3. sweep.row \in Snapshot
    BY <1>5 DEF SweepRead
  <2>4. SweepTypes'
    <3> DEFINE marked == payload[sweep.row.mail] = "accepted"
    <3>1. marked \in BOOLEAN
      OBVIOUS
    <3>2. sweep' \in {[sweep EXCEPT !.pc = "settle", !.accepted = marked],
                      [sweep EXCEPT !.pc = "settle"]}
      BY <1>5 DEF SweepRead
    <3> HIDE DEF marked
    <3> QED BY <2>3, <3>1, <3>2 DEF SweepTypes
  <2> QED BY <1>5, <2>1, <2>2, <2>4 DEF SweepRead, RowTypes, StoreTypes, QueueTypes, WorkerTypes,
          GhostTypes, rowVars, queues
<1>6. CASE SweepSettle
  <2>1. faults' \in Faults
    BY <1>6, BudgetFacts DEF SweepSettle
  <2>2. sweep.row \in Snapshot /\ sweep.row.mail \in Mails
    BY <1>6 DEF SweepSettle
  <2>3. RowTypes'
    BY <1>6, <2>2, SetStateFacts, ReleaseFacts DEF SweepSettle
  <2>4. SweepTypes'
    <3>1. CASE sweep' = [sweep EXCEPT !.pc = "clean"]
      BY <1>6, <2>2, <3>1 DEF SweepTypes
    <3>2. CASE sweep' = [sweep EXCEPT !.pc = "next", !.row = NoRow,
                                      !.accepted = FALSE, !.again = TRUE]
      BY <3>2, NobodyIsAParty DEF SweepTypes
    <3> QED BY <1>6, <3>1, <3>2 DEF SweepSettle
  <2> QED BY <1>6, <2>1, <2>3, <2>4 DEF SweepSettle, StoreTypes, QueueTypes, WorkerTypes,
          GhostTypes, queues, ghosts
<1>7. CASE SweepClean
  <2>1. faults' \in Faults
    BY <1>7, BudgetFacts DEF SweepClean
  <2> QED BY <1>3, <1>7, <2>1 DEF SweepClean, DeletePayload, RowTypes, StoreTypes, QueueTypes,
          WorkerTypes, GhostTypes, rowVars, queues, ghosts
<1>8. ASSUME sweep' = IdleSweep PROVE SweepTypes'
  <2>1. sweep'.pc = "idle" /\ sweep'.row \notin Snapshot
    BY <1>8, NobodyIsAParty, IdleSweepFacts
  <2> QED BY <1>8, <2>1, IdleSweepFacts DEF SweepTypes
<1>9. CASE SweepEnds
  <2>1. alarm' \in BOOLEAN
    BY <1>9 DEF SweepEnds, SweepTypes, StoreTypes
  <2> QED BY <1>8, <1>9, <2>1 DEF SweepEnds, RowTypes, StoreTypes, QueueTypes, WorkerTypes,
          GhostTypes, rowVars, queues, ghosts
<1>10. CASE Wake
  <2>1. faults' \in Faults
    BY <1>10, BudgetFacts DEF Wake
  <2>2. alarm' \in BOOLEAN
    BY <1>10 DEF Wake, StoreTypes
  <2>3. SweepTypes'
    BY <1>8, <1>10 DEF Wake, SweepTypes
  <2> QED BY <1>10, <2>1, <2>2, <2>3 DEF Wake, RowTypes, StoreTypes, QueueTypes, WorkerTypes,
          GhostTypes, rowVars, queues, ghosts
<1> QED BY <1>1, <1>2, <1>4, <1>5, <1>6, <1>7, <1>9, <1>10 DEF Sweep

LEMMA LoseMessageTypeOK ==
  ASSUME TypeOK, LoseMessage
  PROVE  TypeOK'
<1>1. faults' \in Faults
  BY BudgetFacts DEF LoseMessage, TypeOK
<1> QED BY <1>1 DEF LoseMessage, TypeOK, RowTypes, StoreTypes, QueueTypes, WorkerTypes, SweepTypes,
        GhostTypes, rowVars, ghosts

LEMMA StutterTypeOK ==
  ASSUME TypeOK, UNCHANGED vars
  PROVE  TypeOK'
BY DEF vars, TypeOK, RowTypes, StoreTypes, QueueTypes, WorkerTypes, SweepTypes, GhostTypes,
   rowVars, queues, ghosts

-----------------------------------------------------------------------------
(* The inductive invariant, row by row.                                    *)

\* A step that is not about row d keeps what the invariant says of d.
Untouched(d) ==
  /\ status'[d] = status[d] /\ queuedAt'[d] = queuedAt[d] /\ claim'[d] = claim[d]
  /\ payload'[d] = payload[d] /\ request'[d] = request[d]
  /\ copies'[d] = copies[d] /\ slips'[d] = slips[d]
  /\ \A m \in sendQueue' \cup deadLetters' :
       m.mail = d => m \in sendQueue \cup deadLetters
  /\ \A w \in Workers :
       worker'[w] = worker[w] \/ (worker[w].msg.mail # d /\ worker'[w].msg.mail # d)
  /\ \/ sweep'.pc = sweep.pc /\ sweep'.row = sweep.row /\ sweep'.accepted = sweep.accepted
     \/ sweep.row.mail # d /\ sweep'.row.mail # d
  /\ \A r \in sweep'.todo : r.mail = d => r \in sweep.todo

LEMMA Frame ==
  ASSUME NEW d \in Mails, RowInv(d), Untouched(d)
  PROVE  RowInv(d)'
<1>1. ProducerInv(d)'
  BY DEF RowInv, Untouched, ProducerInv, Unsent, MailOf
<1>2. HolderInv(d)'
  BY DEF RowInv, Untouched, HolderInv, Holds, SweepHolds, MailOf
<1>3. CopyInv(d)'
  BY DEF RowInv, Untouched, CopyInv, Unrecorded, MailOf
<1> QED BY <1>1, <1>2, <1>3 DEF RowInv

LEMMA InitRowInv ==
  ASSUME Init, NEW e \in Mails
  PROVE  RowInv(e)
<1> /\ \A w \in Workers : worker[w].msg.mail = NoOne /\ worker[w].pc = "idle"
    /\ sweep.todo = {} /\ sweep.row.mail = NoOne /\ sweep.pc = "idle"
    /\ NoOne # e
  BY Parties DEF Init, IdleWorker, NoMessage, IdleSweep, NoRow
<1>1. ProducerInv(e)
  BY DEF Init, ProducerInv, MailOf
<1>2. HolderInv(e)
  BY DEF Init, HolderInv, Holds, SweepHolds, MailOf, Holding
<1>3. CopyInv(e)
  BY DEF Init, CopyInv, Unrecorded, MailOf
<1> QED BY <1>1, <1>2, <1>3 DEF RowInv

\* Steps of a request, the user and time, on their own row.
LEMMA MailStepOwnRow ==
  ASSUME IndInv, NEW e \in Mails, MailStep(e)
  PROVE  RowInv(e)'
<1> RowInv(e) /\ TypeOK
  BY DEF IndInv
<1> USE DEF TypeOK, RowTypes, StoreTypes, GhostTypes
<1>1. CASE StoreRow(e)
  BY <1>1 DEF StoreRow, At, RowInv, ProducerInv, Unsent, HolderInv, Holds, SweepHolds, CopyInv,
     Unrecorded, MailOf, queues, ghosts
<1>2. CASE Stage(e)
  BY <1>2 DEF Stage, At, RowInv, ProducerInv, Unsent, HolderInv, Holds, SweepHolds, CopyInv,
     Unrecorded, MailOf, queues, ghosts, rowVars
<1>3. CASE Enqueue(e)
  BY <1>3 DEF Enqueue, At, RowInv, ProducerInv, Unsent, HolderInv, Holds, SweepHolds, CopyInv,
     Unrecorded, MailOf, Slip, rowVars, NewMessage
<1>4. CASE NoteQueued(e)
  BY <1>4 DEF NoteQueued, MarkQueued, At, RowInv, ProducerInv, Unsent, HolderInv, Holds, SweepHolds, CopyInv,
     Unrecorded, MailOf, rowVars, queues, ghosts
<1>5. CASE RecordEnqueueFailure(e)
  BY <1>5 DEF RecordEnqueueFailure, SetDeliveryState, At, RowInv, ProducerInv, Unsent, HolderInv, Holds, SweepHolds, CopyInv,
     Unrecorded, MailOf, rowVars, queues, ghosts
<1>6. CASE Unstage(e)
  BY <1>6 DEF Unstage, DeletePayload, At, RowInv, ProducerInv, Unsent, HolderInv, Holds, SweepHolds, CopyInv,
     Unrecorded, MailOf, rowVars, queues, ghosts
<1>7. CASE RequestDies(e)
  BY <1>7 DEF RequestDies, At, RowInv, ProducerInv, Unsent, HolderInv, Holds, SweepHolds, CopyInv,
     Unrecorded, MailOf, rowVars, queues, ghosts
<1>8. CASE DeleteRow(e)
  BY <1>8 DEF DeleteRow, At, RowInv, ProducerInv, Unsent, HolderInv, Holds, SweepHolds, CopyInv,
     Unrecorded, MailOf, queues, ghosts
<1>9. CASE ThresholdPasses(e)
  BY <1>9 DEF ThresholdPasses, RowInv, ProducerInv, Unsent, HolderInv, Holds, SweepHolds, CopyInv,
     Unrecorded, MailOf, queues, ghosts
<1>10. CASE LeaseExpires(e)
  BY <1>10 DEF LeaseExpires, ReleaseOutboundSendClaim, Held, RowInv, ProducerInv, Unsent, HolderInv, Holds, SweepHolds, CopyInv,
     Unrecorded, MailOf, queues
<1>11. CASE LeaseOverrun(e)
  BY <1>11 DEF LeaseOverrun, ReleaseOutboundSendClaim, Slip, RowInv, ProducerInv, Unsent, HolderInv, Holds, SweepHolds, CopyInv,
     Unrecorded, MailOf, queues
<1> QED BY <1>1, <1>2, <1>3, <1>4, <1>5, <1>6, <1>7, <1>8, <1>9, <1>10, <1>11
        DEF MailStep, Produce

\* A consumer takes a message up; it does not hold the row yet.
LEMMA DeliverOwnRow ==
  ASSUME IndInv, NEW w \in Workers, NEW q \in {"send", "dlq"},
         NEW m \in sendQueue \cup deadLetters, worker[w].pc = "idle", Take(w, q, m),
         \A n \in sendQueue' \cup deadLetters' : n \in sendQueue \cup deadLetters,
         UNCHANGED <<rowVars, payload, request, sweep, ghosts>>
  PROVE  RowInv(m.mail)'
<1> DEFINE e == m.mail
<1>1. m \in Message /\ e \in Mails
  BY DEF IndInv, TypeOK, QueueTypes, Message
<1>2. /\ worker'[w] = [pc |-> "claim", queue |-> q, msg |-> m]
      /\ \A v \in Workers \ {w} : worker'[v] = worker[v]
  BY <1>1, TakeFacts DEF IndInv, TypeOK
<1>3. RowInv(e)
  BY <1>1 DEF IndInv
<1>4. request[e] = "done" \/ ~Unsent(e)
  BY <1>3 DEF RowInv, ProducerInv
<1> HIDE DEF e
<1> QED BY <1>1, <1>2, <1>3, <1>4 DEF e, RowInv, ProducerInv, Unsent, HolderInv, Holds, SweepHolds,
     CopyInv, Unrecorded, MailOf,
     Holding, rowVars, ghosts

\* The consumer's steps, on the row of its message.
LEMMA ConsumerOwnRow ==
  ASSUME IndInv, NEW w \in Workers, NEW e \in Mails, MailOf(w) = e,
         Consume(w) \/ ClaimThrows(w) \/ ReadThrows(w) \/ WorkerDies(w)
  PROVE  RowInv(e)'
<1>0. worker[w].pc # "idle"
  BY DEF Consume, Claim, ReadPayload, SendAccepted, SendThrows, Record,
     MarkAccepted, ReleaseClaim, Settle, Clean, ClaimThrows, ReadThrows, WorkerDies
<1>1. e \in Mails /\ TypeOK /\ RowInv(e)
  BY DEF IndInv
<1> DEFINE Others == \A v \in Workers \ {w} : worker'[v] = worker[v]
           Moves(pc) == /\ worker'[w].pc = pc /\ worker'[w].msg = worker[w].msg
                        /\ Others /\ UNCHANGED queues
           Leaves == /\ worker'[w].pc = "idle" /\ worker'[w].msg.mail # e /\ Others
                     /\ \A m \in sendQueue' \cup deadLetters' :
                          m \in sendQueue \cup deadLetters \/ m.mail = e
<1>2. ASSUME NEW pc \in WorkerPcs \ {"idle"}, Goto(w, pc) PROVE Moves(pc)
  BY <1>0, <1>1, <1>2, GotoFacts DEF TypeOK
<1>3. ASSUME Ack(w) \/ Retry(w) PROVE Leaves
  <2>1. worker'[w] = IdleWorker /\ Others
    BY <1>1, <1>3, IdleFacts DEF TypeOK, Ack, Retry
  <2>2. worker'[w].pc = "idle" /\ worker'[w].msg.mail # e
    BY <1>1, <2>1, Parties DEF IdleWorker, NoMessage
  <2>3. CASE Ack(w)
    BY <2>1, <2>2, <2>3 DEF Ack, queues
  <2>4. CASE Retry(w)
    BY <1>0, <1>1, <2>1, <2>2, <2>4, RedeliverFacts DEF Retry, TypeOK
  <2> QED BY <1>3, <2>3, <2>4
<1>4. \A m \in sendQueue \cup deadLetters : m.mail = e => ~Unsent(e)
  BY <1>1 DEF RowInv, ProducerInv
<1>5. ~Unsent(e) /\ MailOf(w) = e /\ worker[w].msg.mail = e
  BY <1>1 DEF RowInv, ProducerInv, MailOf
<1>6. ProducerInv(e)'
  <2>1. UNCHANGED <<request, queuedAt, sweep>>
    BY DEF Consume, Claim, ReadPayload, SendAccepted, SendThrows, Record, MarkAccepted,
       ReleaseClaim, Settle, Clean, ClaimThrows, ReadThrows, WorkerDies, rowVars,
       ClaimOutboundSend, ReleaseOutboundSendClaim, SetDeliveryState
  <2>2. status'[e] = "none" <=> status[e] = "none"
    BY <1>1 DEF Consume, Claim, ReadPayload, SendAccepted, SendThrows, Record, MarkAccepted,
       ReleaseClaim, Settle, Clean, ClaimThrows, ReadThrows, WorkerDies, rowVars,
       ClaimOutboundSend, ReleaseOutboundSendClaim, SetDeliveryState, TypeOK, RowTypes
  <2>3. slips'[e] = 0 => slips[e] = 0
    BY <1>1 DEF Consume, Claim, ReadPayload, SendAccepted, SendThrows, Record, MarkAccepted,
       ReleaseClaim, Settle, Clean, ClaimThrows, ReadThrows, WorkerDies, ghosts, Slip, TypeOK, GhostTypes
  <2>4. ~Unsent(e)'
    BY <1>5, <2>1, <2>3 DEF Unsent
  <2> QED BY <1>1, <2>1, <2>2, <2>4 DEF RowInv, ProducerInv
<1> HIDE DEF Moves, Leaves
<1>11. CASE Claim(w)
  <2>0. /\ worker[w].pc = "claim" /\ ClaimOutboundSend(e, w)
        /\ UNCHANGED <<status, payload, request, sweep, copies, slips>>
    BY <1>11 DEF Claim, ClaimOutboundSend, ghosts
  <2>1. CASE Decision(e) = "in_flight"
    <3>1. claim'[e] = claim[e] /\ Leaves
      BY <1>1, <1>3, <1>11, <2>0, <2>1, ClaimFacts DEF Claim, TypeOK
    <3>2. HolderInv(e)'
      BY <1>1, <1>5, <2>0, <3>1 DEF Leaves, RowInv, HolderInv, Holds, SweepHolds, MailOf, Holding
    <3>3. CopyInv(e)'
      BY <1>1, <1>5, <2>0, <3>1 DEF Leaves, RowInv, CopyInv, Unrecorded, MailOf
    <3> QED BY <1>6, <3>2, <3>3 DEF RowInv
  <2>2. CASE Decision(e) = "claimed"
    <3>1. claim'[e] = w /\ claim[e] = NoOne /\ status[e] = "queued" /\ Moves("read")
      <4>1. Goto(w, "read")
        BY <1>11, <2>2 DEF Claim
      <4> QED BY <1>1, <1>2, <2>0, <2>2, <4>1, ClaimFacts
              DEF TypeOK, Decision, WorkerPcs, Holding
    <3>2. \A v \in Workers : slips[e] = 0 => ~Holds(v, e) /\ ~SweepHolds(e)
      <4>1. claim[e] # Sweeper /\ \A v \in Workers : claim[e] # v
        BY <3>1, Parties
      <4>2. HolderInv(e)
        BY <1>1 DEF RowInv
      <4> QED BY <3>1, <4>1, <4>2 DEF HolderInv
    <3>3. HolderInv(e)'
      BY <1>1, <1>5, <2>0, <3>1, <3>2
         DEF Moves, RowInv, HolderInv, Holds, SweepHolds, MailOf, Holding
    <3>4. CopyInv(e)'
      <4>1. slips[e] = 0 => \A v \in Workers : ~Unrecorded(v, e)
        BY <3>2 DEF Holds, Unrecorded, Holding
      <4>2. copies[e] \in Nat
        BY <1>1 DEF TypeOK, GhostTypes
      <4> QED BY <1>1, <1>5, <2>0, <3>1, <4>1, <4>2
              DEF Moves, RowInv, CopyInv, Unrecorded, MailOf
    <3> QED BY <1>6, <3>3, <3>4 DEF RowInv
  <2>3. CASE Decision(e) = "not_queued"
    <3>1. status[e] # "queued" /\ Moves("clean")
      <4>1. Goto(w, "clean")
        BY <1>11, <2>3 DEF Claim
      <4> QED BY <1>1, <1>2, <2>3, <4>1 DEF Decision, WorkerPcs, Holding
    <3>2. HolderInv(e)'
      BY <1>1, <1>5, <2>0, <3>1
         DEF Moves, RowInv, HolderInv, Holds, SweepHolds, MailOf, Holding
    <3>3. CopyInv(e)'
      BY <1>1, <1>5, <2>0, <3>1 DEF Moves, RowInv, CopyInv, Unrecorded, MailOf
    <3> QED BY <1>6, <3>2, <3>3 DEF RowInv
  <2> QED BY <2>1, <2>2, <2>3 DEF Decision
<1>12. CASE ClaimThrows(w)
  <2>0. /\ worker[w].pc = "claim" /\ Leaves
        /\ UNCHANGED <<status, payload, request, sweep, copies, slips>>
        /\ ClaimOutboundSend(e, w) \/ UNCHANGED claim
    BY <1>3, <1>12 DEF ClaimThrows, ClaimOutboundSend, ghosts, rowVars
  <2>1. status[e] = "queued" /\ claim[e] # NoOne => claim'[e] = claim[e]
    BY <1>1, <2>0, ClaimFacts DEF Decision, TypeOK
  <2>2. HolderInv(e)'
    BY <1>1, <1>5, <2>0, <2>1, Parties
       DEF Leaves, RowInv, HolderInv, Holds, SweepHolds, MailOf, Holding
  <2>3. CopyInv(e)'
    BY <1>1, <1>5, <2>0 DEF Leaves, RowInv, CopyInv, Unrecorded, MailOf
  <2> QED BY <1>6, <2>2, <2>3 DEF RowInv
<1>13. CASE ReadPayload(w)
  <2>2. HolderInv(e)'
    BY <1>1, <1>2, <1>5, <1>13
       DEF ReadPayload, Moves, WorkerPcs, Holding, rowVars, RowInv, HolderInv, Holds,
           SweepHolds, MailOf, TypeOK, RowTypes, GhostTypes, ghosts, queues
  <2>3. CopyInv(e)'
    BY <1>1, <1>2, <1>5, <1>13
       DEF ReadPayload, Moves, WorkerPcs, Holding, rowVars, RowInv, HolderInv, Holds,
           SweepHolds, CopyInv, Unrecorded, MailOf, TypeOK, RowTypes, StoreTypes,
           GhostTypes, ghosts, queues
  <2> QED BY <1>6, <2>2, <2>3 DEF RowInv
<1>14. CASE ReadThrows(w)
  <2>2. HolderInv(e)'
    BY <1>1, <1>2, <1>5, <1>14
       DEF ReadThrows, Moves, Slip, WorkerPcs, Holding, rowVars, RowInv, HolderInv,
           Holds, SweepHolds, MailOf, TypeOK, RowTypes, GhostTypes, queues
  <2>3. CopyInv(e)'
    BY <1>1, <1>2, <1>5, <1>14
       DEF ReadThrows, Moves, Slip, WorkerPcs, Holding, rowVars, RowInv, HolderInv,
           Holds, SweepHolds, CopyInv, Unrecorded, MailOf, TypeOK, RowTypes, StoreTypes,
           GhostTypes, queues
  <2> QED BY <1>6, <2>2, <2>3 DEF RowInv
<1>15. CASE SendAccepted(w)
  <2>2. HolderInv(e)'
    BY <1>1, <1>2, <1>5, <1>15
       DEF SendAccepted, Moves, WorkerPcs, Holding, rowVars, RowInv, HolderInv, Holds,
           SweepHolds, MailOf, TypeOK, RowTypes, GhostTypes, queues
  <2>3. CopyInv(e)'
    BY <1>1, <1>2, <1>5, <1>15
       DEF SendAccepted, Moves, WorkerPcs, Holding, rowVars, RowInv, HolderInv, Holds,
           SweepHolds, CopyInv, Unrecorded, MailOf, TypeOK, RowTypes, StoreTypes,
           GhostTypes, queues
  <2> QED BY <1>6, <2>2, <2>3 DEF RowInv
<1>16. CASE SendThrows(w)
  <2>2. HolderInv(e)'
    BY <1>1, <1>2, <1>5, <1>16
       DEF SendThrows, Moves, Slip, WorkerPcs, Holding, rowVars, RowInv, HolderInv,
           Holds, SweepHolds, MailOf, TypeOK, RowTypes, GhostTypes, queues, ghosts
  <2>3. CopyInv(e)'
    BY <1>1, <1>2, <1>5, <1>16
       DEF SendThrows, Moves, Slip, WorkerPcs, Holding, rowVars, RowInv, HolderInv,
           Holds, SweepHolds, CopyInv, Unrecorded, MailOf, TypeOK, RowTypes, StoreTypes,
           GhostTypes, queues, ghosts
  <2> QED BY <1>6, <2>2, <2>3 DEF RowInv
<1>17. CASE Record(w)
  <2>2. HolderInv(e)'
    BY <1>1, <1>2, <1>5, <1>17
       DEF Record, SetDeliveryState, Moves, WorkerPcs, Holding, rowVars, RowInv,
           HolderInv, Holds, SweepHolds, MailOf, TypeOK, RowTypes, GhostTypes, queues,
           ghosts
  <2>3. CopyInv(e)'
    BY <1>1, <1>2, <1>5, <1>17
       DEF Record, SetDeliveryState, Moves, WorkerPcs, Holding, rowVars, RowInv,
           HolderInv, Holds, SweepHolds, CopyInv, Unrecorded, MailOf, TypeOK, RowTypes,
           StoreTypes, GhostTypes, queues, ghosts
  <2> QED BY <1>6, <2>2, <2>3 DEF RowInv
<1>18. CASE MarkAccepted(w)
  <2>2. HolderInv(e)'
    BY <1>1, <1>2, <1>3, <1>5, <1>18
       DEF MarkAccepted, Slip, Moves, Leaves, WorkerPcs, Holding, rowVars, RowInv,
           HolderInv, Holds, SweepHolds, MailOf, TypeOK, RowTypes, GhostTypes, queues
  <2>3. CopyInv(e)'
    BY <1>1, <1>2, <1>3, <1>5, <1>18
       DEF MarkAccepted, Slip, Moves, Leaves, WorkerPcs, Holding, rowVars, RowInv,
           HolderInv, Holds, SweepHolds, CopyInv, Unrecorded, MailOf, TypeOK, RowTypes,
           StoreTypes, GhostTypes, queues
  <2> QED BY <1>6, <2>2, <2>3 DEF RowInv
<1>19. CASE ReleaseClaim(w)
  <2>2. HolderInv(e)'
    BY <1>1, <1>3, <1>5, <1>19
       DEF ReleaseClaim, ReleaseOutboundSendClaim, Leaves, Holding, rowVars, RowInv,
           HolderInv, Holds, SweepHolds, MailOf, TypeOK, RowTypes, GhostTypes, ghosts
  <2>3. CopyInv(e)'
    BY <1>1, <1>3, <1>5, <1>19
       DEF ReleaseClaim, ReleaseOutboundSendClaim, Leaves, Holding, rowVars, RowInv,
           HolderInv, Holds, SweepHolds, CopyInv, Unrecorded, MailOf, TypeOK, RowTypes,
           StoreTypes, GhostTypes, ghosts
  <2> QED BY <1>6, <2>2, <2>3 DEF RowInv
<1>20. CASE Settle(w)
  <2>2. HolderInv(e)'
    BY <1>1, <1>2, <1>3, <1>5, <1>20
       DEF Settle, SetDeliveryState, Moves, Leaves, WorkerPcs, Holding, rowVars, RowInv,
           HolderInv, Holds, SweepHolds, MailOf, TypeOK, RowTypes, GhostTypes, queues,
           ghosts
  <2>3. CopyInv(e)'
    BY <1>1, <1>2, <1>3, <1>5, <1>20
       DEF Settle, SetDeliveryState, Moves, Leaves, WorkerPcs, Holding, rowVars, RowInv,
           HolderInv, Holds, SweepHolds, CopyInv, Unrecorded, MailOf, TypeOK, RowTypes,
           StoreTypes, GhostTypes, queues, ghosts
  <2> QED BY <1>6, <2>2, <2>3 DEF RowInv
<1>21. CASE Clean(w)
  <2>2. HolderInv(e)'
    BY <1>1, <1>3, <1>5, <1>21
       DEF Clean, DeletePayload, Leaves, Holding, rowVars, RowInv, HolderInv, Holds,
           SweepHolds, MailOf, TypeOK, RowTypes, GhostTypes, ghosts
  <2>3. CopyInv(e)'
    BY <1>1, <1>3, <1>5, <1>21
       DEF Clean, DeletePayload, Leaves, Holding, rowVars, RowInv, HolderInv, Holds,
           SweepHolds, CopyInv, Unrecorded, MailOf, TypeOK, RowTypes, StoreTypes,
           GhostTypes, ghosts
  <2> QED BY <1>6, <2>2, <2>3 DEF RowInv
<1>22. CASE WorkerDies(w)
  <2>2. HolderInv(e)'
    BY <1>1, <1>3, <1>5, <1>22
       DEF WorkerDies, Slip, Leaves, Holding, rowVars, RowInv, HolderInv, Holds,
           SweepHolds, MailOf, TypeOK, RowTypes, GhostTypes
  <2>3. CopyInv(e)'
    BY <1>1, <1>3, <1>5, <1>22
       DEF WorkerDies, Slip, Leaves, Holding, rowVars, RowInv, HolderInv, Holds,
           SweepHolds, CopyInv, Unrecorded, MailOf, TypeOK, RowTypes, StoreTypes,
           GhostTypes
  <2> QED BY <1>6, <2>2, <2>3 DEF RowInv
<1> QED BY <1>11, <1>12, <1>13, <1>14, <1>15, <1>16, <1>17, <1>18, <1>19, <1>20, <1>21, <1>22 DEF Consume

\* Every step of the sweeper, on any row.
LEMMA SweepRows ==
  ASSUME IndInv, NEW d \in Mails, Sweep \/ AlarmFires \/ Wake
  PROVE  RowInv(d)'
<1>1. TypeOK /\ RowInv(d) /\ SnapshotInv
  BY DEF IndInv
<1>2. SweepTypes /\ RowTypes
  BY <1>1 DEF TypeOK
<1> NoOne # d /\ NoRow.mail = NoOne
  BY Parties DEF NoRow
<1>3. CASE AlarmFires
  <2>1. /\ sweep'.pc = "next" /\ sweep'.row = NoRow
        /\ sweep'.todo = {[mail |-> e, at |-> queuedAt[e], tries |-> reenqueues[e]] : e \in Queued}
    BY <1>3 DEF AlarmFires, IdleSweep
  <2>2. \A r \in sweep'.todo : r.mail = d => status[d] = "queued" /\ r.at = queuedAt[d]
    BY <2>1 DEF Queued
  <2>3. ProducerInv(d)'
    BY <1>1, <1>3, <2>1, <2>2 DEF AlarmFires, RowInv, ProducerInv, Unsent, MailOf, rowVars,
       queues, ghosts
  <2>4. HolderInv(d)'
    BY <1>1, <1>3, <2>1 DEF AlarmFires, RowInv, HolderInv, Holds, SweepHolds, MailOf, rowVars, ghosts
  <2>5. CopyInv(d)'
    BY <1>1, <1>3, <2>1 DEF AlarmFires, RowInv, CopyInv, Unrecorded, MailOf, rowVars, ghosts
  <2> QED BY <2>3, <2>4, <2>5 DEF RowInv
<1>4. CASE SweepEnds \/ Wake
  <2>1. /\ sweep' = sweep \/ sweep' = IdleSweep
        /\ UNCHANGED <<rowVars, payload, queues, request, worker, copies, slips>>
    BY <1>4 DEF SweepEnds, Wake, ghosts
  <2>2. CASE sweep' = sweep
    BY <1>1, <2>1, <2>2, Frame DEF Untouched, rowVars, queues
  <2>3. CASE sweep' = IdleSweep
    <3>1. sweep'.pc = "idle" /\ sweep'.row.mail # d /\ sweep'.todo = {}
      BY <2>3, IdleSweepFacts
    <3>2. ProducerInv(d)'
      BY <1>1, <2>1, <3>1 DEF RowInv, ProducerInv, Unsent, MailOf, rowVars, queues
    <3>3. HolderInv(d)'
      BY <1>1, <2>1, <3>1 DEF RowInv, HolderInv, Holds, SweepHolds, MailOf, rowVars
    <3>4. CopyInv(d)'
      BY <1>1, <2>1, <3>1 DEF RowInv, CopyInv, Unrecorded, MailOf, rowVars
    <3> QED BY <3>2, <3>3, <3>4 DEF RowInv
  <2> QED BY <2>1, <2>2, <2>3
<1>5. CASE SweepRow
  <2>0. sweep.pc = "next" /\ sweep.row = NoRow
        /\ UNCHANGED <<payload, queues, request, worker, copies, slips>>
    BY <1>2, <1>5, SweepFacts DEF SweepRow, ghosts
  <2>1. PICK r \in sweep.todo : SweepStamp(r) \/ SweepWait(r) \/ SweepReenqueue(r) \/ SweepGiveUp(r)
    BY <1>5 DEF SweepRow
  <2>2. r.mail \in Mails
    BY <1>2, SweepFacts
  <2>3. /\ sweep'.todo = sweep.todo \ {r}
        /\ \/ sweep'.pc = "next" /\ sweep'.row = NoRow
           \/ sweep'.pc \in {"send", "read"} /\ sweep'.row = r
    BY <1>2, <2>0, <2>1 DEF SweepStamp, SweepWait, SweepReenqueue, SweepGiveUp, NextAgain, NextRow,
       SweepTypes
  <2>4. CASE r.mail # d
    <3>1. status'[d] = status[d] /\ queuedAt'[d] = queuedAt[d] /\ claim'[d] = claim[d]
      BY <1>2, <2>1, <2>2, <2>4, ClaimFacts DEF SweepStamp, SweepWait, SweepReenqueue, SweepGiveUp,
         MarkQueued, RowTypes, rowVars
    <3>2. Untouched(d)
      BY <2>0, <2>3, <2>4, <3>1 DEF Untouched, queues
    <3> QED BY <1>1, <3>2, Frame
  <2>5. CASE r.mail = d
    <3>1. \A s \in sweep'.todo : s.mail # d
      BY <1>1, <2>3, <2>5 DEF SnapshotInv
    <3>2. /\ status' = status
          /\ queuedAt'[d] = queuedAt[d] \/ queuedAt'[d] = "fresh"
          /\ sweep'.row = r => r.at = "due"
          /\ claim'[d] = claim[d] \/ sweep'.pc = "read" \/ status[d] # "queued"
      <4> USE <1>2, <2>0, <2>2, <2>3, <2>5
      <4> USE DEF NextAgain, NextRow, SweepTypes, Due
      <4>1. CASE SweepStamp(r)  BY <4>1 DEF SweepStamp, MarkQueued, RowTypes, rowVars
      <4>2. CASE SweepWait(r)  BY <4>2 DEF SweepWait, rowVars
      <4>3. CASE SweepReenqueue(r)  BY <4>3 DEF SweepReenqueue, RowTypes, rowVars
      <4>4. CASE SweepGiveUp(r)
        BY <4>4, ClaimFacts DEF SweepGiveUp, Decision, RowTypes, rowVars
      <4> QED BY <2>1, <4>1, <4>2, <4>3, <4>4
    <3>3. sweep'.pc = "read" => /\ status[d] = "queued" /\ claim[d] = NoOne
                                /\ claim'[d] = Sweeper
      <4>1. sweep'.pc = "read" => SweepGiveUp(r) /\ Decision(d) = "claimed"
        BY <1>2, <2>0, <2>1, <2>5 DEF SweepStamp, SweepWait, SweepReenqueue, SweepGiveUp,
           NextAgain, NextRow, SweepTypes
      <4> QED BY <1>2, <2>2, <2>5, <4>1, ClaimFacts DEF SweepGiveUp, Decision
    <3>4. ProducerInv(d)'
      BY <1>1, <2>0, <2>3, <2>5, <3>1, <3>2 DEF RowInv, ProducerInv, Unsent, MailOf, queues
    <3>5. HolderInv(d)'
      <4>1. HolderInv(d)
        BY <1>1 DEF RowInv
      <4>2. CASE sweep'.pc = "read"
        <5>1. claim[d] # Sweeper /\ \A v \in Workers : claim[d] # v
          BY <3>3, <4>2, Parties
        <5>2. slips[d] = 0 => \A v \in Workers : ~Holds(v, d)
          BY <3>3, <4>1, <4>2, <5>1 DEF HolderInv
        <5> QED BY <2>0, <2>3, <2>5, <3>2, <3>3, <4>1, <4>2, <5>2
                DEF HolderInv, Holds, SweepHolds, MailOf
      <4>3. CASE sweep'.pc # "read"
        BY <2>0, <2>3, <2>5, <3>2, <4>1, <4>3 DEF HolderInv, Holds, SweepHolds, MailOf
      <4> QED BY <4>2, <4>3
    <3>6. CopyInv(d)'
      BY <1>1, <2>0, <2>3, <3>2 DEF RowInv, CopyInv, Unrecorded, MailOf
    <3> QED BY <3>4, <3>5, <3>6 DEF RowInv
  <2> QED BY <2>4, <2>5
<1>6. ASSUME sweep.pc \in {"send", "read", "settle", "clean"}, sweep.row.mail # d,
             Sweep, sweep'.row \in {sweep.row, NoRow}, sweep'.todo = sweep.todo
      PROVE  RowInv(d)'
  <2>1. sweep.row.mail \in Mails
    BY <1>2, <1>6, SweepFacts
  <2>2. status'[d] = status[d] /\ queuedAt'[d] = queuedAt[d] /\ claim'[d] = claim[d]
    BY <1>2, <1>6, <2>1, SetStateFacts, ReleaseFacts
       DEF Sweep, SweepRow, SweepSend, SweepRead, SweepSettle, SweepClean, SweepEnds, rowVars
  <2>3. payload'[d] = payload[d] /\ copies'[d] = copies[d] /\ slips'[d] = slips[d]
    BY <1>1, <1>6, <2>1 DEF Sweep, SweepRow, SweepSend, SweepRead, SweepSettle, SweepClean,
       SweepEnds, DeletePayload, Slip, TypeOK, StoreTypes, GhostTypes, ghosts
  <2>4. UNCHANGED <<worker, request, deadLetters>>
    BY <1>6 DEF Sweep, SweepRow, SweepSend, SweepRead, SweepSettle, SweepClean, SweepEnds, queues
  <2>5. \A m \in sendQueue' : m.mail = d => m \in sendQueue
    BY <1>6 DEF Sweep, SweepRow, SweepSend, SweepRead, SweepSettle, SweepClean, SweepEnds, queues,
       NewMessage
  <2>6. Untouched(d)
    BY <1>6, <2>2, <2>3, <2>4, <2>5 DEF Untouched
  <2> QED BY <1>1, <2>6, Frame
<1>7. CASE SweepSend
  <2>1. sweep'.todo = sweep.todo /\ sweep'.row = NoRow /\ sweep'.pc = "next"
    BY <1>2, <1>7 DEF SweepSend, Resume, SweepTypes
  <2>2. CASE sweep.row.mail = d
    <3>1. ProducerInv(d)'
      BY <1>1, <1>7, <2>1, <2>2 DEF SweepSend, RowInv, ProducerInv, Unsent, MailOf, rowVars, ghosts
    <3>2. HolderInv(d)'
      BY <1>1, <1>7, <2>1 DEF SweepSend, RowInv, HolderInv, Holds, SweepHolds, MailOf, rowVars, ghosts
    <3>3. CopyInv(d)'
      BY <1>1, <1>7, <2>1 DEF SweepSend, RowInv, CopyInv, Unrecorded, MailOf, rowVars, ghosts
    <3> QED BY <3>1, <3>2, <3>3 DEF RowInv
  <2> QED BY <1>6, <1>7, <2>1, <2>2 DEF SweepSend, Sweep
<1>8. CASE SweepRead
  <2>1. /\ sweep'.todo = sweep.todo /\ sweep'.row = sweep.row /\ sweep'.pc = "settle"
        /\ sweep.pc = "read"
    BY <1>2, <1>8 DEF SweepRead, SweepTypes
  <2>2. CASE sweep.row.mail = d
    <3>1. ProducerInv(d)'
      BY <1>1, <1>8, <2>1, <2>2 DEF SweepRead, RowInv, ProducerInv, Unsent, MailOf, rowVars, queues,
         Slip, TypeOK, GhostTypes
    <3>2. HolderInv(d)'
      BY <1>1, <1>8, <2>1, <2>2 DEF SweepRead, RowInv, HolderInv, Holds, SweepHolds, MailOf,
         rowVars, Slip, TypeOK, GhostTypes
    <3>3. CopyInv(d)'
      <4>1. copies[d] \in Nat /\ slips \in [Mails -> Nat] /\ sweep.accepted = FALSE
        BY <1>1, <2>1 DEF TypeOK, GhostTypes, SweepTypes
      <4>2. CopyInv(d) /\ (slips[d] = 0 => \A w \in Workers : ~Unrecorded(w, d))
        BY <1>1, <2>1, <2>2 DEF RowInv, HolderInv, Holds, SweepHolds, Holding, Unrecorded, MailOf
      <4>3. slips'[d] = 0 => slips[d] = 0
        BY <1>8, <2>2, <4>1 DEF SweepRead, Slip
      <4>4. slips'[d] = 0 => (sweep'.accepted <=> payload[d] = "accepted")
        <5> DEFINE marked == payload[d] = "accepted"
        <5>1. \/ sweep' = [sweep EXCEPT !.pc = "settle", !.accepted = marked]
              \/ sweep' = [sweep EXCEPT !.pc = "settle"] /\ (marked => slips'[d] # 0)
          BY <1>8, <2>2, <4>1 DEF SweepRead, Slip
        <5>2. marked \in BOOLEAN
          OBVIOUS
        <5> HIDE DEF marked
        <5>3. slips'[d] = 0 => (sweep'.accepted <=> marked)
          BY <1>2, <4>1, <5>1, <5>2 DEF SweepTypes
        <5> QED BY <5>3 DEF marked
      <4>5. UNCHANGED <<status, payload, worker, copies>>
        BY <1>8 DEF SweepRead, rowVars
      <4> QED BY <2>1, <4>1, <4>2, <4>3, <4>4, <4>5 DEF CopyInv, Unrecorded, MailOf
    <3> QED BY <3>1, <3>2, <3>3 DEF RowInv
  <2> QED BY <1>6, <1>8, <2>1, <2>2 DEF Sweep
<1>9. CASE SweepSettle
  <2>1. /\ sweep'.todo = sweep.todo /\ sweep.pc = "settle"
        /\ \/ sweep'.pc = "clean" /\ sweep'.row = sweep.row
           \/ sweep'.pc = "next" /\ sweep'.row = NoRow
    BY <1>2, <1>9 DEF SweepSettle, SweepTypes
  <2>2. CASE sweep.row.mail = d
    <3>1. ProducerInv(d)'
      BY <1>1, <1>9, <2>1, <2>2 DEF SweepSettle, SetDeliveryState, ReleaseOutboundSendClaim, RowInv,
         ProducerInv, Unsent, MailOf, queues, ghosts, TypeOK, RowTypes
    <3>2. HolderInv(d)'
      <4>1. HolderInv(d) /\ (slips[d] = 0 => \A w \in Workers : ~Holds(w, d))
        BY <1>1, <2>1, <2>2 DEF RowInv, HolderInv, SweepHolds
      <4>2. /\ status'[d] = "queued" => status[d] = "queued" /\ sweep'.pc = "next"
            /\ UNCHANGED <<worker, slips>>
        <5> DEFINE outcome == IF sweep.accepted THEN "accepted" ELSE "failed"
        <5>1. /\ UNCHANGED <<worker, slips>>
              /\ \/ SetDeliveryState(d, outcome)
                 \/ ReleaseOutboundSendClaim(d) /\ sweep' = [sweep EXCEPT !.pc = "next",
                              !.row = NoRow, !.accepted = FALSE, !.again = TRUE]
          BY <1>9, <2>2 DEF SweepSettle, ghosts
        <5>2. CASE SetDeliveryState(d, outcome)
          <6>1. outcome \in {"accepted", "failed"}
            OBVIOUS
          <6> HIDE DEF outcome
          <6> QED BY <1>2, <5>1, <5>2, <6>1, SetStateFacts
        <5>3. CASE ReleaseOutboundSendClaim(d) /\ sweep' = [sweep EXCEPT !.pc = "next",
                              !.row = NoRow, !.accepted = FALSE, !.again = TRUE]
          BY <1>2, <5>1, <5>3, ReleaseFacts DEF SweepTypes
        <5> QED BY <5>1, <5>2, <5>3
      <4> QED BY <2>1, <4>1, <4>2 DEF HolderInv, Holds, SweepHolds, MailOf
    <3>3. CopyInv(d)'
      BY <1>1, <1>9, <2>1, <2>2 DEF SweepSettle, SetDeliveryState, ReleaseOutboundSendClaim, RowInv,
         HolderInv, Holds, SweepHolds, CopyInv, Unrecorded, MailOf, ghosts, TypeOK, RowTypes,
         GhostTypes, Holding
    <3> QED BY <3>1, <3>2, <3>3 DEF RowInv
  <2> QED BY <1>6, <1>9, <2>1, <2>2 DEF Sweep
<1>10. CASE SweepClean
  <2>1. /\ sweep'.todo = sweep.todo /\ sweep'.row = NoRow /\ sweep'.pc = "next"
        /\ sweep.pc = "clean"
    BY <1>2, <1>10 DEF SweepClean, Resume, SweepTypes
  <2>2. CASE sweep.row.mail = d
    <3>1. ProducerInv(d)'
      BY <1>1, <1>10, <2>1 DEF SweepClean, RowInv, ProducerInv, Unsent, MailOf, rowVars, queues, ghosts
    <3>2. HolderInv(d)'
      BY <1>1, <1>10, <2>1 DEF SweepClean, RowInv, HolderInv, Holds, SweepHolds, MailOf, rowVars, ghosts
    <3>3. CopyInv(d)'
      BY <1>1, <1>10, <2>1, <2>2 DEF SweepClean, DeletePayload, RowInv, HolderInv, CopyInv,
         Unrecorded, MailOf, rowVars, ghosts, TypeOK, StoreTypes
    <3> QED BY <3>1, <3>2, <3>3 DEF RowInv
  <2> QED BY <1>6, <1>10, <2>1, <2>2 DEF Sweep
<1> QED BY <1>3, <1>4, <1>5, <1>7, <1>8, <1>9, <1>10 DEF Sweep

\* Steps of a request, the user and time leave the other rows alone.
LEMMA MailStepElsewhere ==
  ASSUME TypeOK, NEW e \in Mails, MailStep(e), NEW d \in Mails \ {e}
  PROVE  Untouched(d)
<1>1. /\ status'[d] = status[d] /\ queuedAt'[d] = queuedAt[d] /\ claim'[d] = claim[d]
      /\ payload'[d] = payload[d] /\ request'[d] = request[d]
  BY DEF MailStep, Produce, StoreRow, Stage, Enqueue, NoteQueued, RecordEnqueueFailure,
     Unstage, RequestDies, DeleteRow, ThresholdPasses, LeaseExpires, LeaseOverrun, At,
     SetDeliveryState, ReleaseOutboundSendClaim, MarkQueued, DeletePayload, rowVars,
     TypeOK, RowTypes, StoreTypes
<1>2. /\ UNCHANGED <<copies, worker, sweep, deadLetters>> /\ slips'[d] = slips[d]
      /\ \A m \in sendQueue' : m.mail = d => m \in sendQueue
  BY DEF MailStep, Produce, StoreRow, Stage, Enqueue, NoteQueued, RecordEnqueueFailure,
     Unstage, RequestDies, DeleteRow, ThresholdPasses, LeaseExpires, LeaseOverrun, NewMessage,
     Slip, queues, ghosts, TypeOK, GhostTypes
<1> QED BY <1>1, <1>2 DEF Untouched

LEMMA MailStepRows ==
  ASSUME IndInv, NEW e \in Mails, MailStep(e), NEW d \in Mails
  PROVE  RowInv(d)'
<1>1. CASE d = e
  BY <1>1, MailStepOwnRow
<1>2. CASE d # e
  <2>1. TypeOK /\ RowInv(d)
    BY DEF IndInv
  <2> QED BY <1>2, <2>1, MailStepElsewhere, Frame
<1> QED BY <1>1, <1>2

\* A consumer's step leaves the rows alone its message is not about.
LEMMA DeliverElsewhere ==
  ASSUME TypeOK, NEW w \in Workers, NEW d \in Mails, NEW q \in {"send", "dlq"},
         NEW m \in sendQueue \cup deadLetters, worker[w].pc = "idle", Take(w, q, m), m.mail # d,
         \A n \in sendQueue' \cup deadLetters' : n \in sendQueue \cup deadLetters,
         UNCHANGED <<rowVars, payload, request, sweep, ghosts>>
  PROVE  Untouched(d)
<1>1. NoOne # d /\ IdleWorker.msg.mail = NoOne
  BY Parties DEF IdleWorker, NoMessage
<1>2. worker[w] = IdleWorker /\ m \in Message
  BY DEF TypeOK, WorkerTypes, Busy, QueueTypes
<1>3. /\ worker'[w] = [pc |-> "claim", queue |-> q, msg |-> m]
      /\ \A v \in Workers \ {w} : worker'[v] = worker[v]
  BY <1>2, TakeFacts DEF TypeOK
<1> QED BY <1>1, <1>2, <1>3 DEF Untouched, rowVars, ghosts

\* A delivery hands an idle consumer a message and leaves the rest alone.
LEMMA DeliverFacts ==
  ASSUME NEW w \in Workers, DeliverSend(w) \/ DeliverDeadLetter(w)
  PROVE  /\ \E q \in {"send", "dlq"}, m \in sendQueue \cup deadLetters : Take(w, q, m)
         /\ worker[w].pc = "idle"
         /\ \A n \in sendQueue' \cup deadLetters' : n \in sendQueue \cup deadLetters
         /\ UNCHANGED <<rowVars, payload, request, sweep, ghosts>>
BY DEF DeliverSend, DeliverDeadLetter

\* Every other step of a consumer is about the message it has in hand.
Works(w) == Consume(w) \/ ClaimThrows(w) \/ ReadThrows(w) \/ WorkerDies(w)

LEMMA WorkFacts ==
  ASSUME TypeOK, NEW w \in Workers, Works(w)
  PROVE  /\ worker[w].pc # "idle" /\ MailOf(w) \in Mails
         /\ \/ \E pc \in WorkerPcs \ {"idle"} : Goto(w, pc)
            \/ Ack(w) \/ Retry(w)
<1>1. worker[w].pc # "idle"
  BY DEF Works, Consume, Claim, ReadPayload, SendAccepted, SendThrows, Record, MarkAccepted,
     ReleaseClaim, Settle, Clean, ClaimThrows, ReadThrows, WorkerDies
<1>2. MailOf(w) \in Mails
  BY <1>1, BusyFacts DEF TypeOK
<1>3. \/ \E pc \in WorkerPcs \ {"idle"} : Goto(w, pc)
      \/ Ack(w) \/ Retry(w)
  BY DEF Works, Consume, Claim, ReadPayload, SendAccepted, SendThrows, Record, MarkAccepted,
     ReleaseClaim, Settle, Clean, ClaimThrows, ReadThrows, WorkerDies, WorkerPcs, Holding
<1> QED BY <1>1, <1>2, <1>3

LEMMA ConsumerElsewhere ==
  ASSUME TypeOK, NEW w \in Workers, Works(w), NEW d \in Mails, d # MailOf(w)
  PROVE  Untouched(d)
<1> DEFINE e == MailOf(w)
<1>1. NoOne # d /\ IdleWorker.msg.mail = NoOne
  BY Parties DEF IdleWorker, NoMessage
<1>2. /\ worker[w].pc # "idle" /\ e \in Mails
      /\ (\E pc \in WorkerPcs \ {"idle"} : Goto(w, pc)) \/ Ack(w) \/ Retry(w)
  BY WorkFacts
<1>3. /\ worker'[w].msg.mail # d /\ worker[w].msg.mail # d
      /\ \A v \in Workers \ {w} : worker'[v] = worker[v]
      /\ \A m \in sendQueue' \cup deadLetters' :
           m.mail = d => m \in sendQueue \cup deadLetters
  <2>1. CASE \E pc \in WorkerPcs \ {"idle"} : Goto(w, pc)
    BY <1>2, <2>1, GotoFacts DEF TypeOK, MailOf, queues
  <2>2. CASE Ack(w)
    BY <1>1, <1>2, <2>2, IdleFacts DEF Ack, TypeOK, MailOf, queues
  <2>3. CASE Retry(w)
    BY <1>1, <1>2, <2>3, IdleFacts, RedeliverFacts DEF Retry, TypeOK, MailOf
  <2> QED BY <1>2, <2>1, <2>2, <2>3
<1>4. status'[d] = status[d] /\ queuedAt'[d] = queuedAt[d] /\ claim'[d] = claim[d]
  BY <1>2, SetStateFacts, ClaimFacts, ReleaseFacts
     DEF Works, Consume, Claim, ReadPayload, SendAccepted, SendThrows, Record, MarkAccepted,
         ReleaseClaim, Settle, Clean, ClaimThrows, ReadThrows, WorkerDies, rowVars, TypeOK
<1>5. /\ payload'[d] = payload[d] /\ copies'[d] = copies[d] /\ slips'[d] = slips[d]
      /\ UNCHANGED <<request, sweep>>
  BY <1>2
     DEF Works, Consume, Claim, ReadPayload, SendAccepted, SendThrows, Record, MarkAccepted,
         ReleaseClaim, Settle, Clean, ClaimThrows, ReadThrows, WorkerDies, DeletePayload,
         Slip, ghosts, TypeOK, StoreTypes, GhostTypes
<1> QED BY <1>3, <1>4, <1>5 DEF Untouched

LEMMA WorkerStepRows ==
  ASSUME IndInv, NEW w \in Workers, WorkerStep(w), NEW d \in Mails
  PROVE  RowInv(d)'
<1>1. TypeOK /\ RowInv(d)
  BY DEF IndInv
<1>2. CASE DeliverSend(w) \/ DeliverDeadLetter(w)
  <2>1. PICK q \in {"send", "dlq"}, m \in sendQueue \cup deadLetters : Take(w, q, m)
    BY <1>2, DeliverFacts
  <2>2. CASE m.mail = d
    BY <1>2, <2>1, <2>2, DeliverFacts, DeliverOwnRow
  <2>3. CASE m.mail # d
    BY <1>1, <1>2, <2>1, <2>3, DeliverFacts, DeliverElsewhere, Frame
  <2> QED BY <2>2, <2>3
<1>3. CASE Works(w)
  <2>1. CASE d = MailOf(w)
    BY <1>3, <2>1, ConsumerOwnRow DEF Works
  <2>2. CASE d # MailOf(w)
    BY <1>1, <1>3, <2>2, ConsumerElsewhere, Frame
  <2> QED BY <2>1, <2>2
<1> QED BY <1>2, <1>3 DEF WorkerStep, Works

\* Only the sweeper touches its list and the counts it was made from.
LEMMA SnapshotKept ==
  ASSUME TypeOK, SnapshotInv, [Next]_vars
  PROVE  SnapshotInv'
<1>1. SweepTypes /\ RowTypes
  BY DEF TypeOK
<1>2. CASE UNCHANGED <<sweep, reenqueues>>
  BY <1>2 DEF SnapshotInv
<1>3. CASE AlarmFires
  <2>1. /\ sweep'.row.mail = NoOne /\ reenqueues' = reenqueues
        /\ sweep'.todo = {[mail |-> e, at |-> queuedAt[e], tries |-> reenqueues[e]] : e \in Queued}
    BY <1>3 DEF AlarmFires, IdleSweep, NoRow, rowVars
  <2> QED BY <2>1, Parties DEF SnapshotInv, Queued
<1>4. CASE SweepEnds \/ Wake
  BY <1>2, <1>4, IdleSweepFacts DEF SweepEnds, Wake, rowVars, SnapshotInv
<1>5. CASE SweepSend \/ SweepRead \/ SweepSettle \/ SweepClean
  <2>1. reenqueues' = reenqueues /\ sweep'.todo = sweep.todo /\ sweep'.row \in {sweep.row, NoRow}
    BY <1>1, <1>5 DEF SweepSend, SweepRead, SweepSettle, SweepClean, Resume, rowVars,
       SetDeliveryState, ReleaseOutboundSendClaim, SweepTypes
  <2>2. \A r \in sweep.todo : r.mail # NoRow.mail
    BY <1>1, SweepFacts, Parties DEF NoRow
  <2> QED BY <2>1, <2>2 DEF SnapshotInv
<1>6. CASE SweepRow
  <2>1. PICK r \in sweep.todo : SweepStamp(r) \/ SweepWait(r) \/ SweepReenqueue(r) \/ SweepGiveUp(r)
    BY <1>6 DEF SweepRow
  <2>2. /\ sweep'.todo = sweep.todo \ {r} /\ sweep'.row \in {NoRow, r}
        /\ \A d \in Mails \ {r.mail} : reenqueues'[d] = reenqueues[d]
    <3>1. sweep.row = NoRow
      BY <1>1, <1>6, SweepFacts DEF SweepRow
    <3> QED BY <1>1, <2>1, <3>1 DEF SweepStamp, SweepWait, SweepReenqueue, SweepGiveUp, NextAgain,
               NextRow, SweepTypes, MarkQueued, ClaimOutboundSend, RowTypes, rowVars
  <2>3. \A s \in sweep.todo : s.mail \in Mails /\ s.mail # NoRow.mail
    BY <1>1, SweepFacts, Parties DEF NoRow
  <2>4. \A s \in sweep.todo \ {r} : s.mail # r.mail
    BY DEF SnapshotInv
  <2> QED BY <2>2, <2>3, <2>4 DEF SnapshotInv
<1>7. CASE \E e \in Mails : MailStep(e)
  BY <1>2, <1>7 DEF MailStep, Produce, StoreRow, Stage, Enqueue, NoteQueued, RecordEnqueueFailure,
     Unstage, RequestDies, DeleteRow, ThresholdPasses, LeaseExpires, LeaseOverrun,
     SetDeliveryState, ReleaseOutboundSendClaim, MarkQueued, rowVars
<1>8. CASE \E w \in Workers : WorkerStep(w)
  BY <1>2, <1>8 DEF WorkerStep, DeliverSend, DeliverDeadLetter, Consume, Claim, ReadPayload,
     SendAccepted, SendThrows, Record, MarkAccepted, ReleaseClaim, Settle, Clean, ClaimThrows,
     ReadThrows, WorkerDies, SetDeliveryState, ClaimOutboundSend, ReleaseOutboundSendClaim, rowVars
<1>9. CASE LoseMessage
  BY <1>2, <1>9 DEF LoseMessage, rowVars
<1>10. CASE UNCHANGED vars
  BY <1>2, <1>10 DEF vars, rowVars
<1> QED BY <1>3, <1>4, <1>5, <1>6, <1>7, <1>8, <1>9, <1>10 DEF Next, Sweep

-----------------------------------------------------------------------------
\* IndInv holds initially and every step preserves it.
THEOREM Inductive == Spec => []IndInv
<1>1. Init => IndInv
  <2> SUFFICES ASSUME Init PROVE IndInv
    OBVIOUS
  <2>1. SnapshotInv
    BY DEF Init, IdleSweep, SnapshotInv
  <2> QED BY <2>1, InitTypeOK, InitRowInv DEF IndInv
<1>2. IndInv /\ [Next]_vars => IndInv'
  <2> SUFFICES ASSUME IndInv, [Next]_vars PROVE IndInv'
    OBVIOUS
  <2>1. TypeOK /\ SnapshotInv /\ \A d \in Mails : RowInv(d)
    BY DEF IndInv
  <2>2. TypeOK'
    BY <2>1, MailStepTypeOK, WorkerStepTypeOK, LoseMessageTypeOK, SweepStepTypeOK, StutterTypeOK
       DEF Next
  <2>3. SnapshotInv'
    BY <2>1, SnapshotKept
  <2>4. ASSUME NEW d \in Mails PROVE RowInv(d)'
    <3>1. CASE LoseMessage \/ UNCHANGED vars
      <4>1. Untouched(d)
        BY <3>1 DEF LoseMessage, vars, rowVars, queues, ghosts, Untouched
      <4> QED BY <2>1, <4>1, Frame
    <3> QED BY <3>1, MailStepRows, WorkerStepRows, SweepRows DEF Next
  <2> QED BY <2>2, <2>3, <2>4 DEF IndInv
<1> QED BY <1>1, <1>2, PTL DEF Spec

\* Types and bounds: the sweeper re-enqueues a row at most MaxReenqueues times.
THEOREM TypeCorrect == Spec => []TypeOK
<1>1. IndInv => TypeOK
  BY DEF IndInv
<1> QED BY <1>1, Inductive, PTL

\* A row that reads "failed" was not sent, unless a party lost track of a copy.
THEOREM FailedRowsUnsent == Spec => []FailedMeansUnsent
<1>1. IndInv => FailedMeansUnsent
  BY DEF IndInv, TypeOK, GhostTypes, RowInv, CopyInv, FailedMeansUnsent
<1> QED BY <1>1, Inductive, PTL

\* While the sweeper settles a row no consumer is working on it.
THEOREM SweeperIsAlone == Spec => []SweeperAlone
<1>1. IndInv => SweeperAlone
  BY DEF IndInv, RowInv, HolderInv, SweeperAlone
<1> QED BY <1>1, Inductive, PTL

-----------------------------------------------------------------------------
(* No payload is left behind.                                              *)

\* The invariant behind NoOrphanPayload: a settled row has no payload, or a party on
\* its way to deletePayload.
Cleaned(e) == \/ payload[e] = "none"
              \/ request[e] = "unstage"
              \/ \E w \in Workers : worker[w].pc = "clean" /\ MailOf(w) = e
              \/ sweep.pc = "clean" /\ sweep.row.mail = e
\* Only a fault that is not mild takes a consumer to the mark or shows one a payload
\* marked as accepted, and a consumer that found no payload will find none later.
CleanupInv(e) ==
  /\ request[e] \in {"stage", "enqueue"} => status[e] \in {"queued", "gone"}
  /\ faults.mild =>
       /\ payload[e] # "accepted"
       /\ \A w \in Workers : MailOf(w) = e =>
            /\ worker[w].pc \notin {"mark", "accept"}
            /\ worker[w].pc = "lost" => payload[e] = "none"
       /\ status[e] \in {"accepted", "failed"} => Cleaned(e)

LEMMA MildFacts ==
  /\ NoFault => faults'.mild = faults.mild
  /\ \A k : Fault(k) /\ faults'.mild => faults.mild /\ k \in Mild
<1>1. ASSUME NEW k, Fault(k), faults'.mild PROVE faults.mild /\ k \in Mild
  <2>1. faults' = [count |-> faults.count + 1, mild |-> faults.mild /\ k \in Mild]
    BY <1>1, Zenon DEF Fault
  <2>2. faults'.mild = (faults.mild /\ k \in Mild)
    BY <2>1, Zenon
  <2> QED BY <1>1, <2>2, Zenon
<1> QED BY <1>1 DEF NoFault

\* Faults that are not mild are never forgiven.
LEMMA MildShrinks ==
  ASSUME [Next]_vars
  PROVE  faults'.mild => faults.mild
<1>1. /\ NoFault => faults'.mild = faults.mild
      /\ \A k : Fault(k) /\ faults'.mild => faults.mild
  BY MildFacts
<1>2. CASE \E e \in Mails : MailStep(e)
  BY <1>1, <1>2 DEF MailStep, Produce, StoreRow, Stage, Enqueue, NoteQueued, Unstage,
     RecordEnqueueFailure, RequestDies, DeleteRow, ThresholdPasses, LeaseExpires, LeaseOverrun
<1>3. CASE \E w \in Workers : WorkerStep(w)
  BY <1>1, <1>3 DEF WorkerStep, DeliverSend, DeliverDeadLetter, Consume, Claim, ReadPayload,
     SendAccepted, SendThrows, Record, MarkAccepted, ReleaseClaim, Settle, Clean, ClaimThrows,
     ReadThrows, WorkerDies
<1>4. CASE LoseMessage \/ AlarmFires \/ Sweep \/ Wake \/ UNCHANGED vars
  BY <1>1, <1>4 DEF LoseMessage, AlarmFires, Sweep, SweepRow, SweepSend, SweepRead,
     SweepSettle, SweepClean, SweepEnds, Wake, vars
<1> QED BY <1>2, <1>3, <1>4 DEF Next

\* What a step that is not about row d leaves as it was.
StillAt(d) ==
  /\ status'[d] = status[d] /\ payload'[d] = payload[d] /\ request'[d] = request[d]
  /\ \A w \in Workers :
       worker'[w] = worker[w] \/ (worker[w].msg.mail # d /\ worker'[w].msg.mail # d)
  /\ \/ sweep'.pc = sweep.pc /\ sweep'.row = sweep.row
     \/ sweep.row.mail # d /\ sweep'.row.mail # d

LEMMA CleanupFrame ==
  ASSUME NEW d \in Mails, CleanupInv(d), StillAt(d), faults'.mild => faults.mild
  PROVE  CleanupInv(d)'
<1>1. Cleaned(d) => Cleaned(d)'
  BY DEF Cleaned, StillAt, MailOf
<1> QED BY <1>1 DEF CleanupInv, StillAt, MailOf

LEMMA UntouchedIsStill == \A d \in Mails : Untouched(d) => StillAt(d)
BY DEF Untouched, StillAt

LEMMA CleanupMailStep ==
  ASSUME IndInv, NEW e \in Mails, CleanupInv(e), MailStep(e)
  PROVE  CleanupInv(e)'
<1> ProducerInv(e) /\ TypeOK
  BY DEF IndInv, RowInv
<1> USE DEF TypeOK, RowTypes, StoreTypes, At, CleanupInv, Cleaned, MailOf, queues, rowVars
<1>0. /\ NoFault => faults'.mild = faults.mild
      /\ \A k : Fault(k) /\ faults'.mild => faults.mild /\ k \in Mild
      /\ {"rpc", "delete", "crash"} \cap Mild = {}
  BY MildFacts DEF Mild
<1>1. CASE StoreRow(e)
  BY <1>0, <1>1 DEF StoreRow
<1>2. CASE Stage(e)
  BY <1>0, <1>2 DEF Stage, ProducerInv, Unsent
<1>3. CASE Enqueue(e)
  BY <1>0, <1>3 DEF Enqueue
<1>4. CASE NoteQueued(e)
  BY <1>0, <1>4 DEF NoteQueued, MarkQueued
<1>5. CASE RecordEnqueueFailure(e)
  BY <1>0, <1>5 DEF RecordEnqueueFailure, SetDeliveryState
<1>6. CASE Unstage(e)
  BY <1>0, <1>6 DEF Unstage, DeletePayload
<1>7. CASE RequestDies(e)
  BY <1>0, <1>7 DEF RequestDies
<1>8. CASE DeleteRow(e)
  BY <1>0, <1>8 DEF DeleteRow
<1>9. CASE ThresholdPasses(e)
  BY <1>0, <1>9 DEF ThresholdPasses
<1>10. CASE LeaseExpires(e) \/ LeaseOverrun(e)
  BY <1>0, <1>10 DEF LeaseExpires, LeaseOverrun, ReleaseOutboundSendClaim
<1> QED BY <1>1, <1>2, <1>3, <1>4, <1>5, <1>6, <1>7, <1>8, <1>9, <1>10
        DEF MailStep, Produce

\* What a consumer's step does to the consumers.
Moves(w, pc) == /\ worker'[w].pc = pc /\ MailOf(w)' = MailOf(w)
                /\ \A v \in Workers \ {w} : worker'[v] = worker[v]
Leaves(w) == /\ worker'[w].pc = "idle" /\ MailOf(w)' \notin Mails
             /\ \A v \in Workers \ {w} : worker'[v] = worker[v]

LEMMA MoveFacts ==
  ASSUME TypeOK, NEW w \in Workers, worker[w].pc # "idle"
  PROVE  /\ \A pc \in WorkerPcs \ {"idle"} : Goto(w, pc) => Moves(w, pc)
         /\ Ack(w) \/ Retry(w) => Leaves(w)
<1>1. ASSUME NEW pc \in WorkerPcs \ {"idle"}, Goto(w, pc) PROVE Moves(w, pc)
  BY <1>1, GotoFacts DEF TypeOK, Moves, MailOf
<1>2. ASSUME Ack(w) \/ Retry(w) PROVE Leaves(w)
  <2>1. worker' = [worker EXCEPT ![w] = IdleWorker]
    BY <1>2 DEF Ack, Retry
  <2>2. worker'[w] = IdleWorker /\ \A v \in Workers \ {w} : worker'[v] = worker[v]
    BY <2>1, IdleFacts DEF TypeOK
  <2> QED BY <2>2, Parties DEF Leaves, MailOf, IdleWorker, NoMessage
<1> QED BY <1>1, <1>2

LEMMA CleanupWork ==
  ASSUME IndInv, NEW w \in Workers, Works(w), CleanupInv(MailOf(w))
  PROVE  \A e \in Mails : e = MailOf(w) => CleanupInv(e)'
<1> SUFFICES ASSUME NEW e \in Mails, e = MailOf(w) PROVE CleanupInv(e)'
  OBVIOUS
<1>1. TypeOK /\ ProducerInv(e)
  BY DEF IndInv, RowInv
<1>2. worker[w].pc # "idle"
  BY <1>1, WorkFacts
<1>3. /\ \A pc \in WorkerPcs \ {"idle"} : Goto(w, pc) => Moves(w, pc)
      /\ Ack(w) \/ Retry(w) => Leaves(w)
  BY <1>1, <1>2, MoveFacts
<1>4. /\ NoFault => faults'.mild = faults.mild
      /\ \A k : Fault(k) /\ faults'.mild => faults.mild /\ k \in Mild
      /\ {"rpc", "delete", "crash", "sendUnsure"} \cap Mild = {}
  BY MildFacts DEF Mild
<1>5. UNCHANGED request /\ request[e] \notin {"stage", "enqueue"} /\ UNCHANGED sweep
  BY <1>1 DEF ProducerInv, Unsent, Works, Consume, Claim, ReadPayload, SendAccepted,
     SendThrows, Record, MarkAccepted, ReleaseClaim, Settle, Clean, ClaimThrows, ReadThrows,
     WorkerDies
<1>12. CASE Settle(w)
  <2> SUFFICES ASSUME faults'.mild
               PROVE  /\ payload'[e] # "accepted"
                      /\ \A v \in Workers : MailOf(v)' = e =>
                           /\ worker'[v].pc \notin {"mark", "accept"}
                           /\ worker'[v].pc = "lost" => payload'[e] = "none"
                      /\ Cleaned(e)'
    BY <1>5 DEF CleanupInv
  <2>1. UNCHANGED payload  BY <1>12 DEF Settle
  <2>2. NoFault /\ (Goto(w, "clean") \/ (Ack(w) /\ worker[w].pc = "lost"))
    <3>1. ~Fault("rpc")  BY <1>4
    <3> QED BY <3>1, <1>12 DEF Settle
  <2>3. /\ payload[e] # "accepted"
        /\ \A v \in Workers : MailOf(v) = e =>
             /\ worker[v].pc \notin {"mark", "accept"}
             /\ worker[v].pc = "lost" => payload[e] = "none"
    BY <1>4, <2>2 DEF CleanupInv
  <2>4. CASE Goto(w, "clean")
    <3>1. Moves(w, "clean")  BY <1>3, <2>4 DEF WorkerPcs
    <3>2. \A v \in Workers \ {w} : MailOf(v)' = MailOf(v)  BY <3>1 DEF Moves, MailOf
    <3> QED BY <2>1, <2>3, <3>1, <3>2 DEF Moves, Cleaned
  <2>5. CASE Ack(w) /\ worker[w].pc = "lost"
    <3>1. Leaves(w) /\ payload[e] = "none"  BY <1>3, <2>3, <2>5
    <3>2. \A v \in Workers \ {w} : MailOf(v)' = MailOf(v)  BY <3>1 DEF Leaves, MailOf
    <3> QED BY <2>1, <2>3, <3>1, <3>2 DEF Leaves, Cleaned
  <2> QED BY <2>2, <2>4, <2>5
<1>0. CleanupInv(e)
  OBVIOUS
<1> USE <1>0 DEF CleanupInv, Cleaned, Moves, Leaves, WorkerPcs, Holding, rowVars, TypeOK,
                 RowTypes, StoreTypes, MailOf
<1>6. CASE Claim(w)
  <2>1. /\ UNCHANGED <<payload, status>> /\ worker[w].pc = "claim"
        /\ faults'.mild => faults.mild
    BY <1>4, <1>6 DEF Claim, ClaimOutboundSend
  <2>2. (\E pc \in {"read", "clean"} : Moves(w, pc)) \/ Leaves(w)
    BY <1>3, <1>6 DEF Claim
  <2> QED BY <1>5, <2>1, <2>2
<1>7. CASE ReadPayload(w)
  <2>1. /\ UNCHANGED <<payload, status>> /\ worker[w].pc = "read"
        /\ faults'.mild => faults.mild
    BY <1>4, <1>7 DEF ReadPayload
  <2>2. \E pc \in {"accept", "send", "lost", "fail"} :
          /\ Goto(w, pc) /\ Moves(w, pc)
          /\ pc = "accept" => payload[e] = "accepted"
          /\ pc = "lost" => payload[e] = "none"
    <3>1. \E pc \in {"accept", "send", "lost", "fail"} :
            /\ Goto(w, pc)
            /\ pc = "accept" => payload[e] = "accepted"
            /\ pc = "lost" => payload[e] = "none"
      BY <1>7 DEF ReadPayload
    <3> QED BY <1>3, <3>1
  <2> QED BY <1>5, <2>1, <2>2
<1>8. CASE SendAccepted(w) \/ SendThrows(w)
  <2>1. UNCHANGED <<payload, status>> /\ worker[w].pc = "send"
    BY <1>8 DEF SendAccepted, SendThrows
  <2>2. \E pc \in {"record", "fail", "release"} : Moves(w, pc)
    <3>1. \E pc \in {"record", "fail", "release"} : Goto(w, pc)
      BY <1>8 DEF SendAccepted, SendThrows
    <3> QED BY <1>3, <3>1
  <2>3. faults'.mild => faults.mild
    BY <1>4, <1>8 DEF SendAccepted, SendThrows
  <2> QED BY <1>5, <2>1, <2>2, <2>3
<1>9. CASE Record(w)
  <2>1. /\ UNCHANGED payload /\ worker[w].pc = "record"
        /\ faults'.mild => faults.mild /\ Goto(w, "clean")
        /\ Goto(w, "clean") \/ Goto(w, "mark")
    BY <1>4, <1>9 DEF Record
  <2>2. CASE Goto(w, "clean")
    <3>1. Moves(w, "clean")  BY <1>3, <2>2
    <3> QED BY <1>5, <2>1, <3>1
  <2>3. CASE ~Goto(w, "clean")
    BY <1>5, <2>1, <2>3
  <2> QED BY <2>2, <2>3
<1>10. CASE MarkAccepted(w)
  BY <1>1, <1>3, <1>4, <1>5, <1>10 DEF MarkAccepted
<1>11. CASE ReleaseClaim(w)
  <2>1. /\ UNCHANGED <<payload, status>> /\ worker[w].pc = "release" /\ Leaves(w)
        /\ faults'.mild => faults.mild
    BY <1>3, <1>4, <1>11 DEF ReleaseClaim, ReleaseOutboundSendClaim
  <2> QED BY <1>5, <2>1
<1>13. CASE Clean(w)
  <2>1. /\ UNCHANGED status /\ Leaves(w) /\ payload \in [Mails -> {"none", "staged", "accepted"}]
        /\ faults'.mild => faults.mild /\ payload' = [payload EXCEPT ![e] = "none"]
    BY <1>1, <1>3, <1>4, <1>13 DEF Clean, DeletePayload
  <2>2. faults'.mild => payload'[e] = "none"  BY <2>1
  <2> QED BY <1>5, <2>1, <2>2
<1>14. CASE ClaimThrows(w)
  <2>1. ~faults'.mild  BY <1>4, <1>14 DEF ClaimThrows
  <2> QED BY <1>5, <2>1
<1>15. CASE ReadThrows(w)
  <2>1. /\ UNCHANGED <<payload, status>> /\ worker[w].pc = "read"
        /\ faults'.mild => faults.mild
    BY <1>4, <1>15 DEF ReadThrows
  <2>2. \E pc \in {"release", "fail"} : Moves(w, pc)
    <3>1. \E pc \in {"release", "fail"} : Goto(w, pc)  BY <1>15 DEF ReadThrows
    <3> QED BY <1>3, <3>1
  <2> QED BY <1>5, <2>1, <2>2
<1>16. CASE WorkerDies(w)
  <2>1. ~faults'.mild  BY <1>4, <1>16 DEF WorkerDies
  <2> QED BY <1>5, <2>1
<1> QED BY <1>6, <1>7, <1>8, <1>9, <1>10, <1>11, <1>12, <1>13, <1>14, <1>15, <1>16
        DEF Works, Consume

\* An idle consumer that takes a message up cleans nothing yet.
LEMMA CleanupDeliver ==
  ASSUME IndInv, NEW w \in Workers, DeliverSend(w) \/ DeliverDeadLetter(w), NEW d \in Mails,
         CleanupInv(d), faults'.mild => faults.mild
  PROVE  CleanupInv(d)'
<1>1. PICK q \in {"send", "dlq"}, m \in sendQueue \cup deadLetters : Take(w, q, m)
  BY DeliverFacts
<1>2. TypeOK /\ m \in Message
  BY DEF IndInv, TypeOK, QueueTypes
<1>3. /\ worker'[w] = [pc |-> "claim", queue |-> q, msg |-> m]
      /\ \A v \in Workers \ {w} : worker'[v] = worker[v]
  BY <1>1, <1>2, TakeFacts DEF TypeOK
<1>4. worker'[w].pc = "claim" /\ worker[w].pc = "idle"
      /\ UNCHANGED <<status, payload, request, sweep>>
  BY <1>3, DeliverFacts DEF rowVars
<1>5. Cleaned(d) => Cleaned(d)'
  BY <1>3, <1>4 DEF Cleaned, MailOf
<1> QED BY <1>3, <1>4, <1>5 DEF CleanupInv, MailOf

LEMMA CleanupSweep ==
  ASSUME IndInv, Sweep \/ AlarmFires \/ Wake, NEW d \in Mails, CleanupInv(d)
  PROVE  CleanupInv(d)'
<1>1. TypeOK /\ SweepTypes /\ ProducerInv(d)
  BY DEF IndInv, RowInv, TypeOK
<1>2. /\ NoFault => faults'.mild = faults.mild
      /\ \A k : Fault(k) /\ faults'.mild => faults.mild /\ k \in Mild
      /\ {"delete", "storage", "restart"} \cap Mild = {}
  BY MildFacts DEF Mild
<1>3. NoRow.mail # d
  BY Parties DEF NoRow
<1>4. /\ sweep.pc \in {"idle", "next"} => sweep.row.mail # d
      /\ sweep.pc \in {"send", "read", "settle", "clean"} => sweep.row.mail \in Mails
      /\ \A r \in sweep.todo : r.mail \in Mails
  BY <1>1, <1>3, SweepFacts
<1> USE DEF CleanupInv, Cleaned, MailOf, rowVars
<1>5. CASE AlarmFires \/ Wake \/ SweepEnds
  BY <1>1, <1>2, <1>5, IdleSweepFacts DEF AlarmFires, Wake, SweepEnds, IdleSweep
<1>6. CASE SweepRow
  <2>1. UNCHANGED <<status, payload, request, worker, faults>> /\ sweep.pc = "next"
    BY <1>6 DEF SweepRow, SweepStamp, SweepWait, SweepReenqueue, SweepGiveUp, MarkQueued,
       ClaimOutboundSend
  <2> QED BY <2>1
<1>7. CASE SweepSend \/ SweepRead
  BY <1>1, <1>2, <1>7 DEF SweepSend, SweepRead
<1>8. CASE SweepSettle
  <2>1. /\ UNCHANGED <<payload, request, worker>> /\ sweep.pc = "settle"
        /\ \/ /\ \E s \in {"accepted", "failed"} : SetDeliveryState(sweep.row.mail, s)
              /\ sweep'.pc = "clean" /\ sweep'.row = sweep.row
           \/ status' = status /\ ~faults'.mild
        /\ faults'.mild => faults.mild
    BY <1>1, <1>2, <1>8 DEF SweepSettle, SweepTypes, ReleaseOutboundSendClaim
  <2>2. sweep.row.mail = d => request[d] = "done"
    BY <1>1 DEF ProducerInv
  <2> QED BY <1>1, <1>4, <2>1, <2>2 DEF SetDeliveryState, TypeOK, RowTypes
<1>9. CASE SweepClean
  <2>1. /\ UNCHANGED <<status, request, worker>> /\ sweep.pc = "clean"
        /\ \/ DeletePayload(sweep.row.mail) /\ faults'.mild = faults.mild
           \/ UNCHANGED payload /\ ~faults'.mild
    BY <1>1, <1>2, <1>9 DEF SweepClean
  <2> QED BY <1>1, <1>4, <2>1 DEF DeletePayload, TypeOK, StoreTypes
<1> QED BY <1>5, <1>6, <1>7, <1>8, <1>9 DEF Sweep

LEMMA CleanupStep ==
  ASSUME IndInv, \A d \in Mails : CleanupInv(d), [Next]_vars, NEW d \in Mails
  PROVE  CleanupInv(d)'
<1>1. TypeOK /\ (faults'.mild => faults.mild)
  BY MildShrinks DEF IndInv
<1>2. CASE \E e \in Mails : MailStep(e)
  BY <1>1, <1>2, CleanupMailStep, MailStepElsewhere, UntouchedIsStill, CleanupFrame
<1>3. ASSUME NEW w \in Workers, WorkerStep(w) PROVE CleanupInv(d)'
  <2>1. CASE DeliverSend(w) \/ DeliverDeadLetter(w)
    BY <1>1, <2>1, CleanupDeliver
  <2>2. CASE Works(w)
    <3>1. CASE d = MailOf(w)
      BY <2>2, <3>1, CleanupWork
    <3>2. CASE d # MailOf(w)
      BY <1>1, <2>2, <3>2, ConsumerElsewhere, UntouchedIsStill, CleanupFrame
    <3> QED BY <3>1, <3>2
  <2> QED BY <1>3, <2>1, <2>2 DEF WorkerStep, Works
<1>4. CASE LoseMessage \/ UNCHANGED vars
  <2>1. StillAt(d)
    BY <1>4 DEF StillAt, LoseMessage, vars, rowVars
  <2> QED BY <1>1, <2>1, CleanupFrame
<1> QED BY <1>2, <1>3, <1>4, CleanupSweep DEF Next

\* Whoever settles a row, in whatever order duplicates and re-enqueues are handled, its
\* payload is deleted, unless a party was killed on the way or R2 refused the delete.
THEOREM NoPayloadLeft == Spec => []NoOrphanPayload
<1>1. Init => \A d \in Mails : CleanupInv(d)
  BY Parties DEF Init, CleanupInv, Cleaned, MailOf, IdleWorker, NoMessage
<1>2. IndInv /\ (\A d \in Mails : CleanupInv(d)) /\ [Next]_vars
        => (\A d \in Mails : CleanupInv(d))'
  BY CleanupStep
<1>3. IndInv /\ (\A d \in Mails : CleanupInv(d)) => NoOrphanPayload
  BY DEF CleanupInv, Cleaned, NoOrphanPayload, Quiet
<1> QED BY <1>1, <1>2, <1>3, Inductive, PTL DEF Spec

-----------------------------------------------------------------------------
(* Every copy is accounted for.                                            *)

\* Who may yet transmit a staged row: a holder that has not passed the binding, the
\* sweeper while it settles the row (it may hand it back), and, as NoOne, whichever
\* consumer claims the row while its lease is free.
MaySend(p, e) ==
  \/ /\ p \in Workers /\ Holds(p, e)
     /\ \/ worker[p].pc = "send"
        \/ worker[p].pc \notin {"record", "mark"} /\ payload[e] = "staged"
  \/ p = Sweeper /\ SweepHolds(e) /\ payload[e] = "staged"
  \/ p = NoOne /\ status[e] = "queued" /\ payload[e] = "staged" /\ ~Held(e)
Senders(e) == {p \in Workers \cup {Sweeper, NoOne} : MaySend(p, e)}

\* The invariant behind CopiesAccounted: the copies taken and the copies that may still
\* be sent are together at most one more than the slips.
CountInv(e) == /\ IsFiniteSet(Senders(e))
               /\ copies[e] + Cardinality(Senders(e)) <= 1 + slips[e]

\* How a step may change the set of senders S, the copies c and the slips s: nothing is
\* gained; a sender sends; one party's turn passes to another; a slip makes one more
\* sender; or a slip hides a copy.
Counted(S, T, c, c2, s, s2) ==
  \/ T \subseteq S /\ c2 = c /\ s2 >= s
  \/ \E a \in S : T \subseteq S \ {a} /\ c2 = c + 1 /\ s2 >= s
  \/ \E a, b : T \subseteq (S \ {a}) \cup {b} /\ (b \in T \ S => a \in S) /\ c2 = c /\ s2 >= s
  \/ \E b : T \subseteq S \cup {b} /\ c2 = c /\ s2 = s + 1
  \/ T \subseteq S /\ c2 = c + 1 /\ s2 = s + 1

LEMMA Tally ==
  ASSUME NEW S, NEW T, IsFiniteSet(S), NEW c \in Nat, NEW c2 \in Nat, NEW s \in Nat, NEW s2 \in Nat,
         c + Cardinality(S) <= 1 + s, Counted(S, T, c, c2, s, s2)
  PROVE  IsFiniteSet(T) /\ c2 + Cardinality(T) <= 1 + s2
<1>0. Cardinality(S) \in Nat
  BY FS_CardinalityType
<1>1. ASSUME T \subseteq S
      PROVE  IsFiniteSet(T) /\ Cardinality(T) \in Nat /\ Cardinality(T) <= Cardinality(S)
  BY <1>1, FS_Subset, FS_CardinalityType
<1>2. ASSUME NEW a \in S
      PROVE  /\ IsFiniteSet(S \ {a}) /\ Cardinality(S \ {a}) = Cardinality(S) - 1
             /\ Cardinality(S \ {a}) \in Nat
  BY <1>2, FS_RemoveElement, FS_CardinalityType
<1>3. ASSUME NEW R, NEW b, IsFiniteSet(R), T \subseteq R \cup {b}
      PROVE  /\ IsFiniteSet(T) /\ Cardinality(T) \in Nat
             /\ Cardinality(T) <= Cardinality(R) + 1 /\ Cardinality(R) \in Nat
  <2>1. IsFiniteSet(R \cup {b}) /\ Cardinality(R \cup {b}) <= Cardinality(R) + 1
    <3>1. Cardinality(R) \in Nat
      BY <1>3, FS_CardinalityType
    <3>2. /\ IsFiniteSet(R \cup {b})
          /\ Cardinality(R \cup {b}) = IF b \in R THEN Cardinality(R) ELSE Cardinality(R) + 1
      BY <1>3, FS_AddElement
    <3> QED BY <3>1, <3>2
  <2>2. Cardinality(R \cup {b}) \in Nat /\ Cardinality(R) \in Nat
    BY <1>3, <2>1, FS_CardinalityType
  <2>3. IsFiniteSet(T) /\ Cardinality(T) <= Cardinality(R \cup {b})
    BY <1>3, <2>1, FS_Subset
  <2> QED BY <2>1, <2>2, <2>3, FS_CardinalityType
<1>4. CASE T \subseteq S /\ c2 = c /\ s2 >= s
  BY <1>0, <1>1, <1>4
<1>5. CASE \E a \in S : T \subseteq S \ {a} /\ c2 = c + 1 /\ s2 >= s
  <2>1. PICK a \in S : T \subseteq S \ {a} /\ c2 = c + 1 /\ s2 >= s
    BY <1>5
  <2> DEFINE R == S \ {a}
  <2>2. IsFiniteSet(R) /\ Cardinality(R) = Cardinality(S) - 1 /\ T \subseteq R
    BY <1>2, <2>1
  <2> HIDE DEF R
  <2>3. IsFiniteSet(T) /\ Cardinality(T) <= Cardinality(R) /\ Cardinality(T) \in Nat
    BY <2>2, FS_Subset, FS_CardinalityType
  <2> QED BY <1>0, <2>1, <2>2, <2>3
<1>6. CASE \E a, b : /\ T \subseteq (S \ {a}) \cup {b} /\ (b \in T \ S => a \in S)
                     /\ c2 = c /\ s2 >= s
  <2>1. PICK a, b : /\ T \subseteq (S \ {a}) \cup {b} /\ (b \in T \ S => a \in S)
                    /\ c2 = c /\ s2 >= s
    BY <1>6
  <2>2. CASE T \subseteq S
    BY <1>0, <1>1, <2>1, <2>2
  <2>3. CASE a \in S
    <3> DEFINE R == S \ {a}
    <3>1. IsFiniteSet(R) /\ Cardinality(R) = Cardinality(S) - 1 /\ T \subseteq R \cup {b}
      BY <1>2, <2>1, <2>3
    <3> HIDE DEF R
    <3>2. IsFiniteSet(T) /\ Cardinality(T) \in Nat /\ Cardinality(T) <= Cardinality(R) + 1
      BY <1>3, <3>1
    <3> QED BY <1>0, <2>1, <3>1, <3>2
  <2> QED BY <2>1, <2>2, <2>3
<1>7. CASE \E b : T \subseteq S \cup {b} /\ c2 = c /\ s2 = s + 1
  <2>1. PICK b : T \subseteq S \cup {b} /\ c2 = c /\ s2 = s + 1
    BY <1>7
  <2>2. IsFiniteSet(T) /\ Cardinality(T) \in Nat /\ Cardinality(T) <= Cardinality(S) + 1
    BY <1>3, <2>1
  <2> QED BY <1>0, <2>1, <2>2
<1>8. CASE T \subseteq S /\ c2 = c + 1 /\ s2 = s + 1
  BY <1>0, <1>1, <1>8
<1> QED BY <1>4, <1>5, <1>6, <1>7, <1>8 DEF Counted

\* What one step does to the count of row e.
Accounts(e) == Counted(Senders(e), Senders(e)', copies[e], copies'[e], slips[e], slips'[e])

LEMMA CountKept ==
  ASSUME TypeOK, TypeOK', NEW e \in Mails, CountInv(e), Accounts(e)
  PROVE  CountInv(e)'
<1>1. copies[e] \in Nat /\ copies'[e] \in Nat /\ slips[e] \in Nat /\ slips'[e] \in Nat
  BY DEF TypeOK, GhostTypes
<1> QED BY <1>1, Tally DEF CountInv, Accounts

\* Nobody who could not send before the step can after it.
LEMMA NoNewSender ==
  ASSUME NEW e \in Mails, \A p \in Workers \cup {Sweeper, NoOne} : MaySend(p, e)' => MaySend(p, e)
  PROVE  Senders(e)' \subseteq Senders(e)
BY DEF Senders

\* The three kinds of senders are different parties.
LEMMA Kinds ==
  /\ Sweeper # NoOne /\ NoOne \notin Workers /\ Sweeper \notin Workers
BY Parties

LEMMA CountFrame ==
  ASSUME TypeOK, NEW d \in Mails, Untouched(d)
  PROVE  Accounts(d)
<1>1. \A w \in Workers : (Holds(w, d)' <=> Holds(w, d)) /\ (Holds(w, d) => worker'[w] = worker[w])
  BY DEF Untouched, Holds, MailOf
<1>2. SweepHolds(d)' <=> SweepHolds(d)
  BY DEF Untouched, SweepHolds
<1>3. Held(d)' <=> Held(d)
  BY <1>1, <1>2 DEF Held, Untouched
<1>4. \A p \in Workers \cup {Sweeper, NoOne} : MaySend(p, d)' => MaySend(p, d)
  BY <1>1, <1>2, <1>3 DEF MaySend, Untouched
<1>5. slips[d] \in Nat
  BY DEF TypeOK, GhostTypes
<1> QED BY <1>4, <1>5, NoNewSender DEF Accounts, Counted, Untouched

\* Before the producer's message is on the queue nobody can send but whoever will claim it.
LEMMA CountProduced ==
  ASSUME IndInv, NEW e \in Mails, StoreRow(e) \/ Stage(e)
  PROVE  CountInv(e)'
<1>1. TypeOK /\ ProducerInv(e)
  BY DEF IndInv, RowInv
<1>2. /\ \A w \in Workers : MailOf(w) # e
      /\ copies[e] = 0 /\ sweep.row.mail # e
      /\ UNCHANGED <<worker, sweep, copies, slips>>
  BY <1>1 DEF ProducerInv, Unsent, StoreRow, Stage, ghosts
<1>3. Senders(e)' \subseteq {NoOne}
  BY <1>2 DEF Senders, MaySend, Holds, SweepHolds, MailOf
<1>4. IsFiniteSet({NoOne}) /\ Cardinality({NoOne}) = 1
  BY FS_Singleton
<1>5. IsFiniteSet(Senders(e)') /\ Cardinality(Senders(e)') <= 1 /\ Cardinality(Senders(e)') \in Nat
  BY <1>3, <1>4, FS_Subset, FS_CardinalityType
<1>6. slips'[e] \in Nat /\ copies'[e] = 0
  BY <1>1, <1>2 DEF TypeOK, GhostTypes
<1> QED BY <1>5, <1>6 DEF CountInv

\* Steps of a request, the user and time.
LEMMA CountMailStep ==
  ASSUME IndInv, NEW e \in Mails, MailStep(e), CountInv(e), TypeOK'
  PROVE  CountInv(e)'
<1>1. TypeOK /\ slips[e] \in Nat
  BY DEF IndInv, TypeOK, GhostTypes
<1>2. CASE StoreRow(e) \/ Stage(e)
  BY <1>2, CountProduced
<1>3. CASE LeaseOverrun(e)
  <2>1. /\ UNCHANGED <<status, payload, worker, sweep, copies>> /\ slips'[e] = slips[e] + 1
    BY <1>1, <1>3 DEF LeaseOverrun, ReleaseOutboundSendClaim, Slip, TypeOK, GhostTypes
  <2>2. Senders(e)' \subseteq Senders(e) \cup {NoOne}
    BY <2>1 DEF Senders, MaySend, Holds, SweepHolds, MailOf
  <2> QED BY <1>1, <2>1, <2>2, CountKept DEF Accounts, Counted
<1>4. CASE \/ Enqueue(e) \/ NoteQueued(e) \/ RecordEnqueueFailure(e) \/ Unstage(e)
           \/ RequestDies(e) \/ DeleteRow(e) \/ ThresholdPasses(e) \/ LeaseExpires(e)
  <2>1. /\ UNCHANGED <<worker, sweep, copies>> /\ slips'[e] >= slips[e]
        /\ payload'[e] = "staged" => payload[e] = "staged"
        /\ status'[e] = "queued" =>
             status[e] = "queued" /\ (claim'[e] = claim[e] \/ ~Held(e))
    BY <1>1, <1>4 DEF Enqueue, NoteQueued, MarkQueued, RecordEnqueueFailure, SetDeliveryState,
       Unstage, DeletePayload, RequestDies, DeleteRow, ThresholdPasses, LeaseExpires, Slip,
       ReleaseOutboundSendClaim, rowVars, ghosts, TypeOK, RowTypes, StoreTypes, GhostTypes
  <2>2. /\ \A w \in Workers : Holds(w, e)' <=> Holds(w, e)
        /\ SweepHolds(e)' <=> SweepHolds(e)
    BY <2>1 DEF Holds, SweepHolds, MailOf
  <2>3. status'[e] = "queued" /\ ~Held(e)' => ~Held(e)
    BY <2>1, <2>2 DEF Held
  <2>4. \A p \in Workers \cup {Sweeper, NoOne} : MaySend(p, e)' => MaySend(p, e)
    BY <2>1, <2>2, <2>3 DEF MaySend
  <2> QED BY <1>1, <2>1, <2>4, NoNewSender, CountKept DEF Accounts, Counted
<1> QED BY <1>2, <1>3, <1>4 DEF MailStep, Produce

\* A step of one consumer leaves the other senders as they were.
LEMMA OtherSenders ==
  ASSUME NEW w \in Workers, NEW e \in Mails, \A v \in Workers \ {w} : worker'[v] = worker[v],
         UNCHANGED sweep, payload'[e] = "staged" => payload[e] = "staged"
  PROVE  /\ Senders(e)' \subseteq (Senders(e) \ {w, NoOne})
                                   \cup {p \in {w, NoOne} : MaySend(p, e)'}
         /\ (Holds(w, e)' <=> Holds(w, e)) /\ claim'[e] = claim[e] => (Held(e)' <=> Held(e))
         /\ Held(e) /\ ~Held(e)' /\ claim'[e] = claim[e] => Holds(w, e)
<1>1. /\ \A v \in Workers \ {w} : Holds(v, e)' <=> Holds(v, e)
      /\ SweepHolds(e)' <=> SweepHolds(e)
  BY DEF Holds, SweepHolds, MailOf
<1>2. \A p \in (Workers \cup {Sweeper}) \ {w} : MaySend(p, e)' => MaySend(p, e)
  BY <1>1, Kinds DEF MaySend
<1>3. Senders(e)' \subseteq (Senders(e) \ {w, NoOne}) \cup {p \in {w, NoOne} : MaySend(p, e)'}
  BY <1>2, Kinds DEF Senders
<1> QED BY <1>1, <1>3 DEF Held

LEMMA CountWork ==
  ASSUME IndInv, NEW w \in Workers, NEW e \in Mails, e = MailOf(w), Works(w)
  PROVE  Accounts(e)
<1>1. TypeOK /\ slips[e] \in Nat /\ copies[e] \in Nat
  BY DEF IndInv, TypeOK, GhostTypes
<1>2. worker[w].pc # "idle" /\ UNCHANGED sweep
  BY <1>1, WorkFacts DEF Works, Consume, Claim, ReadPayload, SendAccepted, SendThrows, Record,
     MarkAccepted, ReleaseClaim, Settle, Clean, ClaimThrows, ReadThrows, WorkerDies
<1>3. /\ \A pc \in WorkerPcs \ {"idle"} : Goto(w, pc) => Moves(w, pc)
      /\ Ack(w) \/ Retry(w) => Leaves(w)
  BY <1>1, <1>2, MoveFacts
<1>4. \A v \in Workers \ {w} : worker'[v] = worker[v]
  BY <1>1, <1>3, WorkFacts DEF Moves, Leaves
<1>5. payload'[e] = "staged" => payload[e] = "staged"
  BY <1>1 DEF Works, Consume, Claim, ReadPayload, SendAccepted, SendThrows, Record,
     MarkAccepted, ReleaseClaim, Settle, Clean, ClaimThrows, ReadThrows, WorkerDies,
     DeletePayload, TypeOK, StoreTypes
<1> DEFINE S == Senders(e)
           T == Senders(e)'
<1>6. /\ T \subseteq (S \ {w, NoOne}) \cup {p \in {w, NoOne} : MaySend(p, e)'}
      /\ (Holds(w, e)' <=> Holds(w, e)) /\ claim'[e] = claim[e] => (Held(e)' <=> Held(e))
      /\ Held(e) /\ ~Held(e)' /\ claim'[e] = claim[e] => Holds(w, e)
  BY <1>2, <1>4, <1>5, OtherSenders
<1>7. \A p \in {w, NoOne} : MaySend(p, e) => p \in S
  BY DEF Senders
<1>8. ASSUME NEW pc \in WorkerPcs \ {"idle"}, Moves(w, pc)
      PROVE  Holds(w, e)' <=> pc \in Holding
  BY <1>8 DEF Moves, Holds
<1>9. Leaves(w) => ~Holds(w, e)'
  BY DEF Leaves, Holds
<1>10. Holds(w, e) <=> worker[w].pc \in Holding
  BY DEF Holds
<1> HIDE DEF S, T
\* The consumer holds the row before and after the step, or neither.
<1>11. ASSUME Holds(w, e)' <=> Holds(w, e), claim'[e] = claim[e], status'[e] = status[e],
              MaySend(w, e)' => MaySend(w, e)
       PROVE  T \subseteq S
  BY <1>5, <1>6, <1>7, <1>11, Kinds DEF MaySend
\* The row is settled.
<1>12. ASSUME status'[e] # "queued", ~MaySend(w, e)'
       PROVE  T \subseteq S
  BY <1>6, <1>12, Kinds DEF MaySend
\* The consumer gives the row up: if it could have sent, whoever claims the row now may.
<1>13. ASSUME ~Holds(w, e)', worker[w].pc \in Holding \ {"record", "mark"}
       PROVE  T \subseteq (S \ {w}) \cup {NoOne} /\ (NoOne \in T \ S => w \in S)
  BY <1>5, <1>6, <1>7, <1>10, <1>13, Kinds DEF MaySend
<1>14. \A p \in {w, NoOne} : p \in T => MaySend(p, e)'
  BY DEF S, T, Senders
<1> DEFINE Goal == Counted(S, T, copies[e], copies'[e], slips[e], slips'[e])
           Same == copies'[e] = copies[e] /\ slips'[e] = slips[e]
<1> SUFFICES Goal
  BY DEF Accounts, S, T
<1>15. /\ T \subseteq S /\ copies'[e] = copies[e] /\ slips'[e] >= slips[e] => Goal
       /\ T \subseteq S /\ Same => Goal
       /\ T \subseteq S /\ copies'[e] = copies[e] + 1 /\ slips'[e] = slips[e] + 1 => Goal
       /\ T \subseteq S \cup {NoOne} /\ copies'[e] = copies[e] /\ slips'[e] = slips[e] + 1 => Goal
  BY <1>1 DEF Counted
<1>16. w \in S /\ T \subseteq S \ {w} /\ copies'[e] = copies[e] + 1 /\ slips'[e] = slips[e] => Goal
  BY <1>1 DEF Counted
<1>17. /\ T \subseteq (S \ {NoOne}) \cup {w} /\ (w \in T \ S => NoOne \in S) /\ Same => Goal
       /\ T \subseteq (S \ {w}) \cup {NoOne} /\ (NoOne \in T \ S => w \in S) /\ Same => Goal
  BY <1>1 DEF Counted
<1> HIDE DEF Goal
<1> USE DEF rowVars, ghosts, queues, WorkerPcs, Holding
<1>18. CASE Claim(w)
  <2>1. /\ worker[w].pc = "claim" /\ ~Holds(w, e) /\ Same /\ UNCHANGED <<status, payload>>
        /\ ClaimOutboundSend(e, w)
    BY <1>10, <1>18 DEF Claim, ClaimOutboundSend
  <2>2. CASE Decision(e) = "in_flight"
    <3>1. Leaves(w) /\ claim'[e] = claim[e]
      BY <1>1, <1>3, <1>18, <2>1, <2>2, ClaimFacts DEF Claim, TypeOK
    <3>2. T \subseteq S
      BY <1>9, <1>11, <2>1, <3>1, Kinds DEF MaySend
    <3> QED BY <1>15, <2>1, <3>2
  <2>3. CASE Decision(e) = "claimed"
    <3>1. /\ claim'[e] = w /\ claim[e] = NoOne /\ status[e] = "queued" /\ Moves(w, "read")
      <4>1. Goto(w, "read")
        BY <1>18, <2>3 DEF Claim
      <4> QED BY <1>1, <1>3, <2>1, <2>3, <4>1, ClaimFacts DEF TypeOK, Decision
    <3>2. Held(e)' /\ ~Held(e)
      BY <1>8, <3>1, Kinds DEF Held
    <3>3. NoOne \notin T /\ (w \in T => NoOne \in S)
      <4>1. NoOne \notin T
        BY <1>14, <3>2, Kinds DEF MaySend
      <4>2. ASSUME w \in T PROVE payload[e] = "staged"
        BY <1>5, <1>14, <3>1, <4>2, Kinds DEF MaySend, Moves
      <4> QED BY <1>7, <3>1, <3>2, <4>1, <4>2 DEF MaySend
    <3>4. T \subseteq (S \ {NoOne}) \cup {w} /\ (w \in T \ S => NoOne \in S)
      BY <1>6, <3>3
    <3> QED BY <1>17, <2>1, <3>4
  <2>4. CASE Decision(e) = "not_queued"
    <3>1. status[e] # "queued" /\ Moves(w, "clean")
      BY <1>3, <1>18, <2>4 DEF Claim, Decision
    <3>2. T \subseteq S
      BY <1>8, <1>12, <2>1, <3>1, Kinds DEF MaySend
    <3> QED BY <1>15, <2>1, <3>2
  <2> QED BY <2>2, <2>3, <2>4 DEF Decision
<1>19. CASE ClaimThrows(w)
  <2>1. /\ worker[w].pc = "claim" /\ ~Holds(w, e) /\ Same /\ UNCHANGED <<status, payload>>
        /\ ~Holds(w, e)' /\ (ClaimOutboundSend(e, w) \/ UNCHANGED claim)
    BY <1>3, <1>9, <1>10, <1>19 DEF ClaimThrows, ClaimOutboundSend
  <2>2. ~MaySend(w, e)'
    BY <2>1, Kinds DEF MaySend
  <2>3. CASE claim'[e] = claim[e] \/ status[e] # "queued"
    BY <1>11, <1>12, <1>15, <2>1, <2>2, <2>3
  <2>4. CASE claim[e] = NoOne
    <3>1. ~Held(e)
      BY <2>4, Kinds DEF Held
    <3>2. T \subseteq S
      BY <1>5, <1>6, <1>7, <2>1, <2>2, <3>1, Kinds DEF MaySend
    <3> QED BY <1>15, <2>1, <3>2
  <2> QED BY <1>1, <2>1, <2>3, <2>4, ClaimFacts DEF Decision, TypeOK
<1>20. CASE ReadPayload(w) \/ ReadThrows(w)
  <2>1. /\ Holds(w, e) /\ Holds(w, e)' /\ UNCHANGED <<status, claim, payload, copies>>
        /\ slips'[e] >= slips[e] /\ worker[w].pc = "read"
        /\ worker'[w].pc = "send" => payload[e] = "staged"
    BY <1>1, <1>3, <1>8, <1>10, <1>20 DEF ReadPayload, ReadThrows, Moves, Slip, TypeOK, GhostTypes
  <2>2. MaySend(w, e)' => MaySend(w, e)
    BY <2>1, Kinds DEF MaySend
  <2> QED BY <1>11, <1>15, <2>1, <2>2
<1>21. CASE SendAccepted(w)
  <2>1. /\ Holds(w, e) /\ Holds(w, e)' /\ UNCHANGED <<status, claim, payload, slips>>
        /\ copies'[e] = copies[e] + 1 /\ worker[w].pc = "send" /\ worker'[w].pc = "record"
    BY <1>1, <1>3, <1>8, <1>10, <1>21 DEF SendAccepted, Moves, TypeOK, GhostTypes
  <2>2. ~MaySend(w, e)' /\ MaySend(w, e)
    BY <2>1, Kinds DEF MaySend
  <2>3. T \subseteq S \ {w} /\ w \in S
    BY <1>7, <1>11, <1>14, <2>1, <2>2
  <2> QED BY <1>16, <2>1, <2>3
<1>22. CASE SendThrows(w)
  <2>1. /\ Holds(w, e) /\ Holds(w, e)' /\ UNCHANGED <<status, claim, payload>>
        /\ Same \/ (copies'[e] = copies[e] + 1 /\ slips'[e] = slips[e] + 1)
        /\ worker[w].pc = "send"
    BY <1>1, <1>3, <1>8, <1>10, <1>22 DEF SendThrows, Slip, TypeOK, GhostTypes
  <2>2. MaySend(w, e)
    BY <2>1 DEF MaySend
  <2> QED BY <1>11, <1>15, <2>1, <2>2
<1>23. CASE Record(w)
  <2>1. /\ Same /\ worker[w].pc = "record" /\ UNCHANGED payload
        /\ Moves(w, "clean") \/ Moves(w, "mark")
    BY <1>3, <1>23 DEF Record
  <2>2. ~MaySend(w, e)'
    BY <1>8, <2>1, Kinds DEF MaySend, Moves
  <2>3. CASE SetDeliveryState(e, "accepted")
    BY <1>1, <1>12, <1>15, <2>1, <2>2, <2>3, SetStateFacts DEF TypeOK
  <2>4. CASE UNCHANGED rowVars /\ Moves(w, "mark")
    BY <1>8, <1>10, <1>11, <1>15, <2>1, <2>2, <2>4
  <2> QED BY <1>3, <1>23, <2>3, <2>4 DEF Record
<1>24. CASE MarkAccepted(w)
  <2>1. worker[w].pc = "mark" /\ UNCHANGED <<status, claim, copies>>
    BY <1>24 DEF MarkAccepted
  <2>2. CASE /\ payload' = [payload EXCEPT ![e] = "accepted"] /\ Goto(w, "release")
             /\ UNCHANGED slips
    <3>1. payload'[e] # "staged" /\ Moves(w, "release")
      BY <1>1, <1>3, <2>2 DEF TypeOK, StoreTypes
    <3> QED BY <1>8, <1>10, <1>11, <1>15, <2>1, <2>2, <3>1, Kinds DEF MaySend, Moves
  <2>3. CASE UNCHANGED payload /\ Ack(w) /\ Slip(e)
    <3>1. slips'[e] = slips[e] + 1
      BY <1>1, <2>3 DEF Slip, TypeOK, GhostTypes
    <3>2. ~MaySend(w, e)'
      BY <1>3, <1>9, <2>3, Kinds DEF MaySend
    <3>3. T \subseteq S \cup {NoOne}
      BY <1>6, <3>2
    <3> QED BY <1>15, <2>1, <3>1, <3>3
  <2> QED BY <1>24, <2>2, <2>3 DEF MarkAccepted
<1>25. CASE ReleaseClaim(w)
  <2>1. Same /\ ~Holds(w, e)' /\ worker[w].pc = "release"
    BY <1>3, <1>9, <1>25 DEF ReleaseClaim
  <2> QED BY <1>13, <1>17, <2>1
<1>26. CASE Settle(w)
  <2>1. /\ Same /\ ~Holds(w, e)' /\ worker[w].pc \in {"accept", "fail", "lost"}
    BY <1>3, <1>8, <1>9, <1>26 DEF Settle
  <2> QED BY <1>13, <1>17, <2>1
<1>27. CASE Clean(w)
  <2>1. /\ Same /\ ~Holds(w, e)' /\ ~Holds(w, e) /\ UNCHANGED <<status, claim>>
    BY <1>3, <1>9, <1>10, <1>27 DEF Clean
  <2> QED BY <1>11, <1>15, <2>1, Kinds DEF MaySend
<1>28. CASE WorkerDies(w)
  <2>1. ~Holds(w, e)' /\ UNCHANGED <<status, claim, payload, copies>>
    BY <1>3, <1>9, <1>28 DEF WorkerDies
  <2>2. ~MaySend(w, e)'
    BY <2>1, Kinds DEF MaySend
  <2>3. CASE worker[w].pc \in {"record", "mark"}
    <3>1. slips'[e] = slips[e] + 1
      BY <1>1, <1>28, <2>3 DEF WorkerDies, Slip, TypeOK, GhostTypes
    <3>2. T \subseteq S \cup {NoOne}
      BY <1>6, <2>2
    <3> QED BY <1>15, <2>1, <3>1, <3>2
  <2>4. CASE worker[w].pc \in Holding \ {"record", "mark"}
    BY <1>13, <1>17, <1>28, <2>1, <2>4 DEF WorkerDies
  <2>5. CASE worker[w].pc \notin Holding
    BY <1>10, <1>11, <1>15, <1>28, <2>1, <2>2, <2>5 DEF WorkerDies
  <2> QED BY <2>3, <2>4, <2>5
<1> QED
  BY <1>18, <1>19, <1>20, <1>21, <1>22, <1>23, <1>24, <1>25, <1>26, <1>27, <1>28
     DEF Works, Consume

\* An idle consumer that takes a message up holds no row yet.
LEMMA CountDeliver ==
  ASSUME IndInv, NEW w \in Workers, DeliverSend(w) \/ DeliverDeadLetter(w), NEW d \in Mails
  PROVE  Accounts(d)
<1>1. PICK q \in {"send", "dlq"}, m \in sendQueue \cup deadLetters : Take(w, q, m)
  BY DeliverFacts
<1>2. TypeOK /\ m \in Message /\ slips[d] \in Nat
  BY DEF IndInv, TypeOK, QueueTypes, GhostTypes
<1>3. /\ worker'[w] = [pc |-> "claim", queue |-> q, msg |-> m]
      /\ \A v \in Workers \ {w} : worker'[v] = worker[v]
  BY <1>1, <1>2, TakeFacts DEF TypeOK
<1>4. /\ ~Holds(w, d) /\ ~Holds(w, d)'
      /\ UNCHANGED <<status, claim, payload, sweep, copies, slips>>
  BY <1>3, DeliverFacts DEF rowVars, ghosts, Holds, Holding
<1>5. Held(d)' <=> Held(d)
  BY <1>3, <1>4, OtherSenders
<1>6. Senders(d)' \subseteq Senders(d)
  BY <1>3, <1>4, <1>5, OtherSenders, Kinds DEF Senders, MaySend
<1> QED BY <1>2, <1>4, <1>6 DEF Accounts, Counted

\* A step of the sweeper leaves the other senders as they were.
LEMMA SweepSenders ==
  ASSUME NEW d \in Mails, UNCHANGED worker, payload'[d] = "staged" => payload[d] = "staged"
  PROVE  /\ Senders(d)' \subseteq (Senders(d) \ {Sweeper, NoOne})
                                   \cup {p \in {Sweeper, NoOne} : MaySend(p, d)'}
         /\ (SweepHolds(d)' <=> SweepHolds(d)) /\ claim'[d] = claim[d] => (Held(d)' <=> Held(d))
         /\ Held(d) /\ ~Held(d)' /\ claim'[d] = claim[d] => SweepHolds(d)
         /\ \A p \in {Sweeper, NoOne} : MaySend(p, d) => p \in Senders(d)
         /\ \A p \in {Sweeper, NoOne} : p \in Senders(d)' => MaySend(p, d)'
<1>1. \A v \in Workers : Holds(v, d)' <=> Holds(v, d)
  BY DEF Holds, MailOf
<1>2. \A p \in Workers : MaySend(p, d)' => MaySend(p, d)
  BY <1>1, Kinds DEF MaySend
<1>3. Senders(d)' \subseteq (Senders(d) \ {Sweeper, NoOne})
                             \cup {p \in {Sweeper, NoOne} : MaySend(p, d)'}
  BY <1>2, Kinds DEF Senders
<1> QED BY <1>1, <1>3 DEF Held, Senders

LEMMA CountSweep ==
  ASSUME IndInv, NEW d \in Mails, Sweep \/ AlarmFires \/ Wake
  PROVE  Accounts(d)
<1>1. TypeOK /\ SweepTypes /\ slips \in [Mails -> Nat]
  BY DEF IndInv, TypeOK, GhostTypes
<1>2. NoRow.mail # d
  BY Parties DEF NoRow
<1>3. /\ sweep.pc \in {"idle", "next"} => sweep.row = NoRow
      /\ sweep.pc \in {"send", "read", "settle", "clean"} => sweep.row.mail \in Mails
      /\ \A r \in sweep.todo : r.mail \in Mails
  BY <1>1, SweepFacts
<1>4. payload'[d] = "staged" => payload[d] = "staged"
  BY <1>1, <1>3 DEF Sweep, SweepRow, SweepSend, SweepRead, SweepSettle, SweepClean, SweepEnds,
     AlarmFires, Wake, DeletePayload, TypeOK, StoreTypes
<1>5. UNCHANGED <<worker, copies>> /\ slips'[d] >= slips[d]
  BY <1>1, <1>3 DEF Sweep, SweepRow, SweepSend, SweepRead, SweepSettle, SweepClean, SweepEnds,
     AlarmFires, Wake, Slip, ghosts
<1> DEFINE S == Senders(d)
           T == Senders(d)'
           Goal == Counted(S, T, copies[d], copies'[d], slips[d], slips'[d])
<1> SUFFICES Goal
  BY DEF Accounts, S, T
<1>6. /\ T \subseteq (S \ {Sweeper, NoOne}) \cup {p \in {Sweeper, NoOne} : MaySend(p, d)'}
      /\ (SweepHolds(d)' <=> SweepHolds(d)) /\ claim'[d] = claim[d] => (Held(d)' <=> Held(d))
      /\ Held(d) /\ ~Held(d)' /\ claim'[d] = claim[d] => SweepHolds(d)
      /\ \A p \in {Sweeper, NoOne} : MaySend(p, d) => p \in S
      /\ \A p \in {Sweeper, NoOne} : p \in T => MaySend(p, d)'
  BY <1>4, <1>5, SweepSenders
<1> HIDE DEF S, T
<1>7. /\ T \subseteq S => Goal
      /\ T \subseteq (S \ {NoOne}) \cup {Sweeper} /\ (Sweeper \in T \ S => NoOne \in S) => Goal
      /\ T \subseteq (S \ {Sweeper}) \cup {NoOne} /\ (NoOne \in T \ S => Sweeper \in S) => Goal
  BY <1>5 DEF Counted
<1> HIDE DEF Goal
\* The sweeper holds the row before and after the step, or neither.
<1>8. ASSUME SweepHolds(d)' <=> SweepHolds(d), status'[d] = status[d],
             claim'[d] = claim[d] \/ status[d] # "queued"
      PROVE  Goal
  <2>1. T \subseteq S
    BY <1>4, <1>6, <1>8, Kinds DEF MaySend
  <2> QED BY <1>7, <2>1
\* The sweeper lets go of the row without having settled it.
<1>9. ASSUME SweepHolds(d), ~SweepHolds(d)'
      PROVE  Goal
  <2>1. T \subseteq (S \ {Sweeper}) \cup {NoOne} /\ (NoOne \in T \ S => Sweeper \in S)
    BY <1>4, <1>6, <1>9, Kinds DEF MaySend
  <2> QED BY <1>7, <2>1
<1>10. CASE AlarmFires \/ Wake \/ SweepEnds
  <2>1. status' = status /\ claim' = claim /\ (SweepHolds(d)' => SweepHolds(d))
    BY <1>10, IdleSweepFacts DEF AlarmFires, Wake, SweepEnds, SweepHolds, IdleSweep, rowVars
  <2> QED BY <1>8, <1>9, <2>1
<1>11. CASE SweepRow
  <2>1. sweep.pc = "next" /\ ~SweepHolds(d) /\ status' = status
    BY <1>11 DEF SweepRow, SweepHolds, SweepStamp, SweepWait, SweepReenqueue, SweepGiveUp,
       MarkQueued, ClaimOutboundSend, rowVars
  <2>2. PICK r \in sweep.todo : SweepStamp(r) \/ SweepWait(r) \/ SweepReenqueue(r) \/ SweepGiveUp(r)
    BY <1>11 DEF SweepRow
  <2>3. CASE SweepStamp(r) \/ SweepWait(r) \/ SweepReenqueue(r)
    <3>1. claim' = claim /\ sweep'.pc \in {"next", "send"}
      BY <1>1, <2>1, <2>3 DEF SweepStamp, SweepWait, SweepReenqueue, MarkQueued, NextAgain,
         NextRow, SweepTypes, rowVars
    <3> QED BY <1>8, <2>1, <3>1 DEF SweepHolds
  <2>4. CASE SweepGiveUp(r) /\ (r.mail # d \/ Decision(d) # "claimed")
    <3>1. claim'[d] = claim[d] \/ status[d] # "queued"
      BY <1>1, <1>3, <2>2, <2>4, ClaimFacts DEF SweepGiveUp, TypeOK, Decision
    <3>2. ~SweepHolds(d)'
      BY <1>1, <1>2, <1>3, <2>1, <2>4 DEF SweepGiveUp, SweepHolds, NextRow, SweepTypes
    <3> QED BY <1>8, <2>1, <3>1, <3>2
  <2>5. CASE SweepGiveUp(r) /\ r.mail = d /\ Decision(d) = "claimed"
    <3>1. claim[d] = NoOne /\ claim'[d] = Sweeper /\ status[d] = "queued"
      BY <1>1, <2>5, ClaimFacts DEF SweepGiveUp, TypeOK, Decision
    <3>2. SweepHolds(d)' /\ Held(d)' /\ ~Held(d)
      BY <1>1, <2>5, <3>1, Kinds DEF SweepGiveUp, SweepHolds, NextRow, SweepTypes, Held
    <3>3. NoOne \notin T /\ (Sweeper \in T => NoOne \in S)
      <4>1. NoOne \notin T
        BY <1>6, <3>2, Kinds DEF MaySend
      <4>2. Sweeper \in T => payload[d] = "staged"
        BY <1>4, <1>6, Kinds DEF MaySend
      <4> QED BY <1>6, <3>1, <3>2, <4>1, <4>2 DEF MaySend
    <3>4. T \subseteq (S \ {NoOne}) \cup {Sweeper} /\ (Sweeper \in T \ S => NoOne \in S)
      BY <1>6, <3>3
    <3> QED BY <1>7, <3>4
  <2> QED BY <2>2, <2>3, <2>4, <2>5
<1>12. CASE SweepSend \/ SweepRead \/ SweepClean
  <2>1. status' = status /\ claim' = claim /\ (SweepHolds(d)' <=> SweepHolds(d))
    BY <1>1, <1>12 DEF SweepSend, SweepRead, SweepClean, Resume, SweepHolds, SweepTypes, rowVars
  <2> QED BY <1>8, <2>1
<1>13. CASE SweepSettle
  <2>1. /\ sweep.pc = "settle" /\ ~SweepHolds(d)'
    BY <1>1, <1>13 DEF SweepSettle, SweepHolds, SweepTypes
  <2>2. CASE sweep.row.mail = d
    BY <1>9, <2>1, <2>2 DEF SweepHolds
  <2>3. CASE sweep.row.mail # d
    <3>1. ~SweepHolds(d) /\ status'[d] = status[d] /\ claim'[d] = claim[d]
      BY <1>1, <1>3, <1>13, <2>1, <2>3 DEF SweepSettle, SweepHolds, SetDeliveryState,
         ReleaseOutboundSendClaim, TypeOK, RowTypes
    <3> QED BY <1>8, <2>1, <3>1
  <2> QED BY <2>2, <2>3
<1> QED BY <1>10, <1>11, <1>12, <1>13 DEF Sweep

LEMMA CountStep ==
  ASSUME IndInv, TypeOK', \A d \in Mails : CountInv(d), [Next]_vars, NEW d \in Mails
  PROVE  CountInv(d)'
<1>1. TypeOK
  BY DEF IndInv
<1>2. ASSUME NEW e \in Mails, MailStep(e) PROVE CountInv(d)'
  <2>1. CASE d = e
    BY <1>2, <2>1, CountMailStep
  <2>2. CASE d # e
    BY <1>1, <1>2, <2>2, MailStepElsewhere, CountFrame, CountKept
  <2> QED BY <2>1, <2>2
<1>3. ASSUME NEW w \in Workers, WorkerStep(w) PROVE CountInv(d)'
  <2>1. CASE DeliverSend(w) \/ DeliverDeadLetter(w)
    BY <1>1, <2>1, CountDeliver, CountKept
  <2>2. CASE Works(w) /\ d = MailOf(w)
    BY <1>1, <2>2, CountWork, CountKept
  <2>3. CASE Works(w) /\ d # MailOf(w)
    BY <1>1, <2>3, ConsumerElsewhere, CountFrame, CountKept
  <2> QED BY <1>3, <2>1, <2>2, <2>3 DEF WorkerStep, Works
<1>4. CASE Sweep \/ AlarmFires \/ Wake
  BY <1>1, <1>4, CountSweep, CountKept
<1>5. CASE LoseMessage \/ UNCHANGED vars
  <2>1. Untouched(d)
    BY <1>5 DEF LoseMessage, vars, rowVars, queues, ghosts, Untouched
  <2> QED BY <1>1, <2>1, CountFrame, CountKept
<1> QED BY <1>2, <1>3, <1>4, <1>5 DEF Next

\* However duplicates, retries, re-enqueues and dead letters interleave, a recipient gets
\* at most one copy more than the times a party lost track of a copy or of its lease.
THEOREM EveryCopyAccounted == Spec => []CopiesAccounted
<1>1. Init => \A d \in Mails : CountInv(d)
  <2> SUFFICES ASSUME Init, NEW d \in Mails PROVE CountInv(d)
    OBVIOUS
  <2>1. Senders(d) = {}
    BY Parties DEF Init, Senders, MaySend, Holds, SweepHolds, Holding, IdleWorker, IdleSweep
  <2> QED BY <2>1, FS_EmptySet DEF Init, CountInv
<1>2. IndInv /\ TypeOK' /\ (\A d \in Mails : CountInv(d)) /\ [Next]_vars
        => (\A d \in Mails : CountInv(d))'
  BY CountStep
<1>3. TypeOK /\ (\A d \in Mails : CountInv(d)) => CopiesAccounted
  <2> SUFFICES ASSUME TypeOK, NEW d \in Mails, CountInv(d) PROVE copies[d] <= 1 + slips[d]
    BY DEF CopiesAccounted
  <2>1. Cardinality(Senders(d)) \in Nat
    BY FS_CardinalityType DEF CountInv
  <2> QED BY <2>1 DEF CountInv, TypeOK, GhostTypes
<1> QED BY <1>1, <1>2, <1>3, Inductive, TypeCorrect, PTL DEF Spec

-----------------------------------------------------------------------------
(* OutboundSend implements DeliveryPromise.                                *)

\* setDeliveryState is the promise's Report, or tells what the row says already.
LEMMA ReportStep ==
  ASSUME TypeOK, NEW e \in Mails, NEW s \in {"accepted", "failed"}, SetDeliveryState(e, s),
         UNCHANGED <<copies, slips>>, status[e] # "none",
         slips[e] = 0 => \/ status[e] \in {"gone", s}
                         \/ status[e] = "queued" /\ (s = "accepted" <=> copies[e] > 0)
  PROVE  Promise!Next \/ UNCHANGED <<status, copies, slips>>
<1>1. status \in [Mails -> {"none", "queued", "accepted", "failed", "gone"}]
  BY DEF TypeOK, RowTypes
<1>2. CASE status[e] \in {"gone", s}
  <2>1. status' = status
    BY <1>1, <1>2 DEF SetDeliveryState
  <2> QED BY <2>1
<1>3. CASE status[e] \notin {"gone", s}
  <2>1. status' = [status EXCEPT ![e] = s] /\ status[e] \in {"queued", "accepted", "failed"}
    BY <1>1, <1>3 DEF SetDeliveryState
  <2>2. Promise!Report(e, s)
    BY <1>3, <2>1 DEF Promise!Report, Promise!Sound
  <2> QED BY <2>2 DEF Promise!Next
<1> QED BY <1>2, <1>3

\* A slip by itself is the promise's LoseTrack.
LEMMA SlipStep ==
  ASSUME NEW e \in Mails, Slip(e), UNCHANGED <<status, copies>>
  PROVE  Promise!Next
BY DEF Slip, Promise!LoseTrack, Promise!Next

LEMMA MailStepPromise ==
  ASSUME IndInv, NEW e \in Mails, MailStep(e)
  PROVE  Promise!Next \/ UNCHANGED <<status, copies, slips>>
<1>1. TypeOK /\ ProducerInv(e) /\ CopyInv(e)
  BY DEF IndInv, RowInv
<1>2. CASE StoreRow(e)
  BY <1>1, <1>2 DEF StoreRow, ProducerInv, ghosts, Promise!Write, Promise!Next
<1>3. CASE RecordEnqueueFailure(e)
  <2>1. UNCHANGED <<copies, slips>> /\ request[e] = "recordFailure"
    BY <1>3 DEF RecordEnqueueFailure, ghosts
  <2>2. status[e] # "none"
    BY <1>1, <2>1 DEF ProducerInv
  <2>3. slips[e] = 0 => copies[e] = 0
    BY <1>1, <2>1 DEF ProducerInv, Unsent
  <2>4. slips[e] = 0 => status[e] # "accepted"
    BY <1>1, <2>3 DEF CopyInv
  <2>5. status[e] \in {"queued", "failed", "accepted", "gone"}
    BY <1>1, <2>2 DEF TypeOK, RowTypes
  <2>6. CASE SetDeliveryState(e, "failed")
    BY <1>1, <2>1, <2>2, <2>3, <2>4, <2>5, <2>6, ReportStep
  <2> QED BY <1>3, <2>1, <2>6 DEF RecordEnqueueFailure, rowVars
<1>4. CASE DeleteRow(e)
  BY <1>4 DEF DeleteRow, ghosts, Promise!Delete, Promise!Next
<1>5. CASE Enqueue(e)
  BY <1>5, SlipStep DEF Enqueue, rowVars
<1>6. CASE LeaseOverrun(e)
  BY <1>6, SlipStep DEF LeaseOverrun, ReleaseOutboundSendClaim
<1>7. CASE Stage(e) \/ NoteQueued(e) \/ Unstage(e) \/ RequestDies(e) \/ ThresholdPasses(e)
           \/ LeaseExpires(e)
  BY <1>7 DEF Stage, NoteQueued, MarkQueued, Unstage, RequestDies, ThresholdPasses, LeaseExpires,
     ReleaseOutboundSendClaim, rowVars, ghosts
<1> QED BY <1>2, <1>3, <1>4, <1>5, <1>6, <1>7 DEF MailStep, Produce

LEMMA WorkerStepPromise ==
  ASSUME IndInv, NEW w \in Workers, WorkerStep(w)
  PROVE  Promise!Next \/ UNCHANGED <<status, copies, slips>>
<1> DEFINE e == MailOf(w)
<1>1. CASE DeliverSend(w) \/ DeliverDeadLetter(w) \/ Claim(w) \/ ClaimThrows(w)
           \/ ReadPayload(w) \/ ReleaseClaim(w) \/ Clean(w)
  BY <1>1 DEF DeliverSend, DeliverDeadLetter, Claim, ClaimThrows, ReadPayload, ReleaseClaim, Clean,
     ClaimOutboundSend, ReleaseOutboundSendClaim, rowVars, ghosts
<1>2. ASSUME worker[w].pc # "idle"
      PROVE  /\ e \in Mails /\ TypeOK /\ HolderInv(e) /\ CopyInv(e)
             /\ copies[e] \in Nat /\ status[e] # "none"
  <2>1. e \in Mails /\ TypeOK
    BY <1>2, BusyFacts DEF IndInv, TypeOK
  <2>2. RowInv(e) /\ copies[e] \in Nat
    BY <2>1 DEF IndInv, TypeOK, GhostTypes
  <2>3. request[e] # "idle"
    BY <2>2 DEF RowInv, ProducerInv, Unsent
  <2> QED BY <2>1, <2>2, <2>3 DEF RowInv, ProducerInv
<1>3. ASSUME worker[w].pc \in Holding \ {"mark", "release"}, slips[e] = 0
      PROVE  status[e] \in {"queued", "gone"}
  BY <1>2, <1>3 DEF HolderInv, Holds, Holding
<1> HIDE DEF e
<1>4. ASSUME worker[w].pc = "send", copies' = [copies EXCEPT ![e] = @ + 1], UNCHANGED status,
             slips' \in {slips, [slips EXCEPT ![e] = @ + 1]}
      PROVE  Promise!Next
  <2>1. slips[e] = 0 => copies[e] = 0 /\ status[e] \in {"queued", "gone"}
    BY <1>2, <1>3, <1>4 DEF e, CopyInv, Holding
  <2>2. Promise!Transmit(e)
    BY <1>4, <2>1 DEF Promise!Transmit, Promise!Sound
  <2> QED BY <1>2, <1>4, <2>2 DEF Promise!Next
<1>5. CASE SendAccepted(w)
  BY <1>4, <1>5 DEF SendAccepted, rowVars, e
<1>6. CASE SendThrows(w)
  BY <1>4, <1>6 DEF SendThrows, rowVars, ghosts, Slip, e
<1>7. ASSUME NEW s \in {"accepted", "failed"}, SetDeliveryState(e, s), UNCHANGED <<copies, slips>>,
             \/ worker[w].pc \in {"record", "accept"} /\ s = "accepted"
             \/ worker[w].pc \in {"fail", "lost"} /\ s = "failed"
      PROVE  Promise!Next \/ UNCHANGED <<status, copies, slips>>
  <2>1. worker[w].pc \in Holding \ {"mark", "release"} /\ worker[w].pc # "idle"
    BY <1>7 DEF Holding
  <2>2. slips[e] = 0 => status[e] = "gone" \/ (s = "accepted" <=> copies[e] > 0)
    BY <1>2, <1>7, <2>1 DEF CopyInv, e
  <2> QED BY <1>2, <1>3, <1>7, <2>1, <2>2, ReportStep
<1>8. CASE Record(w)
  BY <1>7, <1>8 DEF Record, rowVars, ghosts, e
<1>9. CASE Settle(w)
  BY <1>7, <1>9 DEF Settle, rowVars, ghosts, e
<1>10. CASE MarkAccepted(w) \/ ReadThrows(w) \/ WorkerDies(w)
  BY <1>2, <1>10, SlipStep DEF MarkAccepted, ReadThrows, WorkerDies, rowVars, ghosts, e
<1> QED BY <1>1, <1>5, <1>6, <1>8, <1>9, <1>10 DEF WorkerStep, Consume

LEMMA SweepPromise ==
  ASSUME IndInv, Sweep \/ AlarmFires \/ Wake
  PROVE  Promise!Next \/ UNCHANGED <<status, copies, slips>>
<1> DEFINE e == sweep.row.mail
<1>1. TypeOK /\ SweepTypes
  BY DEF IndInv, TypeOK
<1>2. CASE AlarmFires \/ SweepEnds \/ Wake \/ SweepSend \/ SweepClean
  BY <1>2 DEF AlarmFires, SweepEnds, Wake, SweepSend, SweepClean, rowVars, ghosts
<1>3. CASE SweepRow
  BY <1>3 DEF SweepRow, SweepStamp, SweepWait, SweepReenqueue, SweepGiveUp, MarkQueued,
     ClaimOutboundSend, rowVars, ghosts
<1>4. CASE SweepRead
  <2>1. e \in Mails
    BY <1>1, <1>4, SweepFacts DEF SweepRead
  <2> QED BY <1>4, <2>1, SlipStep DEF SweepRead, rowVars
<1>5. CASE SweepSettle
  <2>1. sweep.pc = "settle" /\ e \in Mails /\ UNCHANGED <<copies, slips>>
    BY <1>1, <1>5, SweepFacts DEF SweepSettle, ghosts
  <2>2. RowInv(e)
    BY <2>1 DEF IndInv
  <2>3. status[e] # "none"
    BY <2>1, <2>2 DEF RowInv, ProducerInv
  <2>4. slips[e] = 0 => \/ status[e] = "gone"
                        \/ status[e] = "queued" /\ (sweep.accepted <=> copies[e] > 0)
    BY <2>1, <2>2 DEF RowInv, HolderInv, SweepHolds, CopyInv
  <2>5. PICK s \in {"accepted", "failed"} :
          /\ s = "accepted" <=> sweep.accepted
          /\ SetDeliveryState(e, s) \/ ReleaseOutboundSendClaim(e)
    BY <1>5 DEF SweepSettle
  <2> HIDE DEF e
  <2>6. CASE SetDeliveryState(e, s)
    BY <1>1, <2>1, <2>3, <2>4, <2>5, <2>6, ReportStep
  <2> QED BY <2>1, <2>5, <2>6 DEF ReleaseOutboundSendClaim
<1> QED BY <1>2, <1>3, <1>4, <1>5 DEF Sweep

\* Any number of consumers, duplicates, retries, dead letters and sweeps keep the
\* promise of DeliveryPromise: one transmission and one truthful settlement.
THEOREM Implements == Spec => KeepsPromise
<1>1. Init => Promise!Init
  BY DEF Init, Promise!Init
<1>2. IndInv /\ [Next]_vars => [Promise!Next]_(Promise!vars)
  <2> SUFFICES ASSUME IndInv, [Next]_vars
               PROVE  Promise!Next \/ UNCHANGED <<status, copies, slips>>
    BY DEF Promise!vars
  <2>1. CASE LoseMessage \/ UNCHANGED vars
    BY <2>1 DEF LoseMessage, vars, rowVars, ghosts
  <2> QED BY <2>1, MailStepPromise, WorkerStepPromise, SweepPromise DEF Next
<1> QED BY <1>1, <1>2, Inductive, PTL DEF Spec, KeepsPromise, Promise!Spec

=============================================================================
