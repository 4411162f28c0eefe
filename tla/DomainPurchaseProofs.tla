----------------------- MODULE DomainPurchaseProofs -----------------------
(***************************************************************************)
(* Theorems about DomainPurchase, for any number of sessions, invocations  *)
(* and faults.                                                             *)
(*                                                                         *)
(* OuterInv ties Stripe, the checkout requests and the events together and *)
(* always holds.  SafeInv is about the invocations and holds while no      *)
(* session was handled in two ways at once: what an invocation may still   *)
(* do to its session (CopyInv, OutcomeInv), why it may buy (HoldInv), and  *)
(* what the stores then say of each session (SessionInv).  OursInv builds  *)
(* on both: once the domain is bought its session is due its setup, with   *)
(* the row, its event and no refund on the way (Due), until it is owned.   *)
(***************************************************************************)
EXTENDS DomainPurchase, TLAPS

Beginning == {"idle", "hold", "move", "cancelOld", "create"}

\* A Checkout Session is created once and paid only when its request is done; what
\* is paid, and only that, has paid events and refunds; a session that was
\* replaced has expired.
CheckoutInv(s) ==
  /\ request[s].pc \in Beginning => stripe[s] = "none"
  /\ stripe[s] \in {"delayed", "paid", "failed"} => request[s].pc = "done"
  /\ request[s].pc \in {"move", "cancelOld"} =>
       request[s].old \in Sessions /\ stripe[request[s].old] = "expired"
  /\ Event(s, "paid") \in events => stripe[s] = "paid"
  /\ s \in refunded => stripe[s] = "paid"

\* Each kind of event has its handler, and only paid sessions have paid events.
KindInv(a) ==
  LET pc == attempt[a].pc
      kind == attempt[a].kind
  IN /\ pc \in Fulfilling \cup Refunding => kind = "paid"
     /\ pc \in Awaiting => kind = "unpaid"
     /\ pc \in Ending => kind \in {"failed", "expired"}
     /\ pc # "idle" /\ kind = "paid" => stripe[Serves[a]] = "paid"

OuterInv == (\A s \in Sessions : CheckoutInv(s)) /\ \A a \in Attempts : KindInv(a)

\* The invocations of a session are in one handler.
SameHandler ==
  \A a, b \in Attempts : Serves[a] = Serves[b] =>
    /\ attempt[a].pc \in Fulfilling => attempt[b].pc \in Fulfilling \cup Quiet
    /\ attempt[a].pc \in Refunding => attempt[b].pc \in Refunding \cup Quiet
    /\ attempt[a].pc \in Awaiting => attempt[b].pc \in Awaiting \cup Quiet
    /\ attempt[a].pc \in Ending => attempt[b].pc \in Ending \cup Quiet

\* The record an invocation keeps in memory, and will save.
CopyInv(a) ==
  LET pc == attempt[a].pc
      rec == attempt[a].rec
      s == Serves[a]
  IN /\ pc \in Fulfilling \cup Refunding \cup Awaiting \cup {"endSave"} => ~Handled(rec)
     /\ pc \in Fulfilling => ~rec.terminal
     /\ pc \in Awaiting \cup {"endSave"} /\ s \in refunded => rec.terminal
     /\ pc \in {"refund", "saveRefunded"} => rec.terminal
     /\ pc \in Refunding /\ rec.terminal => record[s].terminal

\* Which outcome an invocation is on the way to.
OutcomeInv(a) ==
  LET pc == attempt[a].pc
      s == Serves[a]
  IN /\ pc \in Fulfilling => s \notin refunded
     /\ pc \in {"noteTerminal", "refund", "saveRefunded", "letGo"} => metadata # s
     /\ pc \in {"saveRefunded", "letGo"} => s \in refunded
     /\ pc \in {"saveReady", "release"} => metadata = s
     /\ pc = "answer" /\ attempt[a].kind = "paid" => metadata = s \/ s \in refunded

Claimed == Provisioning \cup {"reread", "rereadMetadata"}

\* An invocation that buys has the row, or its session has the domain already.
HoldInv(a) ==
  LET pc == attempt[a].pc
      s == Serves[a]
  IN /\ pc \in Claimed =>
          (row.status = "provisioning" /\ row.session = s) \/ metadata = s
     /\ pc \in Provisioning => metadata \in {NoOne, s}

SessionInv(s) ==
  /\ s \in refunded => record[s].terminal /\ metadata # s
  /\ record[s].status = "refunded" => s \in refunded
  /\ record[s].status = "ready" => metadata = s
  /\ stripe[s] = "paid" => Event(s, "paid") \in events \/ metadata = s \/ s \in refunded

SafeInv ==
  /\ SameHandler
  /\ \A a \in Attempts : CopyInv(a) /\ OutcomeInv(a) /\ HoldInv(a)
  /\ \A s \in Sessions : SessionInv(s)

IndInv == TypeOK /\ OuterInv /\ (torn = {} => SafeInv)

-----------------------------------------------------------------------------
(* How an invocation moves.                                                *)

AttemptRecords == [pc : Pcs, kind : EventKinds \cup {"none"}, rec : Records]

\* What an invocation may be about to do.
LEMMA PcSets ==
  /\ Fulfilling \subseteq Pcs /\ Refunding \subseteq Pcs /\ Awaiting \subseteq Pcs
  /\ Ending \subseteq Pcs /\ Quiet \subseteq Pcs
BY DEF Pcs

\* Constants of the model have the shapes of the stores.
LEMMA Shapes ==
  /\ NoRow \in Rows /\ NoRecord \in Records /\ Idle \in AttemptRecords
  /\ \A s \in Sessions : TypeOK => Loaded(s) \in Records
<1>1. NoRow \in Rows /\ NoRecord \in Records
  BY DEF NoRow, Rows, NoRecord, Records
<1>2. Idle \in AttemptRecords
  BY <1>1, PcSets DEF Idle, AttemptRecords, Quiet
<1>3. [NoRecord EXCEPT !.status = "pending"] \in Records
  BY DEF NoRecord, Records
<1>4. ASSUME NEW s \in Sessions, TypeOK PROVE Loaded(s) \in Records
  BY <1>3, <1>4 DEF Loaded, TypeOK
<1> QED
  BY <1>1, <1>2, <1>4

\* The table of invocations after one of them goes on.
LEMMA Goes ==
  ASSUME TypeOK, NEW a \in Attempts, NEW pc, NEW rec, GoWith(a, pc, rec)
  PROVE  /\ \A b \in Attempts \ {a} : attempt'[b] = attempt[b]
         /\ attempt'[a].pc = pc /\ attempt'[a].rec = rec
         /\ attempt'[a].kind = attempt[a].kind
         /\ pc \in Pcs /\ rec \in Records => attempt' \in [Attempts -> AttemptRecords]
BY DEF TypeOK, GoWith, AttemptRecords

\* The table after an answer 200.
LEMMA Answers ==
  ASSUME TypeOK, NEW a \in Attempts, Answer200(a)
  PROVE  /\ \A b \in Attempts \ {a} : attempt'[b] = attempt[b]
         /\ attempt'[a].pc = "answer" /\ attempt'[a].kind = attempt[a].kind
         /\ attempt' \in [Attempts -> AttemptRecords] /\ torn' = torn
BY PcSets, Shapes DEF TypeOK, Answer200, AttemptRecords, Quiet

\* The table after any other answer, a crash or the end.
LEMMA Stops ==
  ASSUME TypeOK, NEW a \in Attempts, AnswerRetry(a)
  PROVE  /\ \A b \in Attempts \ {a} : attempt'[b] = attempt[b]
         /\ attempt'[a] = Idle
         /\ attempt' \in [Attempts -> AttemptRecords] /\ torn' = torn
BY Shapes DEF TypeOK, AnswerRetry, AttemptRecords

\* A step is torn only into a handler that another invocation of the session is not in.
LEMMA Tearing ==
  ASSUME TypeOK, NEW a \in Attempts, NEW pc, NEW rec, GoWith(a, pc, rec)
  PROVE  /\ torn' \subseteq Sessions
         /\ torn' = {} => torn = {} /\ ~Tears(a, pc)
BY Names DEF TypeOK, GoWith

\* A step into a handler that tears nothing keeps the invocations together.
LEMMA Together ==
  ASSUME TypeOK, SameHandler, NEW a \in Attempts, NEW pc \in Pcs, ~Tears(a, pc),
         attempt'[a].pc = pc, \A b \in Attempts \ {a} : attempt'[b] = attempt[b]
  PROVE  SameHandler'
<1>1. \A h \in Handlers : pc \in h =>
        \A b \in Attempts \ {a} : Serves[b] = Serves[a] => attempt[b].pc \in h \cup Quiet
  BY DEF Tears
<1>2. /\ pc \in Fulfilling => \A b \in Attempts \ {a} :
           Serves[b] = Serves[a] => attempt[b].pc \in Fulfilling \cup Quiet
      /\ pc \in Refunding => \A b \in Attempts \ {a} :
           Serves[b] = Serves[a] => attempt[b].pc \in Refunding \cup Quiet
      /\ pc \in Awaiting => \A b \in Attempts \ {a} :
           Serves[b] = Serves[a] => attempt[b].pc \in Awaiting \cup Quiet
      /\ pc \in Ending => \A b \in Attempts \ {a} :
           Serves[b] = Serves[a] => attempt[b].pc \in Ending \cup Quiet
  BY <1>1 DEF Handlers
<1>. DEFINE All == Fulfilling \cup Refunding \cup Awaiting \cup Ending \cup Quiet
<1>3. Pcs = All
  BY DEF Pcs
<1>4. \A b \in Attempts : attempt[b].pc \in All
  BY <1>3 DEF TypeOK
<1> HIDE DEF Fulfilling, Refunding, Awaiting, Ending, Quiet
<1>5. /\ Fulfilling \cap Refunding = {} /\ Fulfilling \cap Awaiting = {} /\ Fulfilling \cap Ending = {}
      /\ Refunding \cap Awaiting = {} /\ Refunding \cap Ending = {} /\ Awaiting \cap Ending = {}
      /\ \A h \in {Fulfilling, Refunding, Awaiting, Ending} : h \cap Quiet = {}
  BY DEF Fulfilling, Provisioning, Refunding, Awaiting, Ending, Quiet
<1>6. ASSUME NEW b \in Attempts, NEW c \in Attempts, Serves[b] = Serves[c]
      PROVE  /\ attempt'[b].pc \in Fulfilling => attempt'[c].pc \in Fulfilling \cup Quiet
             /\ attempt'[b].pc \in Refunding => attempt'[c].pc \in Refunding \cup Quiet
             /\ attempt'[b].pc \in Awaiting => attempt'[c].pc \in Awaiting \cup Quiet
             /\ attempt'[b].pc \in Ending => attempt'[c].pc \in Ending \cup Quiet
  <2>1. CASE b # a /\ c # a
    BY <1>6, <2>1 DEF SameHandler
  <2>2. CASE b = a /\ c = a
    BY <2>2
  <2>3. CASE b = a /\ c # a
    BY <1>2, <1>6, <2>3
  <2>4. CASE b # a /\ c = a
    BY <1>2, <1>3, <1>4, <1>5, <1>6, <2>4
  <2> QED
    BY <2>1, <2>2, <2>3, <2>4
<1> QED
  BY <1>6 DEF SameHandler

-----------------------------------------------------------------------------
(* Types.                                                                  *)

RequestRecords == [pc : RequestPcs, old : Sessions \cup {NoOne}]

\* The count of faults.
LEMMA FaultType == ASSUME TypeOK, NEW kind, Fault(kind) PROVE faults' \in 0..MaxFaults
BY FaultBound DEF TypeOK, Fault

\* The table of requests.
LEMMA AskType ==
  ASSUME TypeOK, NEW s \in Sessions, NEW pc \in RequestPcs, Ask(s, pc)
  PROVE  request' \in [Sessions -> RequestRecords]
BY DEF TypeOK, Ask, RequestRecords

\* The table of records.
LEMMA SaveType ==
  ASSUME TypeOK, NEW s, NEW rec \in Records, Save(s, rec)
  PROVE  record' \in [Sessions -> Records]
BY DEF TypeOK, Save

\* The statements on the row.
LEMMA RowType ==
  ASSUME TypeOK, NEW s \in Sessions
  PROVE  /\ HoldForCheckout(s) => row' \in Rows
         /\ AttachCheckoutSession(s) => row' \in Rows
         /\ \A status \in {"awaiting_payment", "provisioning"} :
              ClaimForSession(s, status) => row' \in Rows
         /\ EndProvisioningLease(s) => row' \in Rows
         /\ ReleaseForSession(s) => row' \in Rows
         /\ ReleaseCheckoutHold(s) => row' \in Rows
<1>1. row \in Rows
  BY DEF TypeOK
<1>2. HoldForCheckout(s) => row' \in Rows
  BY DEF HoldForCheckout, NoRow, Rows
<1>3. AttachCheckoutSession(s) => row' \in Rows
  BY <1>1 DEF AttachCheckoutSession, Rows
<1>4. ASSUME NEW status \in {"awaiting_payment", "provisioning"}, ClaimForSession(s, status)
      PROVE  row' \in Rows
  BY <1>4 DEF ClaimForSession, NoRow, Rows
<1>5. EndProvisioningLease(s) => row' \in Rows
  BY <1>1 DEF EndProvisioningLease, Rows
<1>6. (ReleaseForSession(s) => row' \in Rows) /\ (ReleaseCheckoutHold(s) => row' \in Rows)
  BY <1>1, Shapes DEF ReleaseForSession, ReleaseCheckoutHold
<1> QED
  BY <1>2, <1>3, <1>4, <1>5, <1>6

\* Where an invocation goes next, one way or the other, its table keeps its type.
LEMMA Moved ==
  ASSUME TypeOK, NEW a \in Attempts,
         \/ \E pc \in Pcs, rec \in Records : GoWith(a, pc, rec)
         \/ Answer200(a) \/ AnswerRetry(a)
  PROVE  attempt' \in [Attempts -> AttemptRecords] /\ torn' \subseteq Sessions
BY Goes, Answers, Stops, Tearing DEF TypeOK

\* The same for a step that keeps the record in memory.
LEMMA MovedOn ==
  ASSUME TypeOK, NEW a \in Attempts, NEW pc \in Pcs, Go(a, pc)
  PROVE  attempt' \in [Attempts -> AttemptRecords] /\ torn' \subseteq Sessions
<1>1. attempt[a].rec \in Records
  BY DEF TypeOK
<1> QED
  BY <1>1, Moved DEF Go

\* Types, at the start.
LEMMA InitType == Init => TypeOK
<1>1. 0 \in 0..MaxFaults
  BY FaultBound
<1> QED
  BY <1>1, Shapes DEF Init, TypeOK, AttemptRecords, RequestPcs

\* Checkout requests, buyers and the world.
LEMMA RequestTypes ==
  ASSUME TypeOK, NEW s \in Sessions, Checkout(s) \/ Buyer(s)
  PROVE  TypeOK'
<1> USE DEF RequestPcs, EventKinds
<1>a. \A kind \in EventKinds, t \in Sessions : Event(t, kind) \in [session : Sessions, kind : EventKinds]
  BY DEF Event
<1>1. CASE CheckFree(s)
  BY <1>1, AskType DEF CheckFree, stores, world, TypeOK, RequestRecords
<1>2. CASE Hold(s)
  BY <1>2, AskType, RowType DEF Hold, world, TypeOK, RequestRecords
<1>3. CASE ExpireOld(s)
  BY <1>3, <1>a DEF ExpireOld, stores, TypeOK
<1>4. CASE MoveHold(s)
  BY <1>4, AskType, RowType DEF MoveHold, world, TypeOK, RequestRecords
<1>5. CASE CancelOld(s)
  <2>1. [NoRecord EXCEPT !.status = "canceled"] \in Records
    BY DEF NoRecord, Records
  <2> QED
    BY <1>5, <2>1, AskType, SaveType DEF CancelOld, world, TypeOK, RequestRecords
<1>6. CASE CreateSession(s)
  BY <1>6, AskType, RowType, FaultType DEF CreateSession, NoFault, TypeOK, RequestRecords
<1>7. ASSUME AbortCheckout(s)
      PROVE  /\ stripe' \in [Sessions -> {"none", "open", "delayed", "paid", "failed", "expired"}]
             /\ events' \subseteq [session : Sessions, kind : EventKinds]
             /\ row' \in Rows /\ record' \in [Sessions -> Records]
             /\ request' \in [Sessions -> RequestRecords]
  BY <1>7, <1>a, AskType, RowType DEF AbortCheckout, TypeOK
<1>8. CASE Attach(s)
  BY <1>7, <1>8, AskType, RowType, FaultType DEF Attach, NoFault, TypeOK, RequestRecords
<1>9. CASE SaveCheckout(s)
  <2>1. [NoRecord EXCEPT !.status = "pending"] \in Records
    BY DEF NoRecord, Records
  <2> QED
    BY <1>7, <1>9, <2>1, AskType, SaveType, FaultType DEF SaveCheckout, NoFault, TypeOK, RequestRecords
<1>10. CASE Abandon(s)
  BY <1>10, <1>a, AskType DEF Abandon, stores, TypeOK, RequestRecords
<1>11. CASE DropHold(s)
  BY <1>11, AskType, RowType DEF DropHold, world, TypeOK, RequestRecords
<1>12. CASE CloseRecord(s)
  <2>1. [record[s] EXCEPT !.status = "canceled"] \in Records
    BY DEF TypeOK, Records
  <2> QED
    BY <1>12, <2>1, AskType, SaveType DEF CloseRecord, world, TypeOK, RequestRecords
<1>13. CASE RequestDies(s)
  BY <1>13, AskType, FaultType DEF RequestDies, stores, world, TypeOK, RequestRecords
<1>14. CASE Buyer(s)
  BY <1>14, <1>a DEF Buyer, AtStripe, stores, TypeOK
<1> QED
  BY <1>1, <1>2, <1>3, <1>4, <1>5, <1>6, <1>8, <1>9, <1>10, <1>11, <1>12, <1>13, <1>14 DEF Checkout

\* Webhook invocations.
LEMMA WorkTypes ==
  ASSUME TypeOK, NEW a \in Attempts,
         Work(a) \/ CallFails(a) \/ Dies(a) \/ \E kind \in EventKinds : Deliver(a, kind)
  PROVE  TypeOK'
<1> USE Names DEF AttemptRecords
<1>a. Serves[a] \in Sessions /\ attempt[a].rec \in Records
  BY DEF TypeOK
<1>b. Loaded(Serves[a]) \in Records
  BY <1>a, Shapes
<1>p. /\ Fulfilling \subseteq Pcs /\ Refunding \subseteq Pcs /\ Provisioning \subseteq Pcs
      /\ {"awaitClaim", "awaitSave", "endSave", "endRelease"} \subseteq Pcs
  BY PcSets DEF Fulfilling, Awaiting, Ending
<1>q. /\ {"readMetadata", "claim", "holder", "reread", "rereadMetadata", "giveUp", "register",
           "lookupTaken", "lookupError", "noteBought", "setUp", "saveMetadata", "saveReady",
           "release"} \subseteq Pcs
      /\ {"giveBack", "lastCheck", "ownerCheck", "noteTerminal", "refund", "saveRefunded",
           "letGo"} \subseteq Pcs
  BY <1>p DEF Fulfilling, Provisioning, Refunding
<1>r. \A pc \in Pcs : Go(a, pc) => attempt' \in [Attempts -> AttemptRecords] /\ torn' \subseteq Sessions
  BY MovedOn
<1>s. \A pc \in Pcs, rec \in Records :
        GoWith(a, pc, rec) => attempt' \in [Attempts -> AttemptRecords] /\ torn' \subseteq Sessions
  BY Moved
<1>t. Answer200(a) \/ AnswerRetry(a) => attempt' \in [Attempts -> AttemptRecords] /\ torn' \subseteq Sessions
  BY Moved
<1> HIDE DEF AttemptRecords
<1>1. CASE ReadRecord(a)
  BY <1>1, <1>a, <1>b, <1>p, <1>q, <1>s, <1>t, RowType DEF ReadRecord, world, TypeOK, AttemptRecords
<1>2. CASE ReadMetadata(a) \/ LookAtHolder(a) \/ RereadMetadata(a) \/ LookUp(a) \/ LastCheck(a) \/ OwnerCheck(a)
  BY <1>2, <1>q, <1>r, <1>t DEF ReadMetadata, LookAtHolder, RereadMetadata, LookUp, LastCheck,
     OwnerCheck, Owned, stores, world, TypeOK, AttemptRecords
<1>3. CASE Claim(a) \/ Release(a) \/ GiveUp(a) \/ LetGo(a) \/ AwaitClaim(a)
  BY <1>3, <1>a, <1>p, <1>q, <1>r, <1>t, RowType DEF Claim, Release, GiveUp, LetGo, AwaitClaim, world,
     TypeOK, AttemptRecords
<1>4. CASE Reread(a)
  BY <1>4, <1>a, <1>b, <1>q, <1>s, <1>t, RowType DEF Reread, world, TypeOK, AttemptRecords
<1>5. CASE Register(a)
  BY <1>5, <1>q, <1>r, FaultType DEF Register, NoFault, stores, TypeOK, AttemptRecords
<1>6. CASE NoteBought(a) \/ NoteTerminal(a)
  <2>1. /\ [attempt[a].rec EXCEPT !.bought = TRUE, !.status = "provisioning"] \in Records
        /\ [attempt[a].rec EXCEPT !.terminal = TRUE] \in Records
    BY <1>a DEF Records
  <2> QED
    BY <1>6, <2>1, <1>q, <1>s, SaveType DEF NoteBought, NoteTerminal, world, TypeOK, AttemptRecords
<1>7. CASE SetUp(a) \/ SaveMetadata(a)
  BY <1>7, <1>a, <1>q, <1>r, SaveType DEF SetUp, SaveMetadata, world, TypeOK, AttemptRecords
<1>8. CASE SaveReady(a) \/ SaveRefunded(a) \/ AwaitSave(a) \/ EndSave(a)
  <2>1. \A status \in {"ready", "refunded", "awaiting_payment", "failed", "canceled"} :
          [attempt[a].rec EXCEPT !.status = status] \in Records
    BY <1>a DEF Records
  <2> QED
    BY <1>8, <2>1, <1>p, <1>q, <1>r, <1>t, SaveType DEF SaveReady, SaveRefunded, AwaitSave, EndSave,
       world, TypeOK, AttemptRecords
<1>9. CASE Refund(a)
  BY <1>9, <1>a, <1>q, <1>r, <1>t, FaultType DEF Refund, NoFault, stores, TypeOK, AttemptRecords
<1>10. CASE Acknowledge(a) \/ Dies(a)
  BY <1>10, <1>t, FaultType DEF Acknowledge, Dies, stores, world, TypeOK, AttemptRecords
<1>11. CASE CallFails(a)
  BY <1>11, <1>q, <1>r, FaultType DEF CallFails, stores, world, TypeOK, AttemptRecords
<1>12. ASSUME NEW kind \in EventKinds, Deliver(a, kind) PROVE TypeOK'
  <2>1. [Idle EXCEPT !.pc = "start", !.kind = kind] \in AttemptRecords
    BY Shapes, PcSets DEF Idle, AttemptRecords, Quiet
  <2> QED
    BY <1>12, <2>1 DEF Deliver, stores, world, TypeOK, AttemptRecords
<1> QED
  BY <1>1, <1>2, <1>3, <1>4, <1>5, <1>6, <1>7, <1>8, <1>9, <1>10, <1>11, <1>12 DEF Work

\* Types, in any step.
LEMMA TypeStep == TypeOK /\ [Next]_vars => TypeOK'
<1> SUFFICES ASSUME TypeOK, [Next]_vars PROVE TypeOK'
  OBVIOUS
<1>1. CASE Lapse
  <2>1. [row EXCEPT !.lapsed = TRUE] \in Rows
    BY DEF TypeOK, Rows
  <2> QED
    BY <1>1, <2>1 DEF Lapse, world, TypeOK
<1>2. CASE SoldElsewhere
  BY <1>2 DEF SoldElsewhere, stores, TypeOK
<1>3. CASE UNCHANGED vars
  BY <1>3 DEF vars, stores, world, TypeOK
<1> QED
  BY <1>1, <1>2, <1>3, RequestTypes, WorkTypes DEF Next

\* Every variable holds values of its kind, whatever requests, buyers and
\* invocations do.
THEOREM TypeCorrect == Spec => []TypeOK
BY InitType, TypeStep, PTL DEF Spec

-----------------------------------------------------------------------------
(* Stripe, requests and events.                                            *)

\* At the start nothing has happened at Stripe.
LEMMA InitOuter == Init => OuterInv
BY DEF Init, OuterInv, CheckoutInv, KindInv, Idle, Fulfilling, Provisioning, Refunding, Awaiting,
       Ending, Event

\* A session that is paid stays paid, and nothing else gets paid events.
LEMMA RequestsOuter ==
  ASSUME TypeOK, OuterInv, NEW s \in Sessions, Checkout(s) \/ Buyer(s)
  PROVE  OuterInv'
<1> USE DEF OuterInv, CheckoutInv, Beginning, Event
<1>k. ASSUME UNCHANGED attempt, \A t \in Sessions : stripe[t] = "paid" => stripe'[t] = "paid"
      PROVE  \A a \in Attempts : KindInv(a)'
  BY <1>k, Names DEF KindInv
<1> HIDE DEF KindInv
<1>s. stripe[s] \notin {"delayed", "paid", "failed"} \/ request[s].pc = "done"
  OBVIOUS
<1>1. CASE CheckFree(s)
  BY <1>1, <1>k DEF CheckFree, Ask, world, TypeOK
<1>2. CASE Hold(s)
  BY <1>2, <1>k DEF Hold, Ask, world, TypeOK
<1>3. CASE ExpireOld(s)
  BY <1>3, <1>k DEF ExpireOld, TypeOK
<1>4. CASE MoveHold(s)
  BY <1>4, <1>k DEF MoveHold, Ask, world, TypeOK
<1>5. CASE CancelOld(s)
  BY <1>5, <1>k DEF CancelOld, Ask, world, TypeOK
<1>6. CASE CreateSession(s)
  <2>1. request[s].pc = "create" /\ UNCHANGED <<refunded, events, attempt>>
    BY <1>6 DEF CreateSession
  <2>2. stripe[s] = "none"
    BY <2>1
  <2>3. /\ request'[s].pc \in {"attach", "over"} /\ stripe'[s] \in {"none", "open"}
        /\ \A t \in Sessions \ {s} : request'[t] = request[t] /\ stripe'[t] = stripe[t]
    BY <1>6, <2>2 DEF CreateSession, Ask, TypeOK
  <2>4. ASSUME NEW t \in Sessions PROVE CheckoutInv(t)'
    BY <2>1, <2>2, <2>3
  <2>5. \A t \in Sessions : stripe[t] = "paid" => stripe'[t] = "paid"
    BY <2>2, <2>3
  <2> QED
    BY <2>1, <2>4, <2>5, <1>k
<1>7. ASSUME request[s].pc \in {"attach", "save"}, AbortCheckout(s), UNCHANGED <<refunded, attempt>>
      PROVE  OuterInv'
  <2>1. \A t \in Sessions : Event(t, "paid") \in events' <=> Event(t, "paid") \in events
    <3>1. events' = events \cup {Event(s, "expired")} \/ events' = events
      BY <1>7 DEF AbortCheckout
    <3>2. \A t \in Sessions : Event(t, "paid") # Event(s, "expired")
      OBVIOUS
    <3> HIDE DEF Event
    <3> QED
      BY <3>1, <3>2
  <2>2. /\ request'[s].pc = "over" /\ stripe'[s] \in {stripe[s], "expired"}
        /\ \A t \in Sessions \ {s} : request'[t] = request[t] /\ stripe'[t] = stripe[t]
    BY <1>7 DEF AbortCheckout, Ask, TypeOK
  <2>3. stripe[s] \notin {"delayed", "paid", "failed"}
    BY <1>7, <1>s
  <2>4. ASSUME NEW t \in Sessions PROVE CheckoutInv(t)'
    BY <1>7, <2>1, <2>2, <2>3
  <2>5. \A t \in Sessions : stripe[t] = "paid" => stripe'[t] = "paid"
    BY <2>2, <2>3
  <2> QED
    BY <1>7, <2>4, <2>5, <1>k
<1>8. CASE Attach(s)
  BY <1>8, <1>7, <1>k DEF Attach, Ask, TypeOK
<1>9. CASE SaveCheckout(s)
  BY <1>9, <1>7, <1>k DEF SaveCheckout, Ask, TypeOK
<1>10. CASE Abandon(s)
  BY <1>10, <1>k DEF Abandon, Ask, TypeOK
<1>11. CASE DropHold(s) \/ CloseRecord(s) \/ RequestDies(s)
  BY <1>11, <1>k DEF DropHold, CloseRecord, RequestDies, Ask, world, TypeOK
<1>12. CASE Buyer(s)
  BY <1>12, <1>k DEF Buyer, AtStripe, TypeOK
<1> QED
  BY <1>1, <1>2, <1>3, <1>4, <1>5, <1>6, <1>8, <1>9, <1>10, <1>11, <1>12 DEF Checkout

\* What an invocation may do in one step.
Step(a) == Work(a) \/ CallFails(a) \/ Dies(a) \/ \E kind \in EventKinds : Deliver(a, kind)

\* A step of one invocation leaves the others where they are.
LEMMA OneMoves ==
  ASSUME TypeOK, NEW a \in Attempts, Step(a)
  PROVE  \A b \in Attempts \ {a} : attempt'[b] = attempt[b]
<1> DEFINE Moves == \/ \E pc, rec : GoWith(a, pc, rec)
                    \/ Answer200(a) \/ AnswerRetry(a)
<1>1. CASE Moves
  BY <1>1, Goes, Answers, Stops
<1>2. ASSUME NEW kind \in EventKinds, Deliver(a, kind)
      PROVE  \A b \in Attempts \ {a} : attempt'[b] = attempt[b]
  BY <1>2 DEF Deliver, TypeOK
<1>3. CASE ReadRecord(a) \/ Reread(a)
  BY <1>1, <1>3 DEF ReadRecord, Reread
<1>4. CASE ReadMetadata(a) \/ LookAtHolder(a) \/ RereadMetadata(a) \/ LookUp(a) \/ LastCheck(a)
           \/ OwnerCheck(a) \/ Claim(a) \/ Release(a) \/ GiveUp(a) \/ LetGo(a) \/ AwaitClaim(a)
  BY <1>1, <1>4 DEF ReadMetadata, LookAtHolder, RereadMetadata, LookUp, LastCheck, OwnerCheck, Owned,
     Claim, Release, GiveUp, LetGo, AwaitClaim, Go
<1>5. CASE Register(a) \/ NoteBought(a) \/ NoteTerminal(a) \/ SetUp(a) \/ SaveMetadata(a) \/ SaveReady(a)
           \/ SaveRefunded(a) \/ AwaitSave(a) \/ EndSave(a) \/ Refund(a)
           \/ Acknowledge(a) \/ Dies(a) \/ CallFails(a)
  BY <1>1, <1>5 DEF Register, NoteBought, NoteTerminal, SetUp, SaveMetadata, SaveReady, SaveRefunded,
     AwaitSave, EndSave, Refund, Acknowledge, Dies, CallFails, Go
<1> QED
  BY <1>2, <1>3, <1>4, <1>5 DEF Step, Work

\* Invocations are in the handler of their event, and refund what was paid.
LEMMA WorkOuter ==
  ASSUME TypeOK, OuterInv, NEW a \in Attempts, Step(a)
  PROVE  OuterInv'
<1> DEFINE pc == attempt[a].pc
           kind == attempt[a].kind
<1>c. /\ Serves[a] \in Sessions
      /\ \A b \in Attempts \ {a} : attempt'[b] = attempt[b]
  BY Names, OneMoves
<1>1. ASSUME UNCHANGED <<request, stripe, refunded>>, events' \subseteq events,
             attempt'[a].pc = "idle" \/ (attempt'[a].kind = kind /\ pc # "idle"),
             \/ pc \in Fulfilling \cup Refunding /\ attempt'[a].pc \in Fulfilling \cup Refunding
             \/ pc \in Awaiting /\ attempt'[a].pc \in Awaiting
             \/ pc \in Ending /\ attempt'[a].pc \in Ending
             \/ attempt'[a].pc \in Quiet
      PROVE  OuterInv'
  <2>1. \A s \in Sessions : CheckoutInv(s)'
    BY <1>1 DEF OuterInv, CheckoutInv
  <2>2. ASSUME NEW b \in Attempts \ {a} PROVE KindInv(b)'
    BY <1>1, <1>c DEF OuterInv, KindInv
  <2>3. KindInv(a)'
    BY <1>1 DEF OuterInv, KindInv, Fulfilling, Provisioning, Refunding, Awaiting, Ending, Quiet
  <2> QED
    BY <2>1, <2>2, <2>3 DEF OuterInv
<1>m. \A p, rec : GoWith(a, p, rec) => attempt'[a].pc = p /\ attempt'[a].kind = kind
  BY Goes
<1>t. /\ Answer200(a) => attempt'[a].pc = "answer" /\ attempt'[a].kind = kind
      /\ AnswerRetry(a) => attempt'[a].pc = "idle"
  BY Answers, Stops DEF Idle
<1> USE DEF Fulfilling, Provisioning, Refunding, Awaiting, Ending, Quiet
<1>2. CASE ReadRecord(a)
  <2>1. /\ UNCHANGED <<request, stripe, refunded, events>> /\ pc = "start"
        /\ attempt'[a].kind = kind
    BY <1>2, <1>m, <1>t DEF ReadRecord, world
  <2>2. \/ kind = "paid" /\ attempt'[a].pc \in {"readMetadata", "lastCheck"}
        \/ kind = "unpaid" /\ attempt'[a].pc = "awaitClaim"
        \/ kind \in {"failed", "expired"} /\ attempt'[a].pc \in {"endSave", "endRelease"}
        \/ attempt'[a].pc = "answer"
    BY <1>2, <1>m, <1>t DEF ReadRecord
  <2>3. KindInv(a)'
    BY <2>1, <2>2 DEF OuterInv, KindInv
  <2>4. \A b \in Attempts \ {a} : KindInv(b)'
    BY <1>c, <2>1 DEF OuterInv, KindInv
  <2>5. \A s \in Sessions : CheckoutInv(s)'
    BY <2>1 DEF OuterInv, CheckoutInv
  <2> QED
    BY <2>3, <2>4, <2>5 DEF OuterInv
<1>3. CASE ReadMetadata(a) \/ LookAtHolder(a) \/ RereadMetadata(a) \/ LookUp(a) \/ LastCheck(a) \/ OwnerCheck(a)
  BY <1>1, <1>3, <1>m, <1>t DEF ReadMetadata, LookAtHolder, RereadMetadata, LookUp, LastCheck, OwnerCheck,
     Owned, Go, world
<1>4. CASE Claim(a) \/ Release(a) \/ GiveUp(a) \/ LetGo(a) \/ AwaitClaim(a)
  BY <1>1, <1>4, <1>m, <1>t DEF Claim, Release, GiveUp, LetGo, AwaitClaim, Go, world
<1>5. CASE Reread(a)
  BY <1>1, <1>5, <1>m, <1>t DEF Reread, world
<1>6. CASE Register(a) \/ NoteBought(a) \/ NoteTerminal(a) \/ SetUp(a) \/ SaveMetadata(a)
  BY <1>1, <1>6, <1>m, <1>t DEF Register, NoteBought, NoteTerminal, SetUp, SaveMetadata, Go, world
<1>7. CASE SaveReady(a) \/ SaveRefunded(a) \/ AwaitSave(a) \/ EndSave(a)
  BY <1>1, <1>7, <1>m, <1>t DEF SaveReady, SaveRefunded, AwaitSave, EndSave, Go, world
<1>8. CASE Acknowledge(a) \/ Dies(a) \/ CallFails(a)
  BY <1>1, <1>8, <1>m, <1>t DEF Acknowledge, Dies, CallFails, Go, world
<1>9. CASE Refund(a)
  <2>1. /\ UNCHANGED <<request, stripe, events>> /\ pc = "refund"
        /\ refunded' \in {refunded, refunded \cup {Serves[a]}}
    BY <1>9 DEF Refund
  <2>a. attempt'[a].pc = "idle" \/ (attempt'[a].pc = "saveRefunded" /\ attempt'[a].kind = kind)
    BY <1>9, <1>m, <1>t DEF Refund, Go
  <2>2. stripe[Serves[a]] = "paid"
    BY <2>1 DEF OuterInv, KindInv
  <2>3. \A s \in Sessions : CheckoutInv(s)'
    BY <2>1, <2>2 DEF OuterInv, CheckoutInv
  <2>4. \A b \in Attempts \ {a} : KindInv(b)'
    BY <1>c, <2>1 DEF OuterInv, KindInv
  <2>5. KindInv(a)'
    BY <2>1, <2>a DEF OuterInv, KindInv
  <2> QED
    BY <2>3, <2>4, <2>5 DEF OuterInv
<1>10. ASSUME NEW k \in EventKinds, Deliver(a, k) PROVE OuterInv'
  <2>1. /\ UNCHANGED <<request, stripe, events, refunded>>
        /\ attempt'[a].pc = "start" /\ attempt'[a].kind = k
        /\ Event(Serves[a], k) \in events
    BY <1>10 DEF Deliver, TypeOK, world, Idle
  <2>2. \A s \in Sessions : CheckoutInv(s)'
    BY <2>1 DEF OuterInv, CheckoutInv
  <2>3. \A b \in Attempts \ {a} : KindInv(b)'
    BY <1>c, <2>1 DEF OuterInv, KindInv
  <2>4. k = "paid" => stripe[Serves[a]] = "paid"
    BY <1>c, <2>1 DEF OuterInv, CheckoutInv
  <2>5. KindInv(a)'
    BY <2>1, <2>4 DEF KindInv
  <2> QED
    BY <2>2, <2>3, <2>5 DEF OuterInv
<1> QED
  BY <1>2, <1>3, <1>4, <1>5, <1>6, <1>7, <1>8, <1>9, <1>10 DEF Step, Work

\* OuterInv, in any step.
LEMMA OuterStep == TypeOK /\ OuterInv /\ [Next]_vars => OuterInv'
<1> SUFFICES ASSUME TypeOK, OuterInv, [Next]_vars PROVE OuterInv'
  OBVIOUS
<1>1. CASE Lapse \/ SoldElsewhere \/ UNCHANGED vars
  <2>1. UNCHANGED <<request, stripe, events, refunded, attempt>>
    BY <1>1 DEF Lapse, SoldElsewhere, vars, world
  <2> QED
    BY <2>1 DEF OuterInv, CheckoutInv, KindInv
<1> QED
  BY <1>1, RequestsOuter, WorkOuter DEF Next, Step

-----------------------------------------------------------------------------
(* While nothing is torn.                                                  *)

\* At the start no invocation runs and nothing is stored.
LEMMA InitSafe == Init => SafeInv
<1> SUFFICES ASSUME Init PROVE SafeInv
  OBVIOUS
<1>1. \A a \in Attempts : attempt[a].pc = "idle"
  BY DEF Init, Idle
<1>2. \A a \in Attempts : attempt[a].pc \notin Fulfilling \cup Refunding \cup Awaiting \cup Ending \cup Claimed
  BY <1>1 DEF Fulfilling, Provisioning, Refunding, Awaiting, Ending, Claimed
<1>3. \A a \in Attempts : CopyInv(a) /\ OutcomeInv(a) /\ HoldInv(a)
  BY <1>1, <1>2 DEF CopyInv, OutcomeInv, HoldInv, Claimed
<1>4. \A s \in Sessions : SessionInv(s)
  BY DEF Init, SessionInv, NoRecord
<1> QED
  BY <1>2, <1>3, <1>4 DEF SafeInv, SameHandler

\* Records change only of sessions not paid, and not to one that is handled.
RecordsSpared == \A t \in Sessions :
  record'[t] = record[t] \/ (stripe[t] # "paid" /\ ~Handled(record'[t]))

\* What requests and buyers leave alone.
LEMMA RequestFrame ==
  ASSUME TypeOK, OuterInv, NEW s \in Sessions, Checkout(s) \/ Buyer(s)
  PROVE  /\ UNCHANGED <<metadata, refunded, attempt, torn>>
         /\ events \subseteq events'
         /\ row.status = "provisioning" => UNCHANGED row
         /\ RecordsSpared
         /\ \A t \in Sessions : stripe'[t] = "paid" => stripe[t] = "paid" \/ Event(t, "paid") \in events'
<1> USE DEF HeldBy, MayHold, ReleaseCheckoutHold, RecordsSpared
<1>r. row.status = "provisioning" => row # NoRow
  BY DEF NoRow
<1>d. request[s].pc # "done" => stripe[s] # "paid"
  BY DEF OuterInv, CheckoutInv
<1>1. CASE CheckFree(s)
  BY <1>1 DEF CheckFree, stores, world
<1>2. CASE Hold(s)
  BY <1>2, <1>r DEF Hold, world
<1>3. CASE ExpireOld(s)
  BY <1>3 DEF ExpireOld, stores, TypeOK
<1>4. CASE MoveHold(s)
  BY <1>4 DEF MoveHold, world
<1>5. CASE CancelOld(s)
  <2>1. stripe[request[s].old] = "expired"
    BY <1>5 DEF CancelOld, OuterInv, CheckoutInv
  <2>2. ~Handled([NoRecord EXCEPT !.status = "canceled"])
    BY DEF Handled, NoRecord
  <2>3. RecordsSpared
    BY <1>5, <2>1, <2>2 DEF CancelOld, Save, TypeOK
  <2> QED
    BY <1>5, <2>3 DEF CancelOld, world
<1>6. CASE CreateSession(s)
  BY <1>6 DEF CreateSession, TypeOK
<1>7. CASE Attach(s)
  BY <1>7 DEF Attach, AbortCheckout, TypeOK
<1>8. CASE SaveCheckout(s)
  <2>1. ~Handled([NoRecord EXCEPT !.status = "pending"])
    BY DEF Handled, NoRecord
  <2>2. RecordsSpared
    BY <1>8, <1>d, <2>1 DEF SaveCheckout, AbortCheckout, Save, TypeOK
  <2> QED
    BY <1>8, <2>2 DEF SaveCheckout, AbortCheckout, TypeOK
<1>9. CASE Abandon(s) \/ DropHold(s) \/ RequestDies(s)
  BY <1>9 DEF Abandon, DropHold, RequestDies, stores, world, TypeOK
<1>10. CASE CloseRecord(s)
  <2>1. ~Handled([record[s] EXCEPT !.status = "canceled"])
    BY DEF Handled, TypeOK, Records
  <2>2. RecordsSpared
    BY <1>10, <1>d, <2>1 DEF CloseRecord, Save, TypeOK
  <2> QED
    BY <1>10, <2>2 DEF CloseRecord, world
<1>11. CASE Buyer(s)
  BY <1>11 DEF Buyer, AtStripe, stores, TypeOK
<1> QED
  BY <1>1, <1>2, <1>3, <1>4, <1>5, <1>6, <1>7, <1>8, <1>9, <1>10, <1>11 DEF Checkout

\* Requests and buyers disturb no invocation.
LEMMA RequestsSafe ==
  ASSUME TypeOK, OuterInv, SafeInv, NEW s \in Sessions, Checkout(s) \/ Buyer(s)
  PROVE  SafeInv'
<1>1. SameHandler'
  BY RequestFrame DEF SafeInv, SameHandler
<1>2. ASSUME NEW a \in Attempts PROVE CopyInv(a)' /\ OutcomeInv(a)' /\ HoldInv(a)'
  <2>1. CopyInv(a) /\ OutcomeInv(a) /\ HoldInv(a) /\ KindInv(a) /\ Serves[a] \in Sessions
    BY Names DEF SafeInv, OuterInv
  <2>2. attempt[a].pc \in Refunding => stripe[Serves[a]] = "paid"
    BY <2>1 DEF KindInv, Refunding
  <2>3. CopyInv(a)'
    BY <2>1, <2>2, RequestFrame DEF CopyInv, RecordsSpared
  <2>4. OutcomeInv(a)' /\ HoldInv(a)'
    BY <2>1, RequestFrame DEF OutcomeInv, HoldInv
  <2> QED
    BY <2>3, <2>4
<1>3. ASSUME NEW t \in Sessions PROVE SessionInv(t)'
  <2>1. SessionInv(t) /\ CheckoutInv(t)
    BY DEF SafeInv, OuterInv
  <2>2. t \in refunded => record'[t] = record[t]
    BY <2>1, RequestFrame DEF CheckoutInv, RecordsSpared
  <2> QED
    BY <2>1, <2>2, RequestFrame DEF SessionInv, Handled, RecordsSpared
<1> QED
  BY <1>1, <1>2, <1>3 DEF SafeInv

\* A step that tears nothing keeps the invocations of a session in one handler.
LEMMA StaysTogether ==
  ASSUME TypeOK, SameHandler, NEW a \in Attempts, torn' = {},
         \/ \E pc \in Pcs : \E rec : GoWith(a, pc, rec)
         \/ Answer200(a) \/ AnswerRetry(a)
  PROVE  SameHandler'
<1>1. ASSUME NEW pc \in Pcs, NEW rec, GoWith(a, pc, rec) PROVE SameHandler'
  BY <1>1, Goes, Tearing, Together
<1>2. \A pc \in Quiet : ~Tears(a, pc)
  BY DEF Tears, Handlers, Quiet, Fulfilling, Provisioning, Refunding, Awaiting, Ending
<1>3. CASE Answer200(a)
  BY <1>2, <1>3, Answers, Together, PcSets DEF Quiet
<1>4. CASE AnswerRetry(a)
  BY <1>2, <1>4, Stops, Together, PcSets DEF Quiet, Idle
<1> QED
  BY <1>1, <1>3, <1>4

\* A step of one invocation that touches neither metadata nor refunds is safe when
\* its own part is, it takes the row of no other that needs it, and it saves a
\* record that fits its session.
LEMMA StepSafe ==
  ASSUME TypeOK, SafeInv, NEW a \in Attempts, SameHandler',
         \A b \in Attempts \ {a} : attempt'[b] = attempt[b],
         UNCHANGED <<stripe, metadata, refunded>>,
         CopyInv(a)', OutcomeInv(a)', HoldInv(a)',
         \A t \in Sessions \ {Serves[a]} : record'[t] = record[t],
         record'[Serves[a]] = record[Serves[a]] \/ record'[Serves[a]].terminal
           \/ attempt[a].pc \notin Refunding \cup Quiet,
         \A t \in Sessions :
           row.status = "provisioning" /\ row.session = t =>
             \/ row'.status = "provisioning" /\ row'.session = t
             \/ metadata = t
             \/ t = Serves[a] /\ attempt[a].pc \notin Fulfilling \cup Quiet,
         \A t \in Sessions : SessionInv(t)'
  PROVE  SafeInv'
<1>1. ASSUME NEW b \in Attempts \ {a} PROVE CopyInv(b)' /\ OutcomeInv(b)' /\ HoldInv(b)'
  <2>1. CopyInv(b) /\ OutcomeInv(b) /\ HoldInv(b) /\ Serves[b] \in Sessions /\ attempt'[b] = attempt[b]
    BY Names DEF SafeInv
  <2>2. attempt[b].pc \in Refunding /\ Serves[b] = Serves[a] => attempt[a].pc \in Refunding \cup Quiet
    BY DEF SafeInv, SameHandler
  <2>3. attempt[b].pc \in Fulfilling /\ Serves[b] = Serves[a] => attempt[a].pc \in Fulfilling \cup Quiet
    BY DEF SafeInv, SameHandler
  <2>4. Claimed \subseteq Fulfilling
    BY DEF Claimed, Fulfilling
  <2>5. CopyInv(b)'
    BY <2>1, <2>2 DEF CopyInv
  <2>6. OutcomeInv(b)'
    BY <2>1 DEF OutcomeInv
  <2>7. HoldInv(b)'
    BY <2>1, <2>3, <2>4 DEF HoldInv
  <2> QED
    BY <2>5, <2>6, <2>7
<1> QED
  BY <1>1 DEF SafeInv

\* The same where the stores stay as they are.
LEMMA JustMoves ==
  ASSUME TypeOK, SafeInv, NEW a \in Attempts, SameHandler',
         \A b \in Attempts \ {a} : attempt'[b] = attempt[b],
         UNCHANGED <<stores, stripe, refunded, events>>,
         CopyInv(a)', OutcomeInv(a)', HoldInv(a)'
  PROVE  SafeInv'
<1>1. \A t \in Sessions : SessionInv(t)'
  BY DEF SafeInv, SessionInv, stores
<1>2. Serves[a] \in Sessions
  BY Names
<1> QED
  BY <1>1, <1>2, StepSafe DEF stores

\* An invocation that only goes on, with what it then has to have seen.
LEMMA GoSafe ==
  ASSUME TypeOK, SafeInv, NEW a \in Attempts, NEW pc \in Pcs, Go(a, pc), torn' = {},
         UNCHANGED <<stores, stripe, refunded, events>>,
         \/ attempt[a].pc \in Fulfilling /\ pc \in Fulfilling
         \/ attempt[a].pc \in Fulfilling \cup Refunding
             /\ pc \in {"giveBack", "lastCheck", "ownerCheck", "noteTerminal", "refund"},
         pc \in Claimed => attempt[a].pc \in Claimed,
         pc \in Provisioning => metadata \in {NoOne, Serves[a]},
         pc \notin {"saveReady", "release"},
         pc \in {"noteTerminal", "refund"} => metadata # Serves[a],
         pc = "refund" => attempt[a].rec.terminal
  PROVE  SafeInv'
<1>1. /\ attempt'[a].pc = pc /\ attempt'[a].rec = attempt[a].rec
      /\ attempt'[a].kind = attempt[a].kind
      /\ \A b \in Attempts \ {a} : attempt'[b] = attempt[b]
  BY Goes DEF Go
<1>2. SameHandler'
  BY StaysTogether DEF Go, SafeInv
<1>3. CopyInv(a) /\ OutcomeInv(a) /\ HoldInv(a)
  BY DEF SafeInv
<1>4. CopyInv(a)'
  BY <1>1, <1>3 DEF CopyInv, stores, Fulfilling, Provisioning, Refunding, Awaiting, Handled
<1>5. OutcomeInv(a)'
  BY <1>1, <1>3 DEF OutcomeInv, stores, Fulfilling, Provisioning, Refunding
<1>6. HoldInv(a)'
  BY <1>1, <1>3 DEF HoldInv, stores, Claimed, Provisioning, Refunding
<1> QED
  BY <1>1, <1>2, <1>4, <1>5, <1>6, JustMoves

\* An invocation that answers may do so at any time, if the outcome is known.
LEMMA AnswerSafe ==
  ASSUME TypeOK, SafeInv, NEW a \in Attempts, torn' = {},
         \/ AnswerRetry(a)
         \/ Answer200(a) /\ (attempt[a].kind = "paid" => metadata = Serves[a] \/ Serves[a] \in refunded),
         UNCHANGED <<stores, stripe, refunded, events>>
  PROVE  SafeInv'
<1>1. \A b \in Attempts \ {a} : attempt'[b] = attempt[b]
  BY Answers, Stops
<1>2. SameHandler'
  BY StaysTogether DEF SafeInv
<1>3. \/ attempt'[a].pc = "idle"
      \/ /\ attempt'[a].pc = "answer"
         /\ attempt'[a].kind = "paid" => metadata = Serves[a] \/ Serves[a] \in refunded
  BY Answers, Stops DEF Idle
<1>4. CopyInv(a)' /\ OutcomeInv(a)' /\ HoldInv(a)'
  BY <1>3 DEF CopyInv, OutcomeInv, HoldInv, Claimed, Fulfilling, Provisioning, Refunding, Awaiting, stores
<1> QED
  BY <1>1, <1>2, <1>4, JustMoves

Moving(a) == \/ ReadMetadata(a) \/ LookAtHolder(a) \/ RereadMetadata(a) \/ Register(a) \/ LookUp(a)
             \/ LastCheck(a) \/ OwnerCheck(a) \/ CallFails(a) \/ Dies(a)

\* Steps that read a store, or call the registrar, and go on.
LEMMA MovingSafe ==
  ASSUME TypeOK, SafeInv, NEW a \in Attempts, Moving(a), torn' = {}
  PROVE  SafeInv'
<1> DEFINE pc == attempt[a].pc
<1>p. {"claim", "lastCheck", "setUp", "register", "lookupTaken", "lookupError", "noteBought",
       "giveBack", "giveUp", "ownerCheck", "noteTerminal", "refund"} \subseteq Pcs
  BY PcSets DEF Fulfilling, Provisioning, Refunding
<1>i. CopyInv(a) /\ OutcomeInv(a) /\ HoldInv(a) /\ SessionInv(Serves[a])
  BY Names DEF SafeInv
<1>f. /\ {"readMetadata", "holder", "rereadMetadata", "register", "lookupTaken", "lookupError",
           "claim", "setUp", "noteBought", "giveUp"} \subseteq Fulfilling
      /\ {"lastCheck", "ownerCheck"} \subseteq Refunding
      /\ {"register", "lookupTaken", "lookupError", "setUp", "noteBought"} \subseteq Provisioning
      /\ Provisioning \subseteq Claimed /\ Provisioning \subseteq Fulfilling
      /\ "rereadMetadata" \in Claimed
      /\ {"claim", "lastCheck", "giveBack", "giveUp", "ownerCheck", "noteTerminal", "refund"} \cap Claimed = {}
  BY DEF Fulfilling, Provisioning, Refunding, Claimed
<1>h. pc \in Provisioning => metadata \in {NoOne, Serves[a]}
  BY <1>i DEF HoldInv
<1>1. CASE ReadMetadata(a)
  BY <1>1, <1>p, <1>f, GoSafe DEF ReadMetadata, Owned, world
<1>2. CASE LookAtHolder(a)
  BY <1>2, <1>p, <1>f, GoSafe, AnswerSafe DEF LookAtHolder, world
<1>3. CASE RereadMetadata(a)
  BY <1>3, <1>p, <1>f, GoSafe DEF RereadMetadata, Owned, world
<1>4. CASE Register(a)
  <2>1. PICK q \in {"noteBought", "lookupTaken", "lookupError"} : Go(a, q)
    BY <1>4 DEF Register
  <2>2. UNCHANGED <<stores, stripe, refunded, events>> /\ pc = "register"
    BY <1>4 DEF Register
  <2> QED
    BY <2>1, <2>2, <1>p, <1>f, <1>h, GoSafe
<1>5. CASE LookUp(a)
  <2>1. PICK q \in {"noteBought", "giveBack", "giveUp"} : Go(a, q)
    BY <1>5 DEF LookUp
  <2>2. UNCHANGED <<stores, stripe, refunded, events>> /\ pc \in {"lookupTaken", "lookupError"}
    BY <1>5 DEF LookUp, world
  <2> QED
    BY <2>1, <2>2, <1>p, <1>f, <1>h, GoSafe
<1>6. CASE LastCheck(a)
  <2>1. UNCHANGED <<stores, stripe, refunded, events>> /\ pc = "lastCheck"
    BY <1>6 DEF LastCheck, world
  <2>2. CASE record[Serves[a]].status = "ready"
    <3>1. metadata = Serves[a]
      BY <2>2, <1>i DEF SessionInv
    <3> QED
      BY <1>6, <2>1, <2>2, <3>1, AnswerSafe DEF LastCheck
  <2>3. CASE record[Serves[a]].status # "ready"
    BY <1>6, <2>1, <2>3, <1>p, <1>f, GoSafe DEF LastCheck
  <2> QED
    BY <2>2, <2>3
<1>7. CASE OwnerCheck(a)
  <2>1. UNCHANGED <<stores, stripe, refunded, events>> /\ pc = "ownerCheck"
    BY <1>7 DEF OwnerCheck, world
  <2>2. CASE metadata = Serves[a]
    BY <1>7, <2>1, <2>2, AnswerSafe DEF OwnerCheck
  <2>3. CASE metadata # Serves[a]
    <3>1. PICK q \in {"noteTerminal", "refund"} : Go(a, q) /\ (q = "refund" => attempt[a].rec.terminal)
      BY <1>7, <2>3 DEF OwnerCheck
    <3> QED
      BY <2>1, <2>3, <3>1, <1>p, <1>f, GoSafe
  <2> QED
    BY <2>2, <2>3
<1>8. CASE CallFails(a)
  BY <1>8, <1>p, <1>f, GoSafe DEF CallFails, world
<1>9. CASE Dies(a)
  BY <1>9, AnswerSafe DEF Dies, world
<1> QED
  BY <1>1, <1>2, <1>3, <1>4, <1>5, <1>6, <1>7, <1>8, <1>9 DEF Moving

\* A delivery begins.
LEMMA DeliverSafe ==
  ASSUME TypeOK, SafeInv, NEW a \in Attempts, NEW kind \in EventKinds, Deliver(a, kind)
  PROVE  SafeInv'
<1>1. /\ attempt'[a].pc = "start" /\ UNCHANGED <<stores, stripe, refunded, events>>
      /\ \A b \in Attempts \ {a} : attempt'[b] = attempt[b]
  BY DEF Deliver, TypeOK, Idle, world
<1>2. ~Tears(a, "start") /\ "start" \in Pcs
  BY PcSets DEF Tears, Handlers, Quiet, Fulfilling, Provisioning, Refunding, Awaiting, Ending
<1>3. SameHandler'
  BY <1>1, <1>2, Together DEF SafeInv
<1>4. CopyInv(a)' /\ OutcomeInv(a)' /\ HoldInv(a)'
  BY <1>1 DEF CopyInv, OutcomeInv, HoldInv, Claimed, Fulfilling, Provisioning, Refunding, Awaiting
<1> QED
  BY <1>1, <1>3, <1>4, JustMoves

\* An event ends with its payment settled.
LEMMA AcknowledgeSafe ==
  ASSUME TypeOK, SafeInv, NEW a \in Attempts, Acknowledge(a), torn' = {}
  PROVE  SafeInv'
<1>1. /\ attempt[a].pc = "answer" /\ AnswerRetry(a) /\ UNCHANGED <<stores, stripe, refunded>>
      /\ events' = events \ {Event(Serves[a], attempt[a].kind)}
  BY DEF Acknowledge, world
<1>2. attempt'[a].pc = "idle" /\ \A b \in Attempts \ {a} : attempt'[b] = attempt[b]
  BY <1>1, Stops DEF Idle
<1>3. SameHandler'
  BY <1>1, StaysTogether DEF SafeInv
<1>4. CopyInv(a)' /\ OutcomeInv(a)' /\ HoldInv(a)'
  BY <1>2 DEF CopyInv, OutcomeInv, HoldInv, Claimed, Fulfilling, Provisioning, Refunding, Awaiting
<1>5. ASSUME NEW t \in Sessions PROVE SessionInv(t)'
  <2>1. SessionInv(t) /\ OutcomeInv(a)
    BY DEF SafeInv
  <2>2. Event(t, "paid") \in events => \/ Event(t, "paid") \in events'
                                       \/ t = Serves[a] /\ attempt[a].kind = "paid"
    BY <1>1 DEF Event
  <2> QED
    BY <1>1, <2>1, <2>2 DEF SessionInv, OutcomeInv, stores
<1> QED
  BY <1>1, <1>2, <1>3, <1>4, <1>5, StepSafe, Names DEF stores

\* A step that changes at most the row, and not under another session's claim.
LEMMA RowSafe ==
  ASSUME TypeOK, SafeInv, NEW a \in Attempts, SameHandler',
         \A b \in Attempts \ {a} : attempt'[b] = attempt[b],
         UNCHANGED <<record, metadata, stripe, refunded, events>>,
         CopyInv(a)', OutcomeInv(a)', HoldInv(a)',
         \/ row' = row
         \/ row'.status = row.status /\ row'.session = row.session
         \/ row.status # "provisioning"
         \/ row.session # Serves[a] /\ row' = row
         \/ row.session = Serves[a] /\ row'.session = Serves[a] /\ row'.status = "provisioning"
         \/ row.session = Serves[a] /\ metadata = Serves[a]
         \/ row.session = Serves[a] /\ attempt[a].pc \notin Fulfilling \cup Quiet
  PROVE  SafeInv'
<1>1. \A t \in Sessions : SessionInv(t)'
  BY DEF SafeInv, SessionInv
<1>2. Serves[a] \in Sessions
  BY Names
<1>3. \A t \in Sessions :
           row.status = "provisioning" /\ row.session = t =>
             \/ row'.status = "provisioning" /\ row'.session = t
             \/ metadata = t
             \/ t = Serves[a] /\ attempt[a].pc \notin Fulfilling \cup Quiet
  OBVIOUS
<1> QED
  BY <1>1, <1>2, <1>3, StepSafe

\* Releasing one's own row and answering, once the outcome is known.
LEMMA ReleaseSafe ==
  ASSUME TypeOK, SafeInv, NEW a \in Attempts, torn' = {},
         UNCHANGED <<record, metadata, stripe, refunded, events>>,
         ReleaseForSession(Serves[a]) \/ row' = row, Answer200(a),
         attempt[a].kind = "paid" => metadata = Serves[a] \/ Serves[a] \in refunded,
         metadata = Serves[a] \/ attempt[a].pc \notin Fulfilling \cup Quiet \/ row' = row
  PROVE  SafeInv'
<1>1. /\ attempt'[a].pc = "answer" /\ attempt'[a].kind = attempt[a].kind
      /\ \A b \in Attempts \ {a} : attempt'[b] = attempt[b]
  BY Answers
<1>2. SameHandler'
  BY StaysTogether DEF SafeInv
<1>3. CopyInv(a)' /\ OutcomeInv(a)' /\ HoldInv(a)'
  BY <1>1 DEF CopyInv, OutcomeInv, HoldInv, Claimed, Fulfilling, Provisioning, Refunding, Awaiting
<1> QED
  BY <1>1, <1>2, <1>3, RowSafe DEF ReleaseForSession

OnRow(a) == Claim(a) \/ Release(a) \/ GiveUp(a) \/ LetGo(a) \/ AwaitClaim(a)

\* Claims and releases.
LEMMA OnRowSafe ==
  ASSUME TypeOK, OuterInv, SafeInv, NEW a \in Attempts, OnRow(a), torn' = {}
  PROVE  SafeInv'
<1> DEFINE pc == attempt[a].pc
           s == Serves[a]
<1>i. CopyInv(a) /\ OutcomeInv(a) /\ HoldInv(a) /\ KindInv(a) /\ s \in Sessions /\ s # NoOne
  BY Names DEF SafeInv, OuterInv
<1>1. CASE Claim(a)
  <2>1. /\ pc = "claim" /\ UNCHANGED <<record, metadata, stripe, refunded, events>>
        /\ \/ MayClaim(s) /\ ClaimForSession(s, "provisioning") /\ Go(a, "reread")
           \/ row' = row /\ Go(a, "holder")
    BY <1>1 DEF Claim, world
  <2>2. PICK q \in {"reread", "holder"} : Go(a, q) /\ (q = "holder" => row' = row)
    BY <2>1
  <2>3. /\ attempt'[a].pc = q /\ attempt'[a].rec = attempt[a].rec
        /\ \A b \in Attempts \ {a} : attempt'[b] = attempt[b]
    BY <2>2, Goes DEF Go
  <2>4. q \in Pcs
    BY PcSets DEF Fulfilling
  <2>5. SameHandler'
    BY <2>2, <2>4, StaysTogether DEF SafeInv, Go
  <2>6. CopyInv(a)' /\ OutcomeInv(a)'
    BY <1>i, <2>1, <2>3 DEF CopyInv, OutcomeInv, Fulfilling, Provisioning, Refunding, Awaiting, Handled
  <2>a. q = "reread" => MayClaim(s) /\ ClaimForSession(s, "provisioning")
    BY <2>1, <2>3, Goes DEF Go
  <2>b. ClaimForSession(s, "provisioning") => row'.status = "provisioning" /\ row'.session = s
    BY DEF ClaimForSession, NoRow
  <2>7. q = "reread" => row'.status = "provisioning" /\ row'.session = s
    BY <2>a, <2>b
  <2>8. HoldInv(a)'
    BY <2>3, <2>7 DEF HoldInv, Claimed, Provisioning
  <2>9. q = "reread" => row.status # "provisioning" \/ row.session = s
    BY <2>a DEF MayClaim, NoRow
  <2> QED
    BY <2>1, <2>2, <2>3, <2>5, <2>6, <2>7, <2>8, <2>9, RowSafe
<1>2. CASE Release(a)
  <2>1. pc = "release" /\ metadata = s
    BY <1>2, <1>i DEF Release, OutcomeInv
  <2> QED
    BY <1>2, <2>1, ReleaseSafe DEF Release, world
<1>3. CASE GiveUp(a)
  <2>1. /\ pc \in {"giveUp", "giveBack"} /\ UNCHANGED <<record, metadata, stripe, refunded, events>>
        /\ row'.status = row.status /\ row'.session = row.session
    BY <1>3 DEF GiveUp, world, EndProvisioningLease, TypeOK, Rows
  <2>2. AnswerRetry(a) \/ (pc = "giveBack" /\ Go(a, "lastCheck"))
    BY <1>3, <2>1 DEF GiveUp
  <2>3. SameHandler'
    BY <2>2, PcSets, StaysTogether DEF SafeInv, Go, Refunding
  <2>4. /\ \/ attempt'[a].pc = "idle"
           \/ /\ pc = "giveBack" /\ attempt'[a].pc = "lastCheck"
              /\ attempt'[a].rec = attempt[a].rec
        /\ \A b \in Attempts \ {a} : attempt'[b] = attempt[b]
    BY <2>2, Goes, Stops DEF Go, Idle
  <2>5. CopyInv(a)'
    BY <1>i, <2>1, <2>4 DEF CopyInv, Fulfilling, Provisioning, Refunding, Awaiting, Handled
  <2>6. OutcomeInv(a)' /\ HoldInv(a)'
    BY <2>4 DEF OutcomeInv, HoldInv, Claimed, Fulfilling, Provisioning
  <2> QED
    BY <2>1, <2>3, <2>4, <2>5, <2>6, RowSafe
<1>4. CASE LetGo(a)
  <2>1. /\ pc \in {"letGo", "endRelease"} /\ UNCHANGED <<record, metadata, stripe, refunded, events>>
        /\ ReleaseForSession(s) /\ Answer200(a)
    BY <1>4 DEF LetGo, world
  <2>2. attempt[a].kind = "paid" => s \in refunded
    BY <1>i, <2>1 DEF OutcomeInv, KindInv, Ending
  <2>3. pc \notin Fulfilling \cup Quiet
    BY <2>1 DEF Fulfilling, Provisioning, Quiet
  <2> QED
    BY <2>1, <2>2, <2>3, ReleaseSafe
<1>5. CASE AwaitClaim(a)
  <2>1. /\ pc = "awaitClaim" /\ UNCHANGED <<record, metadata, stripe, refunded, events>>
        /\ MayClaim(s) \/ row' = row
        /\ Go(a, "awaitSave")
    BY <1>5 DEF AwaitClaim, world
  <2>2. /\ attempt'[a].pc = "awaitSave" /\ attempt'[a].rec = attempt[a].rec
        /\ \A b \in Attempts \ {a} : attempt'[b] = attempt[b]
    BY <2>1, Goes DEF Go
  <2>3. SameHandler'
    BY <2>1, PcSets, StaysTogether DEF SafeInv, Go, Awaiting
  <2>4. CopyInv(a)' /\ OutcomeInv(a)' /\ HoldInv(a)'
    BY <1>i, <2>1, <2>2 DEF CopyInv, OutcomeInv, HoldInv, Claimed, Fulfilling, Provisioning, Refunding,
       Awaiting, Handled
  <2>5. MayClaim(s) => row.status # "provisioning" \/ row.session = s
    BY DEF MayClaim, NoRow
  <2>6. pc \notin Fulfilling \cup Quiet
    BY <2>1 DEF Fulfilling, Provisioning, Quiet
  <2> QED
    BY <2>1, <2>2, <2>3, <2>4, <2>5, <2>6, RowSafe
<1> QED
  BY <1>1, <1>2, <1>3, <1>4, <1>5 DEF OnRow

\* What is loaded says of its session what is stored.
LEMMA LoadedFits ==
  ASSUME TypeOK, NEW s \in Sessions
  PROVE  /\ Loaded(s).terminal = record[s].terminal
         /\ \A status \in {"ready", "refunded"} :
              Loaded(s).status = status <=> record[s].status = status
         /\ StillUnpaid(record[s]) => ~Handled(Loaded(s))
<1>1. CASE record[s] = NoRecord
  <2>1. Loaded(s).terminal = FALSE /\ Loaded(s).status = "pending"
    BY <1>1 DEF Loaded, NoRecord
  <2>2. record[s].terminal = FALSE /\ record[s].status = "none"
    BY <1>1 DEF NoRecord
  <2> QED
    BY <2>1, <2>2 DEF Handled
<1>2. CASE record[s] # NoRecord
  <2>1. Loaded(s) = record[s]
    BY <1>2 DEF Loaded
  <2> QED
    BY <2>1 DEF StillUnpaid, Handled
<1> QED
  BY <1>1, <1>2

\* An invocation that goes on with the record it has just read.
LEMMA LoadSafe ==
  ASSUME TypeOK, SafeInv, NEW a \in Attempts, torn' = {},
         NEW pc \in {"lastCheck", "readMetadata", "rereadMetadata", "awaitClaim", "endSave",
                     "endRelease"},
         GoWith(a, pc, Loaded(Serves[a])), UNCHANGED <<stores, stripe, refunded, events>>,
         pc # "endRelease" => ~Handled(Loaded(Serves[a])),
         pc \in {"readMetadata", "rereadMetadata"} => ~Loaded(Serves[a]).terminal,
         pc = "rereadMetadata" => attempt[a].pc = "reread"
  PROVE  SafeInv'
<1> DEFINE s == Serves[a]
<1>1. s \in Sessions /\ SessionInv(s) /\ HoldInv(a)
  BY Names DEF SafeInv
<1>2. /\ attempt'[a].pc = pc /\ attempt'[a].rec = Loaded(s)
      /\ \A b \in Attempts \ {a} : attempt'[b] = attempt[b]
  BY Goes
<1>3. pc \in Pcs
  BY PcSets DEF Fulfilling, Refunding, Awaiting, Ending
<1>4. SameHandler'
  BY <1>3, StaysTogether DEF SafeInv
<1>5. Loaded(s).terminal = record[s].terminal
  BY <1>1, LoadedFits
<1>6. s \in refunded => Loaded(s).terminal
  BY <1>1, <1>5 DEF SessionInv
<1>7. CopyInv(a)'
  BY <1>2, <1>5, <1>6 DEF CopyInv, stores, Fulfilling, Provisioning, Refunding, Awaiting
<1>8. OutcomeInv(a)'
  BY <1>2, <1>6 DEF OutcomeInv, stores, Fulfilling, Provisioning
<1>9. HoldInv(a)'
  BY <1>1, <1>2 DEF HoldInv, stores, Claimed, Provisioning
<1> QED
  BY <1>2, <1>4, <1>7, <1>8, <1>9, JustMoves

\* The first read of the record, and the one under the claim.
LEMMA ReadsSafe ==
  ASSUME TypeOK, OuterInv, SafeInv, NEW a \in Attempts, ReadRecord(a) \/ Reread(a), torn' = {}
  PROVE  SafeInv'
<1> DEFINE s == Serves[a]
           rec == Loaded(s)
<1>1. /\ s \in Sessions /\ SessionInv(s) /\ KindInv(a)
      /\ attempt[a].pc \in {"start", "reread"}
      /\ UNCHANGED <<record, metadata, stripe, refunded, events>>
  BY Names DEF SafeInv, OuterInv, ReadRecord, Reread, world
<1>2. /\ rec.status = "ready" => metadata = s
      /\ rec.status = "refunded" => s \in refunded
  BY <1>1, LoadedFits DEF SessionInv
<1>3. \/ /\ ReleaseForSession(s) \/ row' = row
         /\ Answer200(a)
         /\ attempt[a].kind = "paid" => metadata = s \/ s \in refunded
         /\ metadata = s \/ row' = row
      \/ \E pc \in {"lastCheck", "readMetadata", "rereadMetadata", "awaitClaim", "endSave",
                    "endRelease"} :
           /\ GoWith(a, pc, rec) /\ row' = row
           /\ pc # "endRelease" => ~Handled(rec)
           /\ pc \in {"readMetadata", "rereadMetadata"} => ~rec.terminal
           /\ pc = "rereadMetadata" => attempt[a].pc = "reread"
  <2>1. CASE ReadRecord(a)
    <3>1. StillUnpaid(record[s]) => ~Handled(rec)
      BY <1>1, LoadedFits
    <3>2. StillUnpaid(rec) => ~Handled(rec)
      BY DEF StillUnpaid, Handled
    <3> QED
      BY <2>1, <3>1, <3>2, <1>2 DEF ReadRecord
  <2>2. CASE Reread(a)
    BY <2>2, <1>2 DEF Reread
  <2> QED
    BY <2>1, <2>2
<1>4. CASE /\ ReleaseForSession(s) \/ row' = row
           /\ Answer200(a)
           /\ attempt[a].kind = "paid" => metadata = s \/ s \in refunded
           /\ metadata = s \/ row' = row
  BY <1>1, <1>4, ReleaseSafe
<1>5. CASE \E pc \in {"lastCheck", "readMetadata", "rereadMetadata", "awaitClaim", "endSave",
                    "endRelease"} :
           /\ GoWith(a, pc, rec) /\ row' = row
           /\ pc # "endRelease" => ~Handled(rec)
           /\ pc \in {"readMetadata", "rereadMetadata"} => ~rec.terminal
           /\ pc = "rereadMetadata" => attempt[a].pc = "reread"
  <2>1. UNCHANGED <<stores, stripe, refunded, events>>
    BY <1>1, <1>5 DEF stores
  <2> QED
    BY <1>5, <2>1, LoadSafe
<1> QED
  BY <1>3, <1>4, <1>5

\* An invocation that saves a record that fits its session.
LEMMA SaveSafe ==
  ASSUME TypeOK, SafeInv, NEW a \in Attempts, SameHandler',
         \A b \in Attempts \ {a} : attempt'[b] = attempt[b],
         NEW rec, Save(Serves[a], rec), UNCHANGED <<row, metadata, stripe, refunded, events>>,
         CopyInv(a)', OutcomeInv(a)', HoldInv(a)',
         Serves[a] \in refunded => rec.terminal,
         rec.terminal \/ attempt[a].pc \notin Refunding \cup Quiet,
         rec.status = "refunded" => Serves[a] \in refunded,
         rec.status = "ready" => metadata = Serves[a]
  PROVE  SafeInv'
<1>1. Serves[a] \in Sessions
  BY Names
<1>2. /\ record'[Serves[a]] = rec
      /\ \A t \in Sessions \ {Serves[a]} : record'[t] = record[t]
  BY <1>1 DEF Save, TypeOK
<1>3. ASSUME NEW t \in Sessions PROVE SessionInv(t)'
  BY <1>2 DEF SafeInv, SessionInv
<1> QED
  BY <1>1, <1>2, <1>3, StepSafe

Saving(a) == \/ NoteBought(a) \/ SetUp(a) \/ SaveReady(a) \/ NoteTerminal(a) \/ SaveRefunded(a)
             \/ AwaitSave(a) \/ EndSave(a)

\* Steps that save the record.
LEMMA SavingSafe ==
  ASSUME TypeOK, OuterInv, SafeInv, NEW a \in Attempts, Saving(a), torn' = {}
  PROVE  SafeInv'
<1> DEFINE pc == attempt[a].pc
           s == Serves[a]
           old == attempt[a].rec
<1>i. CopyInv(a) /\ OutcomeInv(a) /\ HoldInv(a) /\ KindInv(a) /\ s \in Sessions /\ old \in Records
  BY Names DEF SafeInv, OuterInv, TypeOK
<1>u. UNCHANGED <<row, metadata, stripe, refunded, events>>
  BY DEF Saving, NoteBought, SetUp, SaveReady, NoteTerminal, SaveRefunded, AwaitSave, EndSave, world
<1>p. {"setUp", "saveMetadata", "release", "refund", "letGo", "endRelease"} \subseteq Pcs
  BY PcSets DEF Fulfilling, Provisioning, Refunding, Ending
<1>g. ASSUME NEW q \in Pcs, NEW r, GoWith(a, q, r)
      PROVE  /\ SameHandler' /\ attempt'[a].pc = q /\ attempt'[a].rec = r
             /\ \A b \in Attempts \ {a} : attempt'[b] = attempt[b]
  BY <1>g, Goes, StaysTogether DEF SafeInv
<1>1. CASE NoteBought(a)
  <2> DEFINE rec == [old EXCEPT !.bought = TRUE, !.status = "provisioning"]
  <2>1. pc = "noteBought" /\ Save(s, rec) /\ GoWith(a, "setUp", rec)
    BY <1>1 DEF NoteBought
  <2>2. rec.terminal = old.terminal /\ rec.status = "provisioning"
    BY <1>i DEF Records
  <2> HIDE DEF rec
  <2>3. ~old.terminal /\ s \notin refunded
    BY <1>i, <2>1 DEF CopyInv, OutcomeInv, Fulfilling, Provisioning
  <2>4. CopyInv(a)'
    BY <1>g, <1>p, <2>1, <2>2, <2>3 DEF CopyInv, Handled, Fulfilling, Provisioning, Refunding, Awaiting
  <2>5. OutcomeInv(a)' /\ HoldInv(a)'
    BY <1>g, <1>i, <1>p, <1>u, <2>1, <2>3 DEF OutcomeInv, HoldInv, Claimed, Fulfilling, Provisioning
  <2>6. pc \notin Refunding \cup Quiet
    BY <2>1 DEF Refunding, Quiet
  <2> QED
    BY <1>g, <1>p, <1>u, <2>1, <2>2, <2>3, <2>4, <2>5, <2>6, SaveSafe
<1>2. CASE SetUp(a)
  <2>1. pc = "setUp" /\ (Save(s, old) \/ UNCHANGED record) /\ Go(a, "saveMetadata")
    BY <1>2 DEF SetUp
  <2>2. ~Handled(old) /\ ~old.terminal /\ s \notin refunded
    BY <1>i, <2>1 DEF CopyInv, OutcomeInv, Fulfilling, Provisioning
  <2>3. CopyInv(a)'
    BY <1>g, <1>p, <2>1, <2>2 DEF Go, CopyInv, Fulfilling, Provisioning, Refunding, Awaiting
  <2>4. OutcomeInv(a)' /\ HoldInv(a)'
    BY <1>g, <1>i, <1>p, <1>u, <2>1, <2>2 DEF Go, OutcomeInv, HoldInv, Claimed, Fulfilling, Provisioning
  <2>5. pc \notin Refunding \cup Quiet
    BY <2>1 DEF Refunding, Quiet
  <2>6. SameHandler' /\ \A b \in Attempts \ {a} : attempt'[b] = attempt[b]
    BY <1>g, <1>p, <2>1 DEF Go
  <2>7. CASE Save(s, old)
    BY <1>u, <2>2, <2>3, <2>4, <2>5, <2>6, <2>7, SaveSafe DEF Handled
  <2>8. CASE UNCHANGED record
    BY <1>u, <2>3, <2>4, <2>6, <2>8, JustMoves DEF stores
  <2> QED
    BY <2>1, <2>7, <2>8
<1>3. CASE SaveReady(a)
  <2> DEFINE rec == [old EXCEPT !.status = "ready"]
  <2>1. pc = "saveReady" /\ Save(s, rec) /\ Go(a, "release")
    BY <1>3 DEF SaveReady
  <2>2. rec.terminal = old.terminal /\ rec.status = "ready"
    BY <1>i DEF Records
  <2> HIDE DEF rec
  <2>3. ~Handled(old) /\ ~old.terminal /\ s \notin refunded /\ metadata = s
    BY <1>i, <2>1 DEF CopyInv, OutcomeInv, Fulfilling, Provisioning
  <2>4. CopyInv(a)'
    BY <1>g, <1>p, <2>1, <2>3 DEF Go, CopyInv, Fulfilling, Provisioning, Refunding, Awaiting
  <2>5. OutcomeInv(a)' /\ HoldInv(a)'
    BY <1>g, <1>p, <1>u, <2>1, <2>3 DEF Go, OutcomeInv, HoldInv, Claimed, Fulfilling, Provisioning
  <2>6. pc \notin Refunding \cup Quiet
    BY <2>1 DEF Refunding, Quiet
  <2> QED
    BY <1>g, <1>p, <1>u, <2>1, <2>2, <2>3, <2>4, <2>5, <2>6, SaveSafe DEF Go
<1>4. CASE NoteTerminal(a)
  <2> DEFINE rec == [old EXCEPT !.terminal = TRUE]
  <2>1. pc = "noteTerminal" /\ Save(s, rec) /\ GoWith(a, "refund", rec)
    BY <1>4 DEF NoteTerminal
  <2>2. rec.terminal = TRUE /\ rec.status = old.status
    BY <1>i DEF Records
  <2> HIDE DEF rec
  <2>3. ~Handled(old) /\ metadata # s
    BY <1>i, <2>1 DEF CopyInv, OutcomeInv, Refunding
  <2>4. record'[s] = rec
    BY <1>i, <2>1 DEF Save, TypeOK
  <2>5. CopyInv(a)'
    BY <1>g, <1>p, <2>1, <2>2, <2>3, <2>4 DEF CopyInv, Handled, Fulfilling, Provisioning, Refunding, Awaiting
  <2>6. OutcomeInv(a)' /\ HoldInv(a)'
    BY <1>g, <1>p, <1>u, <2>1, <2>3 DEF OutcomeInv, HoldInv, Claimed, Fulfilling, Provisioning
  <2> QED
    BY <1>g, <1>p, <1>u, <2>1, <2>2, <2>3, <2>5, <2>6, SaveSafe DEF Handled
<1>5. CASE SaveRefunded(a)
  <2> DEFINE rec == [old EXCEPT !.status = "refunded"]
  <2>1. pc = "saveRefunded" /\ Save(s, rec) /\ Go(a, "letGo")
    BY <1>5 DEF SaveRefunded
  <2>2. rec.terminal = old.terminal /\ rec.status = "refunded"
    BY <1>i DEF Records
  <2> HIDE DEF rec
  <2>3. ~Handled(old) /\ old.terminal /\ metadata # s /\ s \in refunded
    BY <1>i, <2>1 DEF CopyInv, OutcomeInv, Refunding
  <2>4. record'[s] = rec
    BY <1>i, <2>1 DEF Save, TypeOK
  <2>5. CopyInv(a)'
    BY <1>g, <1>p, <2>1, <2>2, <2>3, <2>4 DEF Go, CopyInv, Fulfilling, Provisioning, Refunding, Awaiting
  <2>6. OutcomeInv(a)' /\ HoldInv(a)'
    BY <1>g, <1>p, <1>u, <2>1, <2>3 DEF Go, OutcomeInv, HoldInv, Claimed, Fulfilling, Provisioning
  <2> QED
    BY <1>g, <1>p, <1>u, <2>1, <2>2, <2>3, <2>5, <2>6, SaveSafe DEF Go
<1>6. CASE AwaitSave(a)
  <2> DEFINE rec == [old EXCEPT !.status = "awaiting_payment"]
  <2>1. pc = "awaitSave" /\ Save(s, rec) /\ Answer200(a)
    BY <1>6 DEF AwaitSave
  <2>2. rec.terminal = old.terminal /\ rec.status = "awaiting_payment"
    BY <1>i DEF Records
  <2> HIDE DEF rec
  <2>3. (s \in refunded => old.terminal) /\ attempt[a].kind = "unpaid"
    BY <1>i, <2>1 DEF CopyInv, KindInv, Awaiting
  <2>4. /\ SameHandler' /\ attempt'[a].pc = "answer" /\ attempt'[a].kind = "unpaid"
        /\ \A b \in Attempts \ {a} : attempt'[b] = attempt[b]
    BY <2>1, <2>3, Answers, StaysTogether DEF SafeInv
  <2>5. CopyInv(a)' /\ OutcomeInv(a)' /\ HoldInv(a)'
    BY <2>4 DEF CopyInv, OutcomeInv, HoldInv, Claimed, Fulfilling, Provisioning, Refunding, Awaiting
  <2>6. pc \notin Refunding \cup Quiet
    BY <2>1 DEF Refunding, Quiet
  <2> QED
    BY <1>u, <2>1, <2>2, <2>3, <2>4, <2>5, <2>6, SaveSafe
<1>7. CASE EndSave(a)
  <2>1. PICK status \in {"failed", "canceled"} : Save(s, [old EXCEPT !.status = status])
    BY <1>7 DEF EndSave
  <2> DEFINE rec == [old EXCEPT !.status = status]
  <2>2. rec.terminal = old.terminal /\ rec.status = status
    BY <1>i DEF Records
  <2>3. Save(s, rec) /\ pc = "endSave" /\ Go(a, "endRelease")
    BY <1>7, <2>1 DEF EndSave
  <2> HIDE DEF rec
  <2>4. s \in refunded => old.terminal
    BY <1>i, <2>3 DEF CopyInv
  <2>5. /\ SameHandler' /\ attempt'[a].pc = "endRelease"
        /\ \A b \in Attempts \ {a} : attempt'[b] = attempt[b]
    BY <1>g, <1>p, <2>3 DEF Go
  <2>6. CopyInv(a)' /\ OutcomeInv(a)' /\ HoldInv(a)'
    BY <2>5 DEF CopyInv, OutcomeInv, HoldInv, Claimed, Fulfilling, Provisioning, Refunding, Awaiting
  <2>7. pc \notin Refunding \cup Quiet
    BY <2>3 DEF Refunding, Quiet
  <2> QED
    BY <1>u, <2>1, <2>2, <2>3, <2>4, <2>5, <2>6, <2>7, SaveSafe
<1> QED
  BY <1>1, <1>2, <1>3, <1>4, <1>5, <1>6, <1>7 DEF Saving

\* The domain is set up for the session whose claim or metadata it is.
LEMMA SaveMetadataSafe ==
  ASSUME TypeOK, SafeInv, NEW a \in Attempts, SaveMetadata(a), torn' = {}
  PROVE  SafeInv'
<1> DEFINE s == Serves[a]
<1>1. /\ attempt[a].pc = "saveMetadata" /\ metadata' = s /\ Go(a, "saveReady")
      /\ UNCHANGED <<row, record, stripe, refunded, events>>
  BY DEF SaveMetadata, world
<1>2. CopyInv(a) /\ OutcomeInv(a) /\ HoldInv(a) /\ s \in Sessions /\ NoOne \notin Sessions
  BY Names DEF SafeInv
<1>3. /\ s \notin refunded /\ metadata \in {NoOne, s}
      /\ (row.status = "provisioning" /\ row.session = s) \/ metadata = s
      /\ ~Handled(attempt[a].rec) /\ ~attempt[a].rec.terminal
  BY <1>1, <1>2 DEF CopyInv, OutcomeInv, HoldInv, Claimed, Fulfilling, Provisioning
<1>4. /\ attempt'[a].pc = "saveReady" /\ attempt'[a].rec = attempt[a].rec
      /\ \A b \in Attempts \ {a} : attempt'[b] = attempt[b]
  BY <1>1, Goes DEF Go
<1>5. SameHandler'
  BY <1>1, PcSets, StaysTogether DEF SafeInv, Go, Fulfilling, Provisioning
<1>6. CopyInv(a)'
  BY <1>3, <1>4 DEF CopyInv, Fulfilling, Provisioning, Refunding, Awaiting
<1>7. OutcomeInv(a)' /\ HoldInv(a)'
  BY <1>1, <1>3, <1>4 DEF OutcomeInv, HoldInv, Claimed, Fulfilling, Provisioning
<1>8. ASSUME NEW b \in Attempts \ {a} PROVE CopyInv(b)' /\ OutcomeInv(b)' /\ HoldInv(b)'
  <2>1. /\ CopyInv(b) /\ OutcomeInv(b) /\ HoldInv(b) /\ Serves[b] \in Sessions
        /\ attempt'[b] = attempt[b]
    BY <1>4, Names DEF SafeInv
  <2>2. attempt[b].pc \in Refunding => Serves[b] # s
    BY <1>1 DEF SafeInv, SameHandler, Fulfilling, Provisioning, Refunding, Quiet
  <2>3. CopyInv(b)'
    BY <1>1, <2>1 DEF CopyInv
  <2>4. OutcomeInv(b)'
    BY <1>1, <1>2, <1>3, <2>1, <2>2 DEF OutcomeInv, Refunding
  <2>5. attempt[b].pc \in Claimed =>
          (row.status = "provisioning" /\ row.session = Serves[b]) \/ metadata' = Serves[b]
    BY <1>1, <1>2, <1>3, <2>1 DEF HoldInv
  <2>6. Provisioning \subseteq Claimed
    BY DEF Claimed
  <2>7. attempt[b].pc \in Provisioning => Serves[b] = s
    <3>1. CASE metadata = s
      BY <1>2, <2>1, <3>1 DEF HoldInv
    <3>2. CASE metadata = NoOne
      BY <1>2, <1>3, <2>1, <2>6, <3>2 DEF HoldInv
    <3> QED
      BY <1>3, <3>1, <3>2
  <2>8. HoldInv(b)'
    BY <1>1, <2>1, <2>5, <2>7 DEF HoldInv
  <2> QED
    BY <2>3, <2>4, <2>8
<1>9. ASSUME NEW t \in Sessions PROVE SessionInv(t)'
  <2>1. SessionInv(t)
    BY DEF SafeInv
  <2> QED
    BY <1>1, <1>2, <1>3, <2>1 DEF SessionInv
<1> QED
  BY <1>5, <1>6, <1>7, <1>8, <1>9 DEF SafeInv

\* The payment goes back for a session that noted so and does not own the domain.
LEMMA RefundSafe ==
  ASSUME TypeOK, SafeInv, NEW a \in Attempts, Refund(a), torn' = {}
  PROVE  SafeInv'
<1> DEFINE s == Serves[a]
<1>1. /\ attempt[a].pc = "refund" /\ UNCHANGED <<row, record, metadata, stripe, events>>
      /\ refunded' \in {refunded, refunded \cup {s}}
      /\ \/ Go(a, "saveRefunded") /\ s \in refunded'
         \/ AnswerRetry(a)
  BY DEF Refund, stores
<1>2. CopyInv(a) /\ OutcomeInv(a) /\ s \in Sessions
  BY Names DEF SafeInv
<1>3. ~Handled(attempt[a].rec) /\ attempt[a].rec.terminal /\ record[s].terminal /\ metadata # s
  BY <1>1, <1>2 DEF CopyInv, OutcomeInv, Refunding
<1>4. /\ \/ attempt'[a].pc = "saveRefunded" /\ attempt'[a].rec = attempt[a].rec /\ s \in refunded'
         \/ attempt'[a].pc = "idle"
      /\ \A b \in Attempts \ {a} : attempt'[b] = attempt[b]
  BY <1>1, Goes, Stops DEF Go, Idle
<1>5. SameHandler'
  BY <1>1, PcSets, StaysTogether DEF SafeInv, Go, Refunding
<1>6. CopyInv(a)'
  BY <1>1, <1>3, <1>4 DEF CopyInv, Fulfilling, Provisioning, Refunding, Awaiting
<1>7. OutcomeInv(a)' /\ HoldInv(a)'
  BY <1>1, <1>3, <1>4 DEF OutcomeInv, HoldInv, Claimed, Fulfilling, Provisioning
<1>8. ASSUME NEW b \in Attempts \ {a} PROVE CopyInv(b)' /\ OutcomeInv(b)' /\ HoldInv(b)'
  <2>1. /\ CopyInv(b) /\ OutcomeInv(b) /\ HoldInv(b) /\ Serves[b] \in Sessions
        /\ attempt'[b] = attempt[b]
    BY <1>4, Names DEF SafeInv
  <2>2. attempt[b].pc \in Fulfilling \cup Awaiting \cup {"endSave"} => Serves[b] # s
    BY <1>1 DEF SafeInv, SameHandler, Fulfilling, Provisioning, Refunding, Awaiting, Ending, Quiet
  <2>3. CopyInv(b)'
    BY <1>1, <2>1, <2>2 DEF CopyInv
  <2>4. OutcomeInv(b)' /\ HoldInv(b)'
    BY <1>1, <2>1, <2>2 DEF OutcomeInv, HoldInv
  <2> QED
    BY <2>3, <2>4
<1>9. ASSUME NEW t \in Sessions PROVE SessionInv(t)'
  <2>1. SessionInv(t)
    BY DEF SafeInv
  <2> QED
    BY <1>1, <1>3, <2>1 DEF SessionInv
<1> QED
  BY <1>5, <1>6, <1>7, <1>8, <1>9 DEF SafeInv

\* What is torn stays torn.
LEMMA TornStays == ASSUME TypeOK, [Next]_vars, torn' = {} PROVE torn = {}
<1>1. ASSUME NEW a \in Attempts,
             \/ \E pc, rec : GoWith(a, pc, rec)
             \/ Answer200(a) \/ AnswerRetry(a)
      PROVE  torn = {}
  BY <1>1, Tearing, Answers, Stops
<1>2. ASSUME NEW a \in Attempts, Step(a) PROVE torn = {}
  <2>1. CASE \E kind \in EventKinds : Deliver(a, kind)
    BY <2>1 DEF Deliver
  <2>2. CASE ReadRecord(a) \/ Reread(a)
    BY <1>1, <2>2 DEF ReadRecord, Reread
  <2>3. CASE Moving(a) \/ OnRow(a) \/ Saving(a)
    BY <1>1, <2>3 DEF Moving, OnRow, Saving, ReadMetadata, LookAtHolder, RereadMetadata, LookUp, LastCheck,
       OwnerCheck, Owned, Claim, Release, GiveUp, LetGo, AwaitClaim, Register, NoteBought, NoteTerminal,
       SetUp, SaveReady, SaveRefunded, AwaitSave, EndSave, Dies, CallFails, Go
  <2>4. CASE SaveMetadata(a) \/ Refund(a) \/ Acknowledge(a)
    BY <1>1, <2>4 DEF SaveMetadata, Refund, Acknowledge, Go
  <2> QED
    BY <1>2, <2>1, <2>2, <2>3, <2>4 DEF Step, Work, Moving, OnRow, Saving
<1>4. ASSUME NEW s \in Sessions, Checkout(s) \/ Buyer(s) PROVE torn = {}
  BY <1>4 DEF Checkout, CheckFree, Hold, ExpireOld, MoveHold, CancelOld, CreateSession, Attach, SaveCheckout,
     Abandon, DropHold, CloseRecord, RequestDies, Buyer, AtStripe
<1>5. CASE Lapse \/ SoldElsewhere \/ UNCHANGED vars
  BY <1>5 DEF Lapse, SoldElsewhere, vars
<1> QED
  BY <1>2, <1>4, <1>5 DEF Next, Step

\* SafeInv, in any step that leaves nothing torn.
LEMMA SafeStep ==
  ASSUME TypeOK, OuterInv, SafeInv, [Next]_vars, torn' = {}
  PROVE  SafeInv'
<1>1. ASSUME NEW a \in Attempts, Step(a) PROVE SafeInv'
  BY <1>1, ReadsSafe, MovingSafe, OnRowSafe, SavingSafe, SaveMetadataSafe, RefundSafe, AcknowledgeSafe,
     DeliverSafe DEF Step, Work, Moving, OnRow, Saving
<1>2. CASE Lapse \/ SoldElsewhere \/ UNCHANGED vars
  <2>1. /\ UNCHANGED <<record, metadata, stripe, refunded, events, attempt>>
        /\ row'.status = row.status /\ row'.session = row.session
    BY <1>2 DEF Lapse, SoldElsewhere, vars, stores, world, TypeOK, Rows
  <2>2. SameHandler'
    BY <2>1 DEF SafeInv, SameHandler
  <2>3. ASSUME NEW a \in Attempts PROVE CopyInv(a)' /\ OutcomeInv(a)' /\ HoldInv(a)'
    BY <2>1 DEF SafeInv, CopyInv, OutcomeInv, HoldInv
  <2>4. ASSUME NEW s \in Sessions PROVE SessionInv(s)'
    BY <2>1 DEF SafeInv, SessionInv
  <2> QED
    BY <2>2, <2>3, <2>4 DEF SafeInv
<1> QED
  BY <1>1, <1>2, RequestsSafe DEF Next, Step

\* The inductive invariant.
LEMMA Inductive == Spec => []IndInv
<1>1. Init => IndInv
  BY InitType, InitOuter, InitSafe DEF IndInv
<1>2. IndInv /\ [Next]_vars => IndInv'
  BY TypeStep, OuterStep, TornStays, SafeStep DEF IndInv
<1> QED
  BY <1>1, <1>2, PTL DEF Spec

-----------------------------------------------------------------------------
(* A domain that was bought is set up.                                     *)

\* A failed payment and an expired session stay so, and only their events say so.
ClosedInv ==
  /\ \A s \in Sessions : /\ Event(s, "failed") \in events => stripe[s] = "failed"
                         /\ Event(s, "expired") \in events => stripe[s] = "expired"
  /\ \A a \in Attempts : attempt[a].kind \in {"failed", "expired"} =>
                           stripe[Serves[a]] = attempt[a].kind

\* An invocation outside its handler has no record in memory.
EmptyInv == \A a \in Attempts : attempt[a].pc \in Quiet => attempt[a].rec = NoRecord

\* No invocation fulfils a session whose refund was decided.
FreshInv == \A a \in Attempts : attempt[a].pc \in Fulfilling => ~record[Serves[a]].terminal

\* The session s has the row and will be delivered again; nobody has decided on, or
\* could still come to, a refund of it.
Due(s) ==
  /\ row.session = s /\ row.status \in {"provisioning", "awaiting_payment"}
  /\ Event(s, "paid") \in events /\ s \notin refunded /\ ~record[s].terminal
  /\ \A a \in Attempts :
       Serves[a] = s => attempt[a].pc \notin Refunding /\ ~attempt[a].rec.terminal
UsedInv == registrar = "ours" /\ metadata = NoOne => \E s \in Sessions : Due(s)

OursInv == ClosedInv /\ EmptyInv /\ (torn = {} => FreshInv /\ UsedInv)

LEMMA InitOurs == Init => OursInv
<1> SUFFICES ASSUME Init PROVE OursInv
  OBVIOUS
<1>1. \A a \in Attempts : attempt[a] = Idle /\ "idle" \notin Fulfilling
  BY DEF Init, Fulfilling, Provisioning
<1> QED
  BY <1>1 DEF Init, Idle, OursInv, ClosedInv, EmptyInv, FreshInv, UsedInv

\* Every step of an invocation is one of four moves.
LEMMA StepMoves ==
  ASSUME NEW a \in Attempts, Step(a)
  PROVE  \/ \E pc \in Pcs \ Quiet : \E rec : GoWith(a, pc, rec)
         \/ Answer200(a) \/ AnswerRetry(a)
         \/ \E kind \in EventKinds : Deliver(a, kind)
<1>p. /\ Fulfilling \cup Refunding \cup Awaiting \cup Ending = Pcs \ Quiet
      /\ Provisioning \subseteq Fulfilling
  BY DEF Pcs, Quiet, Fulfilling, Provisioning, Refunding, Awaiting, Ending
<1>q. /\ {"readMetadata", "claim", "holder", "reread", "rereadMetadata", "giveUp", "register",
           "lookupTaken", "lookupError", "noteBought", "setUp", "saveMetadata", "saveReady",
           "release"} \subseteq Pcs \ Quiet
      /\ {"giveBack", "lastCheck", "ownerCheck", "noteTerminal", "refund", "saveRefunded",
           "letGo", "awaitClaim", "awaitSave", "endSave", "endRelease"} \subseteq Pcs \ Quiet
  BY <1>p DEF Fulfilling, Provisioning, Refunding, Awaiting, Ending
<1>3. CASE ReadRecord(a) \/ Reread(a)
  BY <1>q, <1>3 DEF ReadRecord, Reread
<1>4. CASE ReadMetadata(a) \/ LookAtHolder(a) \/ RereadMetadata(a) \/ LookUp(a) \/ LastCheck(a)
           \/ OwnerCheck(a) \/ Claim(a) \/ Release(a) \/ GiveUp(a) \/ LetGo(a) \/ AwaitClaim(a)
  BY <1>q, <1>4 DEF ReadMetadata, LookAtHolder, RereadMetadata, LookUp, LastCheck, OwnerCheck, Owned,
     Claim, Release, GiveUp, LetGo, AwaitClaim, Go
<1>5. CASE Register(a) \/ NoteBought(a) \/ NoteTerminal(a) \/ SetUp(a) \/ SaveMetadata(a) \/ SaveReady(a)
           \/ SaveRefunded(a) \/ AwaitSave(a) \/ EndSave(a) \/ Refund(a)
           \/ Acknowledge(a) \/ Dies(a) \/ CallFails(a)
  BY <1>q, <1>5 DEF Register, NoteBought, NoteTerminal, SetUp, SaveMetadata, SaveReady, SaveRefunded,
     AwaitSave, EndSave, Refund, Acknowledge, Dies, CallFails, Go
<1> QED
  BY <1>3, <1>4, <1>5 DEF Step, Work

LEMMA WorkClosed ==
  ASSUME TypeOK, ClosedInv, EmptyInv, NEW a \in Attempts, Step(a)
  PROVE  ClosedInv' /\ EmptyInv'
<1>1. UNCHANGED stripe /\ events' \subseteq events
  BY DEF Step, Work, ReadRecord, Reread, ReadMetadata, LookAtHolder, RereadMetadata, LookUp, LastCheck,
     OwnerCheck, Claim, Release, GiveUp, LetGo, AwaitClaim, Register, NoteBought, NoteTerminal, SetUp,
     SaveReady, SaveRefunded, AwaitSave, EndSave, Refund, Acknowledge, Dies, CallFails, Deliver,
     SaveMetadata, world
<1>2. \A b \in Attempts \ {a} : attempt'[b] = attempt[b]
  BY OneMoves
<1>3. /\ attempt'[a].kind \in {"failed", "expired"} => stripe[Serves[a]] = attempt'[a].kind
      /\ attempt'[a].pc \in Quiet => attempt'[a].rec = NoRecord
  <2>1. ASSUME NEW pc \in Pcs \ Quiet, NEW rec, GoWith(a, pc, rec)
        PROVE  attempt'[a].kind = attempt[a].kind /\ attempt'[a].pc \notin Quiet
    BY <2>1, Goes
  <2>2. CASE Answer200(a)
    BY <2>2 DEF Answer200, TypeOK, ClosedInv
  <2>3. CASE AnswerRetry(a)
    BY <2>3, Stops DEF Idle
  <2>4. ASSUME NEW kind \in EventKinds, Deliver(a, kind)
        PROVE  /\ attempt'[a].kind = kind /\ attempt'[a].rec = NoRecord
               /\ Event(Serves[a], kind) \in events
    BY <2>4 DEF Deliver, TypeOK, Idle
  <2> QED
    BY <2>1, <2>2, <2>3, <2>4, StepMoves, Names DEF ClosedInv
<1> QED
  BY <1>1, <1>2, <1>3, Names DEF ClosedInv, EmptyInv

LEMMA RequestsClosed ==
  ASSUME TypeOK, OuterInv, ClosedInv, EmptyInv, NEW s \in Sessions, Checkout(s) \/ Buyer(s)
  PROVE  ClosedInv' /\ EmptyInv'
<1>1. UNCHANGED attempt
  BY RequestFrame
<1>2. /\ \A t \in Sessions : stripe[t] \in {"failed", "expired"} => stripe'[t] = stripe[t]
      /\ \A t \in Sessions, kind \in {"failed", "expired"} :
           Event(t, kind) \in events' => Event(t, kind) \in events \/ stripe'[t] = kind
  <2> USE DEF Event
  <2>1. request[s].pc = "create" => stripe[s] = "none"
    BY DEF OuterInv, CheckoutInv, Beginning
  <2>2. request[s].pc \in {"attach", "save"} => stripe[s] # "failed"
    BY DEF OuterInv, CheckoutInv
  <2>3. CASE CheckFree(s) \/ Hold(s) \/ MoveHold(s) \/ CancelOld(s) \/ DropHold(s) \/ CloseRecord(s)
             \/ RequestDies(s)
    BY <2>3 DEF CheckFree, Hold, MoveHold, CancelOld, DropHold, CloseRecord, RequestDies, world
  <2>4. CASE ExpireOld(s)  BY <2>4 DEF ExpireOld, TypeOK
  <2>5. CASE CreateSession(s)  BY <2>1, <2>5 DEF CreateSession, TypeOK
  <2>6. CASE Attach(s) \/ SaveCheckout(s)
    BY <2>2, <2>6 DEF Attach, SaveCheckout, AbortCheckout, TypeOK
  <2>7. CASE Abandon(s)  BY <2>7 DEF Abandon, TypeOK
  <2>8. CASE Buyer(s)  BY <2>8 DEF Buyer, AtStripe, TypeOK
  <2> QED
    BY <2>3, <2>4, <2>5, <2>6, <2>7, <2>8 DEF Checkout
<1> QED
  BY <1>1, <1>2, Names DEF ClosedInv, EmptyInv

\* Whoever fulfils a session read a record without the refund, and only those who
\* refund it write one.
LEMMA WorkFresh ==
  ASSUME TypeOK, SafeInv, FreshInv, NEW a \in Attempts, Step(a)
  PROVE  FreshInv'
<1> DEFINE pc == attempt[a].pc
           s == Serves[a]
<1>i. /\ CopyInv(a) /\ s \in Sessions /\ \A b \in Attempts \ {a} : attempt'[b] = attempt[b]
      /\ attempt[a].rec \in Records
  BY Names, OneMoves DEF SafeInv, TypeOK
<1>f. \A b \in Attempts : attempt[b].pc \in Fulfilling /\ Serves[b] = s => pc \in Fulfilling \cup Quiet
  BY DEF SafeInv, SameHandler
<1>d. /\ Fulfilling \cap (Refunding \cup Awaiting \cup Ending \cup Quiet) = {}
      /\ Provisioning \subseteq Fulfilling
      /\ (Refunding \cup Awaiting \cup Ending) \cap Quiet = {}
  BY DEF Fulfilling, Provisioning, Refunding, Awaiting, Ending, Quiet
\* The record stays, or is saved by one of those who fulfil it.
<1>1. ASSUME \/ UNCHANGED record
             \/ pc \in Fulfilling /\ \E r : Save(s, r) /\ ~r.terminal
             \/ /\ pc \in Refunding \cup Awaiting \cup Ending
                /\ \E r : Save(s, r)
                /\ attempt'[a].pc \notin Fulfilling,
             \/ attempt'[a].pc \notin Fulfilling
             \/ pc \in Fulfilling
             \/ ~record'[s].terminal
      PROVE  FreshInv'
  <2>1. ASSUME NEW b \in Attempts, attempt'[b].pc \in Fulfilling PROVE ~record'[Serves[b]].terminal
    <3>1. Serves[b] # s => record'[Serves[b]] = record[Serves[b]]
      BY <1>1, Names DEF Save, TypeOK
    <3>2. CASE Serves[b] # s
      BY <1>i, <2>1, <3>1, <3>2 DEF FreshInv
    <3>3. CASE Serves[b] = s /\ b # a
      <4>1. attempt[b].pc \in Fulfilling /\ pc \in Fulfilling \cup Quiet /\ ~record[s].terminal
        BY <1>i, <1>f, <2>1, <3>3 DEF FreshInv
      <4> QED
        BY <1>1, <1>d, <1>i, <3>3, <4>1 DEF Save, TypeOK
    <3>4. CASE b = a
      <4>1. pc \in Fulfilling => ~record[s].terminal
        BY DEF FreshInv
      <4> QED
        BY <1>1, <1>i, <2>1, <3>4, <4>1 DEF Save, TypeOK
    <3> QED
      BY <3>2, <3>3, <3>4
  <2> QED
    BY <2>1 DEF FreshInv
<1>2. CASE ReadRecord(a) \/ Reread(a)
  <2>1. UNCHANGED record
    BY <1>2 DEF ReadRecord, Reread
  <2>2. record[s].terminal => Loaded(s).terminal
    BY DEF Loaded, NoRecord
  <2>3. ASSUME ReadRecord(a) PROVE attempt'[a].pc \notin Fulfilling \/ ~Loaded(s).terminal
    <3>1. ASSUME NEW q \in {"lastCheck", "awaitClaim", "endSave", "endRelease"}, GoWith(a, q, Loaded(s))
          PROVE  attempt'[a].pc \notin Fulfilling
      BY <3>1, Goes DEF Fulfilling, Provisioning
    <3>2. Answer200(a) => attempt'[a].pc \notin Fulfilling
      BY Answers DEF Fulfilling, Provisioning
    <3> QED
      BY <2>3, <3>1, <3>2 DEF ReadRecord
  <2>4. Reread(a) => pc \in Fulfilling
    BY DEF Reread, Fulfilling
  <2> QED
    BY <1>1, <1>2, <2>1, <2>2, <2>3, <2>4
<1>3. CASE NoteBought(a) \/ SetUp(a) \/ SaveReady(a)
  <2>1. pc \in Fulfilling /\ ~attempt[a].rec.terminal
    BY <1>3, <1>i DEF NoteBought, SetUp, SaveReady, Fulfilling, Provisioning, CopyInv
  <2>2. /\ ~[attempt[a].rec EXCEPT !.bought = TRUE, !.status = "provisioning"].terminal
        /\ ~[attempt[a].rec EXCEPT !.status = "ready"].terminal
    BY <1>i, <2>1 DEF Records
  <2>3. UNCHANGED record \/ \E r : Save(s, r) /\ ~r.terminal
    BY <1>3, <2>1, <2>2 DEF NoteBought, SetUp, SaveReady
  <2> QED
    BY <1>1, <2>1, <2>3
<1>4. CASE NoteTerminal(a) \/ SaveRefunded(a) \/ AwaitSave(a) \/ EndSave(a)
  <2>1. pc \in Refunding \cup Awaiting \cup Ending /\ \E r : Save(s, r)
    BY <1>4 DEF NoteTerminal, SaveRefunded, AwaitSave, EndSave, Refunding, Awaiting, Ending
  <2>2. attempt'[a].pc \in {"refund", "letGo", "answer", "endRelease"}
    BY <1>4, Goes, Answers DEF NoteTerminal, SaveRefunded, AwaitSave, EndSave, Go
  <2>3. attempt'[a].pc \notin Fulfilling
    BY <2>2 DEF Fulfilling, Provisioning
  <2> QED
    BY <1>1, <2>1, <2>3
<1>5. CASE ReadMetadata(a) \/ LookAtHolder(a) \/ RereadMetadata(a) \/ LookUp(a) \/ Claim(a) \/ Release(a)
           \/ Register(a) \/ SaveMetadata(a) \/ CallFails(a)
  <2>1. pc \in Fulfilling /\ UNCHANGED record
    BY <1>5 DEF ReadMetadata, LookAtHolder, RereadMetadata, LookUp, Claim, Release, Register, SaveMetadata,
       CallFails, stores, Fulfilling, Provisioning
  <2> QED
    BY <1>1, <2>1
<1>6. CASE GiveUp(a) \/ LastCheck(a) \/ OwnerCheck(a) \/ Refund(a) \/ LetGo(a) \/ AwaitClaim(a)
           \/ Acknowledge(a) \/ Dies(a) \/ \E kind \in EventKinds : Deliver(a, kind)
  <2>1. UNCHANGED record
    BY <1>6 DEF GiveUp, LastCheck, OwnerCheck, Refund, LetGo, AwaitClaim, Acknowledge, Dies, Deliver, stores
  <2>2. attempt'[a].pc \in {"idle", "answer", "start", "lastCheck", "ownerCheck", "refund", "noteTerminal",
                            "saveRefunded", "awaitSave"}
    <3>1. ASSUME NEW q \in {"lastCheck", "ownerCheck", "refund", "noteTerminal", "saveRefunded",
                            "awaitSave"}, Go(a, q)
          PROVE  attempt'[a].pc = q
      BY <3>1, Goes DEF Go
    <3>2. /\ Answer200(a) => attempt'[a].pc = "answer"
          /\ AnswerRetry(a) => attempt'[a].pc = "idle"
      BY Answers, Stops DEF Idle
    <3>3. ASSUME NEW kind \in EventKinds, Deliver(a, kind) PROVE attempt'[a].pc = "start"
      BY <3>3 DEF Deliver, TypeOK, Idle
    <3> QED
      BY <1>6, <3>1, <3>2, <3>3
         DEF GiveUp, LastCheck, OwnerCheck, Refund, LetGo, AwaitClaim, Acknowledge, Dies
  <2>3. attempt'[a].pc \notin Fulfilling
    BY <2>2 DEF Fulfilling, Provisioning
  <2> QED
    BY <1>1, <2>1, <2>3
<1> QED
  BY <1>2, <1>3, <1>4, <1>5, <1>6 DEF Step, Work

\* What is due stays due while its session keeps the row, its event and its record
\* free of a refund.
LEMMA StaysDue ==
  ASSUME NEW s \in Sessions, Due(s), NEW a \in Attempts,
         \A b \in Attempts \ {a} : attempt'[b] = attempt[b],
         row'.session = s, row'.status \in {"provisioning", "awaiting_payment"},
         Event(s, "paid") \in events', s \notin refunded', ~record'[s].terminal,
         Serves[a] = s => attempt'[a].pc \notin Refunding /\ ~attempt'[a].rec.terminal
  PROVE  Due(s)'
BY DEF Due

\* A session that is due is not being ended, answered, refunded or finished.
LEMMA DueMeans ==
  ASSUME TypeOK, OuterInv, SafeInv, ClosedInv, NEW s \in Sessions, Due(s), metadata = NoOne,
         NEW a \in Attempts, Serves[a] = s
  PROVE  /\ attempt[a].pc \notin Refunding \cup Ending \cup {"saveReady", "release"}
         /\ ~(attempt[a].pc = "answer" /\ attempt[a].kind = "paid")
         /\ record[s].status \notin {"ready", "refunded"}
         /\ ~record[s].terminal /\ ~Loaded(s).terminal /\ ~Handled(Loaded(s))
         /\ ~attempt[a].rec.terminal
<1>1. stripe[s] = "paid" /\ s # NoOne  BY Names DEF Due, OuterInv, CheckoutInv
<1>2. attempt[a].pc \notin Ending
  <2>1. attempt[a].pc \in Ending => attempt[a].kind \in {"failed", "expired"}
    BY DEF OuterInv, KindInv
  <2> QED
    BY <1>1, <2>1 DEF ClosedInv
<1>3. OutcomeInv(a) /\ SessionInv(s)
  BY DEF SafeInv
<1>4. record[s].status \notin {"ready", "refunded"} /\ ~record[s].terminal
  BY <1>1, <1>3 DEF SessionInv, Due
<1> QED
  BY <1>1, <1>2, <1>3, <1>4 DEF OutcomeInv, Due, Loaded, Handled, NoRecord

\* An invocation of another session, or one that only fulfils, leaves it due.
LEMMA WorkDue ==
  ASSUME TypeOK, OuterInv, SafeInv, ClosedInv, NEW s \in Sessions, Due(s), metadata = NoOne,
         registrar = "ours", NEW a \in Attempts, Step(a)
  PROVE  Due(s)'
<1> DEFINE t == Serves[a]
           pc == attempt[a].pc
<1>i. /\ t \in Sessions /\ s # NoOne /\ \A b \in Attempts \ {a} : attempt'[b] = attempt[b]
      /\ row \in Rows /\ row.session = s /\ row.status \in {"provisioning", "awaiting_payment"}
      /\ Event(s, "paid") \in events /\ s \notin refunded /\ ~record[s].terminal
      /\ attempt[a].rec \in Records /\ record \in [Sessions -> Records]
  BY Names, OneMoves DEF TypeOK, Due
<1>n. row # NoRow /\ row.status # "checkout"
  BY <1>i DEF NoRow
<1>m. t = s => /\ pc \notin Refunding \cup Ending \cup {"saveReady", "release"}
               /\ ~(pc = "answer" /\ attempt[a].kind = "paid")
               /\ ~Loaded(s).terminal /\ ~Handled(Loaded(s))
               /\ ~attempt[a].rec.terminal
  BY DueMeans
\* Nobody else claims or releases the row.
<1>r. ASSUME \/ UNCHANGED row
             \/ MayClaim(t) /\ \E status \in {"provisioning", "awaiting_payment"} :
                  ClaimForSession(t, status)
             \/ EndProvisioningLease(t)
             \/ t # s /\ ReleaseForSession(t)
      PROVE  row'.session = s /\ row'.status \in {"provisioning", "awaiting_payment"}
  <2>1. MayClaim(t) => t = s
    BY <1>i, <1>n DEF MayClaim
  <2> QED
    BY <1>i, <1>r, <2>1 DEF ClaimForSession, EndProvisioningLease, ReleaseForSession, NoRow, Rows
<1>p. ASSUME NEW q \in Pcs, q \notin Refunding, NEW rec, ~rec.terminal, GoWith(a, q, rec)
      PROVE  attempt'[a].pc \notin Refunding /\ ~attempt'[a].rec.terminal
  BY <1>p, Goes
<1>q. ASSUME Answer200(a) \/ AnswerRetry(a)
      PROVE  attempt'[a].pc \notin Refunding /\ ~attempt'[a].rec.terminal
  BY <1>q DEF Answer200, AnswerRetry, Idle, NoRecord, Refunding, TypeOK
<1>1. CASE t # s
  <2>1. row'.session = s /\ row'.status \in {"provisioning", "awaiting_payment"}
    BY <1>1, <1>r DEF Step, Work, ReadRecord, Reread, ReadMetadata, LookAtHolder, RereadMetadata, LookUp,
       LastCheck, OwnerCheck, Claim, Release, GiveUp, LetGo, AwaitClaim, Register, NoteBought,
       NoteTerminal, SetUp, SaveMetadata, SaveReady, SaveRefunded, AwaitSave, EndSave, Refund, Acknowledge,
       Dies, CallFails, Deliver, stores
  <2>2. Event(s, "paid") \in events'
    <3>1. events' = events \/ \E kind : events' = events \ {Event(t, kind)}
      BY DEF Step, Work, ReadRecord, Reread, ReadMetadata, LookAtHolder, RereadMetadata, LookUp,
         LastCheck, OwnerCheck, Claim, Release, GiveUp, LetGo, AwaitClaim, Register, NoteBought,
         NoteTerminal, SetUp, SaveMetadata, SaveReady, SaveRefunded, AwaitSave, EndSave, Refund, Acknowledge,
         Dies, CallFails, Deliver
    <3> QED
      BY <1>1, <1>i, <3>1 DEF Event
  <2>3. s \notin refunded' /\ record'[s] = record[s]
    <3>1. refunded' = refunded \/ refunded' = refunded \cup {t}
      BY DEF Step, Work, ReadRecord, Reread, ReadMetadata, LookAtHolder, RereadMetadata, LookUp,
         LastCheck, OwnerCheck, Claim, Release, GiveUp, LetGo, AwaitClaim, Register, NoteBought,
         NoteTerminal, SetUp, SaveMetadata, SaveReady, SaveRefunded, AwaitSave, EndSave, Refund, Acknowledge,
         Dies, CallFails, Deliver, world
    <3>2. record' = record \/ \E r : Save(t, r)
      BY DEF Step, Work, ReadRecord, Reread, ReadMetadata, LookAtHolder, RereadMetadata, LookUp,
         LastCheck, OwnerCheck, Claim, Release, GiveUp, LetGo, AwaitClaim, Register, NoteBought,
         NoteTerminal, SetUp, SaveMetadata, SaveReady, SaveRefunded, AwaitSave, EndSave, Refund, Acknowledge,
         Dies, CallFails, Deliver, stores
    <3> QED
      BY <1>1, <1>i, <3>1, <3>2 DEF Save
  <2> QED
    BY <1>1, <1>i, <2>1, <2>2, <2>3, StaysDue
<1>2. CASE t = s
  <2>t. \A q \in {"register", "lookupTaken", "lookupError", "reread", "readMetadata",
          "rereadMetadata", "holder", "claim", "noteBought", "setUp", "saveMetadata", "saveReady",
          "awaitClaim", "awaitSave", "giveUp", "start"} : q \in Pcs /\ q \notin Refunding
    BY DEF Pcs, Fulfilling, Provisioning, Awaiting, Quiet, Refunding
  <2>g. ASSUME NEW q \in {"register", "lookupTaken", "lookupError", "reread", "readMetadata",
          "rereadMetadata", "holder", "claim", "noteBought", "setUp", "saveMetadata", "saveReady",
          "awaitClaim", "awaitSave", "giveUp"}, Go(a, q)
        PROVE attempt'[a].pc \notin Refunding /\ ~attempt'[a].rec.terminal
    BY <1>2, <1>m, <1>p, <2>g, <2>t DEF Go
  \* The stores and the world stay, but for the row.
  <2>f. ASSUME attempt'[a].pc \notin Refunding, ~attempt'[a].rec.terminal,
               UNCHANGED <<record, refunded, events>>,
               \/ UNCHANGED row
               \/ MayClaim(t) /\ \E status \in {"provisioning", "awaiting_payment"} :
                    ClaimForSession(t, status)
               \/ EndProvisioningLease(t)
        PROVE  Due(s)'
    BY <1>i, <1>r, <2>f, StaysDue
  \* A record is saved that knows of no refund.
  <2>v. ASSUME attempt'[a].pc \notin Refunding, ~attempt'[a].rec.terminal,
               UNCHANGED <<row, refunded, events>>,
               UNCHANGED record \/ \E rec : Save(t, rec) /\ ~rec.terminal
        PROVE  Due(s)'
    BY <1>2, <1>i, <2>v, StaysDue DEF Save
  <2>1. CASE ReadRecord(a) \/ Reread(a)
    <3>1. ASSUME NEW q \in {"readMetadata", "awaitClaim", "rereadMetadata"}, GoWith(a, q, Loaded(s))
          PROVE  attempt'[a].pc \notin Refunding /\ ~attempt'[a].rec.terminal
      BY <1>2, <1>m, <1>p, <2>t, <3>1
    <3>2. CASE ReadRecord(a)
      <4>1. attempt[a].kind \notin {"failed", "expired"}
        <5>1. stripe[s] = "paid"  BY <1>i DEF OuterInv, CheckoutInv
        <5> QED
          BY <1>2, <5>1 DEF ClosedInv
      <4>2. UNCHANGED <<row, record, refunded, events>>
        BY <1>2, <1>m, <3>2 DEF ReadRecord, Handled, world
      <4>3. attempt'[a].pc \notin Refunding /\ ~attempt'[a].rec.terminal
        BY <1>2, <1>m, <1>q, <3>1, <3>2, <4>1 DEF ReadRecord
      <4> QED
        BY <2>f, <4>2, <4>3
    <3>3. CASE Reread(a)
      <4>1. UNCHANGED <<row, record, refunded, events>>
        BY <1>2, <1>m, <3>3 DEF Reread, Handled, world
      <4>2. attempt'[a].pc \notin Refunding /\ ~attempt'[a].rec.terminal
        BY <1>2, <1>m, <1>q, <3>1, <3>3 DEF Reread
      <4> QED
        BY <2>f, <4>1, <4>2
    <3> QED
      BY <2>1, <3>2, <3>3
  <2>2. CASE ReadMetadata(a) \/ RereadMetadata(a)
    BY <1>2, <2>2, <2>f, <2>g DEF ReadMetadata, RereadMetadata, Owned, stores, world
  <2>3. CASE LookAtHolder(a)
    BY <1>2, <1>i, <1>q, <2>3, <2>f DEF LookAtHolder, stores, world
  <2>4. CASE Claim(a)
    BY <1>2, <2>4, <2>f, <2>g DEF Claim, world
  <2>5. CASE Register(a)
    BY <2>5, <2>f, <2>g DEF Register, stores
  <2>6. CASE LookUp(a)
    BY <2>6, <2>f, <2>g DEF LookUp, stores, world
  <2>7. CASE NoteBought(a)
    <3>1. ~[attempt[a].rec EXCEPT !.bought = TRUE, !.status = "provisioning"].terminal
      BY <1>2, <1>m, <1>i DEF Records
    <3> QED
      BY <2>7, <2>t, <2>v, <3>1, <1>p DEF NoteBought, world
  <2>8. CASE SetUp(a)
    BY <1>2, <1>m, <2>8, <2>g, <2>v DEF SetUp, world
  <2>9. CASE SaveMetadata(a)
    BY <2>9, <2>f, <2>g DEF SaveMetadata, world
  <2>10. CASE AwaitClaim(a)
    BY <1>2, <2>10, <2>f, <2>g DEF AwaitClaim, world
  <2>11. CASE AwaitSave(a)
    <3>1. ~[attempt[a].rec EXCEPT !.status = "awaiting_payment"].terminal
      BY <1>2, <1>m, <1>i DEF Records
    <3> QED
      BY <1>q, <2>11, <2>v, <3>1 DEF AwaitSave, world
  <2>12. CASE CallFails(a)
    BY <2>12, <2>f, <2>g DEF CallFails, stores, world
  <2>13. CASE GiveUp(a)
    <3>1. pc = "giveUp"  BY <1>2, <1>m, <2>13 DEF GiveUp, Refunding
    <3> QED
      BY <1>q, <2>13, <2>f, <3>1 DEF GiveUp, world
  <2>14. CASE Acknowledge(a)
    <3>1. attempt[a].kind # "paid"  BY <1>2, <1>m, <2>14 DEF Acknowledge
    <3>2. Event(s, "paid") \in events'
      BY <1>2, <1>i, <2>14, <3>1 DEF Acknowledge, Event
    <3> QED
      BY <1>i, <1>q, <2>14, <3>2, StaysDue DEF Acknowledge, stores, world
  <2>15. CASE Dies(a)
    BY <1>q, <2>15, <2>f DEF Dies, stores, world
  <2>16. ASSUME NEW kind \in EventKinds, Deliver(a, kind) PROVE Due(s)'
    <3>1. attempt'[a].pc = "start" /\ attempt'[a].rec = NoRecord
      BY <2>16 DEF Deliver, TypeOK, Idle
    <3>2. attempt'[a].pc \notin Refunding /\ ~attempt'[a].rec.terminal
      BY <3>1 DEF NoRecord, Refunding
    <3> QED
      BY <2>16, <2>f, <3>2 DEF Deliver, stores, world
  <2>17. ~(SaveReady(a) \/ Release(a))
    BY <1>2, <1>m DEF SaveReady, Release
  <2>18. ~(LastCheck(a) \/ OwnerCheck(a) \/ NoteTerminal(a) \/ Refund(a) \/ SaveRefunded(a) \/ LetGo(a)
           \/ EndSave(a))
    BY <1>2, <1>m DEF LastCheck, OwnerCheck, NoteTerminal, Refund, SaveRefunded, LetGo, EndSave,
       Refunding, Ending
  <2> QED
    BY <2>1, <2>2, <2>3, <2>4, <2>5, <2>6, <2>7, <2>8, <2>9, <2>10, <2>11, <2>12, <2>13, <2>14, <2>15,
       <2>16, <2>17, <2>18 DEF Step, Work
<1> QED
  BY <1>1, <1>2

\* The purchase itself: the buyer has the row and will be delivered again.
LEMMA RegisterUsed ==
  ASSUME TypeOK, OuterInv, SafeInv, EmptyInv, FreshInv, NEW a \in Attempts, Register(a),
         metadata = NoOne, torn' = {}
  PROVE  Due(Serves[a])'
<1> DEFINE s == Serves[a]
<1>1. /\ s \in Sessions /\ s # NoOne /\ attempt[a].pc \in Provisioning
      /\ attempt[a].pc \in Fulfilling /\ attempt[a].pc \in Claimed
  BY Names DEF Register, Provisioning, Fulfilling, Claimed
<1>2. /\ row.status = "provisioning" /\ row.session = s
      /\ s \notin refunded /\ stripe[s] = "paid" /\ Event(s, "paid") \in events
      /\ ~record[s].terminal
  <2>1. HoldInv(a) /\ OutcomeInv(a) /\ KindInv(a) /\ SessionInv(s) /\ attempt[a].pc # "idle"
    BY <1>1 DEF SafeInv, OuterInv, Register
  <2>2. attempt[a].kind = "paid"
    BY <1>1, <2>1 DEF KindInv
  <2> QED
    BY <1>1, <2>1, <2>2 DEF HoldInv, OutcomeInv, KindInv, SessionInv, FreshInv
<1>3. ASSUME NEW b \in Attempts, Serves[b] = s
      PROVE  attempt[b].pc \notin Refunding /\ ~attempt[b].rec.terminal
  <2>1. attempt[b].pc \in Fulfilling \cup Quiet
    BY <1>1, <1>3 DEF SafeInv, SameHandler
  <2>2. CopyInv(b)
    BY DEF SafeInv
  <2>3. attempt[b].pc \in Fulfilling \cup Quiet => attempt[b].pc \notin Refunding
    BY DEF Fulfilling, Provisioning, Quiet, Refunding
  <2> QED
    BY <2>1, <2>2, <2>3 DEF CopyInv, EmptyInv, NoRecord
<1>4. attempt'[a].pc \in {"noteBought", "lookupTaken", "lookupError"} /\ attempt'[a].rec = attempt[a].rec
  <2>1. ASSUME NEW q \in {"noteBought", "lookupTaken", "lookupError"}, Go(a, q)
        PROVE  attempt'[a].pc = q /\ attempt'[a].rec = attempt[a].rec
    BY <2>1, Goes DEF Go
  <2> QED
    BY <2>1 DEF Register
<1>5. \A b \in Attempts \ {a} : attempt'[b] = attempt[b]
  BY OneMoves DEF Step, Work
<1>6. UNCHANGED <<row, record, refunded, events>>
  BY DEF Register, stores
<1> QED
  BY <1>2, <1>3, <1>4, <1>5, <1>6 DEF Due, Refunding

LEMMA WorkUsed ==
  ASSUME TypeOK, OuterInv, SafeInv, ClosedInv, EmptyInv, FreshInv, UsedInv, NEW a \in Attempts, Step(a),
         torn' = {}
  PROVE  UsedInv'
<1>1. SUFFICES ASSUME registrar' = "ours", metadata' = NoOne
               PROVE  \E s \in Sessions : Due(s)'
  BY DEF UsedInv
<1>2. metadata = NoOne /\ (Register(a) \/ registrar = "ours")
  <2>1. SaveMetadata(a) => metadata' # NoOne
    BY Names DEF SaveMetadata
  <2> QED
    BY <1>1, <2>1 DEF Step, Work, ReadRecord, Reread, ReadMetadata, LookAtHolder, RereadMetadata, LookUp,
       LastCheck, OwnerCheck, Claim, Release, GiveUp, LetGo, AwaitClaim, NoteBought, NoteTerminal, SetUp,
       SaveMetadata, SaveReady, SaveRefunded, AwaitSave, EndSave, Refund, Acknowledge, Dies, CallFails,
       Deliver, stores, world, Register
<1>3. CASE Register(a)
  BY <1>2, <1>3, RegisterUsed, Names
<1>4. CASE registrar = "ours"
  <2>1. PICK s \in Sessions : Due(s)
    BY <1>2, <1>4 DEF UsedInv
  <2> QED
    BY <1>2, <1>4, <2>1, WorkDue
<1> QED
  BY <1>2, <1>3, <1>4

LEMMA RequestsUsed ==
  ASSUME TypeOK, OuterInv, FreshInv, UsedInv, NEW s \in Sessions, Checkout(s) \/ Buyer(s)
  PROVE  FreshInv' /\ UsedInv'
<1>1. ASSUME NEW t \in Sessions, Due(t) PROVE Due(t)'
  <2>1. stripe[t] = "paid"
    BY <1>1 DEF Due, OuterInv, CheckoutInv
  <2>2. UNCHANGED row
    <3>1. row # NoRow /\ row.status # "checkout"
      BY <1>1 DEF Due, NoRow
    <3> QED
      BY <3>1 DEF Checkout, CheckFree, Hold, ExpireOld, MoveHold, CancelOld, CreateSession, Attach,
         SaveCheckout, Abandon, DropHold, CloseRecord, RequestDies, Buyer, AtStripe, AbortCheckout,
         HeldBy, MayHold, ReleaseCheckoutHold, stores
  <2> QED
    BY <1>1, <2>1, <2>2, RequestFrame DEF Due, RecordsSpared
<1>2. UNCHANGED <<registrar, metadata, attempt>>
  <2>1. UNCHANGED registrar
    BY DEF Checkout, CheckFree, Hold, ExpireOld, MoveHold, CancelOld, CreateSession, Attach,
       SaveCheckout, Abandon, DropHold, CloseRecord, RequestDies, Buyer, AtStripe, AbortCheckout, world
  <2> QED
    BY <2>1, RequestFrame
<1>3. FreshInv'
  <2>1. ASSUME NEW a \in Attempts, attempt[a].pc \in Fulfilling PROVE stripe[Serves[a]] = "paid"
    BY <2>1, Names DEF OuterInv, KindInv, Fulfilling, Provisioning
  <2> QED
    BY <1>2, <2>1, RequestFrame, Names DEF FreshInv, RecordsSpared
<1> QED
  BY <1>1, <1>2, <1>3 DEF UsedInv

LEMMA OursStep ==
  ASSUME IndInv, OursInv, [Next]_vars
  PROVE  OursInv'
<1> USE DEF IndInv, OursInv
<1>1. ASSUME NEW a \in Attempts, Step(a) PROVE OursInv'
  BY <1>1, WorkClosed, WorkFresh, WorkUsed, TornStays
<1>2. ASSUME NEW s \in Sessions, Checkout(s) \/ Buyer(s) PROVE OursInv'
  BY <1>2, RequestsClosed, RequestsUsed, TornStays
<1>3. CASE Lapse \/ SoldElsewhere \/ UNCHANGED vars
  <2>1. /\ UNCHANGED <<record, metadata, stripe, refunded, events, attempt>>
        /\ row'.status = row.status /\ row'.session = row.session
        /\ registrar' = "ours" => registrar = "ours"
    BY <1>3 DEF Lapse, SoldElsewhere, vars, stores, world, TypeOK, Rows
  <2> QED
    BY <1>3, <2>1, TornStays DEF ClosedInv, EmptyInv, FreshInv, UsedInv, Due
<1> QED
  BY <1>1, <1>2, <1>3 DEF Next, Step

LEMMA OursInductive == Spec => []OursInv
<1>1. Init => OursInv
  BY InitOurs
<1>2. IndInv /\ OursInv /\ [Next]_vars => OursInv'
  BY OursStep
<1> QED
  BY <1>1, <1>2, Inductive, PTL DEF Spec

-----------------------------------------------------------------------------
(* Nobody sets up or owns a domain that was not bought.                    *)

SettingUp == {"noteBought", "setUp", "saveMetadata", "saveReady", "release"}

\* Who goes on after the purchase, a record that tells of it, and an owner: the domain
\* is ours.
BoughtInv ==
  /\ \A a \in Attempts : attempt[a].rec.bought \/ attempt[a].pc \in SettingUp => registrar = "ours"
  /\ \A s \in Sessions : record[s].bought => registrar = "ours"
  /\ metadata # NoOne => registrar = "ours"

LEMMA InitBought == Init => BoughtInv
BY DEF Init, BoughtInv, SettingUp, Idle, NoRecord

\* What is ours stays ours.
LEMMA OursStays == ASSUME [Next]_vars, registrar = "ours" PROVE registrar' = "ours"
<1>1. ASSUME NEW s \in Sessions, Checkout(s) \/ Buyer(s) PROVE registrar' = "ours"
  BY <1>1 DEF Checkout, CheckFree, Hold, ExpireOld, MoveHold, CancelOld, CreateSession, Attach,
     SaveCheckout, Abandon, DropHold, CloseRecord, RequestDies, Buyer, AtStripe, AbortCheckout, world
<1>2. ASSUME NEW a \in Attempts, Step(a) PROVE registrar' = "ours"
  BY <1>2 DEF Step, Work, ReadRecord, Reread, ReadMetadata, LookAtHolder, RereadMetadata, LookUp,
     LastCheck, OwnerCheck, Claim, Release, GiveUp, LetGo, AwaitClaim, Register, NoteBought, NoteTerminal,
     SetUp, SaveMetadata, SaveReady, SaveRefunded, AwaitSave, EndSave, Refund, Acknowledge, Dies, CallFails,
     Deliver, world
<1>3. CASE Lapse \/ SoldElsewhere \/ UNCHANGED vars
  BY <1>3 DEF Lapse, SoldElsewhere, vars, world
<1> QED
  BY <1>1, <1>2, <1>3 DEF Next, Step

LEMMA WorkBought ==
  ASSUME TypeOK, BoughtInv, NEW a \in Attempts, Step(a)
  PROVE  BoughtInv'
<1> DEFINE s == Serves[a]
           pc == attempt[a].pc
<1>1. /\ s \in Sessions /\ attempt[a].rec \in Records
      /\ \A b \in Attempts \ {a} : attempt'[b] = attempt[b]
      /\ registrar = "ours" => registrar' = "ours"
  BY Names, OneMoves, OursStays DEF TypeOK, Next, Step
<1>2. ASSUME attempt'[a].rec.bought \/ attempt'[a].pc \in SettingUp => registrar' = "ours",
             record' = record \/ \E r : Save(s, r) /\ (r.bought => registrar' = "ours"),
             metadata' # NoOne => registrar' = "ours"
      PROVE  BoughtInv'
  BY <1>1, <1>2 DEF BoughtInv, Save, TypeOK
<1>3. ASSUME NEW q, NEW r, GoWith(a, q, r), r.bought \/ q \in SettingUp => registrar' = "ours"
      PROVE  attempt'[a].rec.bought \/ attempt'[a].pc \in SettingUp => registrar' = "ours"
  BY <1>3, Goes
<1>4. ASSUME Answer200(a) \/ AnswerRetry(a)
      PROVE  attempt'[a].rec.bought \/ attempt'[a].pc \in SettingUp => registrar' = "ours"
  <2>1. attempt'[a].rec = NoRecord /\ attempt'[a].pc \in {"answer", "idle"}
    BY <1>4 DEF Answer200, AnswerRetry, TypeOK, Idle
  <2> QED
    BY <2>1 DEF NoRecord, SettingUp
<1>5. /\ attempt[a].rec.bought \/ pc \in SettingUp => registrar' = "ours"
      /\ record[s].bought => registrar' = "ours"
      /\ metadata # NoOne => registrar' = "ours"
  BY <1>1 DEF BoughtInv
<1>6. Loaded(s).bought => registrar' = "ours"
  BY <1>5 DEF Loaded, NoRecord
<1>7. ASSUME NEW q, Go(a, q), q \in SettingUp => registrar' = "ours"
      PROVE  attempt'[a].rec.bought \/ attempt'[a].pc \in SettingUp => registrar' = "ours"
  BY <1>3, <1>5, <1>7 DEF Go
<1>8. CASE ReadRecord(a) \/ Reread(a)
  <2>1. {"lastCheck", "readMetadata", "rereadMetadata", "awaitClaim", "endSave", "endRelease"} \cap SettingUp = {}
    BY DEF SettingUp
  <2>2. attempt'[a].rec.bought \/ attempt'[a].pc \in SettingUp => registrar' = "ours"
    BY <1>3, <1>4, <1>6, <1>8, <2>1 DEF ReadRecord, Reread
  <2> QED
    BY <1>2, <1>5, <1>8, <2>2 DEF ReadRecord, Reread
<1>9. CASE ReadMetadata(a) \/ Claim(a) \/ LookAtHolder(a) \/ GiveUp(a) \/ LastCheck(a)
           \/ OwnerCheck(a) \/ LetGo(a) \/ AwaitClaim(a) \/ CallFails(a) \/ Dies(a) \/ Release(a)
           \/ Refund(a) \/ Acknowledge(a)
  <2>1. {"claim", "lastCheck", "reread", "holder", "ownerCheck", "noteTerminal", "refund", "awaitSave",
         "giveUp", "saveRefunded"} \cap SettingUp = {}
    BY DEF SettingUp
  <2>2. attempt'[a].rec.bought \/ attempt'[a].pc \in SettingUp => registrar' = "ours"
    BY <1>4, <1>7, <1>9, <2>1 DEF ReadMetadata, Owned, Claim, LookAtHolder, GiveUp, LastCheck, OwnerCheck,
       LetGo, AwaitClaim, CallFails, Dies, Release, Refund, Acknowledge
  <2> QED
    BY <1>2, <1>5, <1>9, <2>2 DEF ReadMetadata, Claim, LookAtHolder, GiveUp, LastCheck, OwnerCheck,
       LetGo, AwaitClaim, CallFails, Dies, Release, Refund, Acknowledge, stores
<1>10. CASE RereadMetadata(a) \/ LookUp(a) \/ Register(a)
  <2>1. {"lastCheck", "register", "giveBack", "giveUp", "lookupTaken", "lookupError"} \cap SettingUp = {}
    BY DEF SettingUp
  <2>2. attempt'[a].rec.bought \/ attempt'[a].pc \in SettingUp => registrar' = "ours"
    BY <1>1, <1>5, <1>7, <1>10, <2>1 DEF RereadMetadata, Owned, LookUp, Register
  <2> QED
    BY <1>2, <1>5, <1>10, <2>2 DEF RereadMetadata, LookUp, Register, stores
<1>11. CASE NoteBought(a) \/ SetUp(a) \/ SaveMetadata(a) \/ SaveReady(a)
  <2>1. registrar' = "ours"
    BY <1>5, <1>11 DEF NoteBought, SetUp, SaveMetadata, SaveReady, SettingUp
  <2>2. record' = record \/ \E r : Save(s, r)
    BY <1>11 DEF NoteBought, SetUp, SaveMetadata, SaveReady
  <2> QED
    BY <1>2, <2>1, <2>2
<1>12. CASE NoteTerminal(a) \/ SaveRefunded(a) \/ AwaitSave(a) \/ EndSave(a)
  <2>1. {"refund", "letGo", "endRelease"} \cap SettingUp = {}
    BY DEF SettingUp
  <2>2. /\ [attempt[a].rec EXCEPT !.terminal = TRUE].bought = attempt[a].rec.bought
        /\ \A status : [attempt[a].rec EXCEPT !.status = status].bought = attempt[a].rec.bought
    BY <1>1 DEF Records
  <2>3. attempt'[a].rec.bought \/ attempt'[a].pc \in SettingUp => registrar' = "ours"
    BY <1>3, <1>4, <1>5, <1>7, <1>12, <2>1, <2>2 DEF NoteTerminal, SaveRefunded, AwaitSave, EndSave
  <2>4. metadata' = metadata /\ \E r : Save(s, r) /\ r.bought = attempt[a].rec.bought
    BY <1>12, <2>2 DEF NoteTerminal, SaveRefunded, AwaitSave, EndSave
  <2> QED
    BY <1>2, <1>5, <2>3, <2>4
<1>13. ASSUME NEW kind \in EventKinds, Deliver(a, kind) PROVE BoughtInv'
  <2>1. attempt'[a].pc = "start" /\ attempt'[a].rec = NoRecord
    BY <1>13 DEF Deliver, TypeOK, Idle
  <2> QED
    BY <1>2, <1>5, <1>13, <2>1 DEF Deliver, stores, NoRecord, SettingUp
<1> QED
  BY <1>8, <1>9, <1>10, <1>11, <1>12, <1>13 DEF Step, Work

LEMMA BoughtStep ==
  ASSUME TypeOK, OuterInv, BoughtInv, [Next]_vars
  PROVE  BoughtInv'
<1>1. ASSUME NEW a \in Attempts, Step(a) PROVE BoughtInv'
  BY <1>1, WorkBought
<1>2. ASSUME NEW s \in Sessions, Checkout(s) \/ Buyer(s) PROVE BoughtInv'
  <2>1. UNCHANGED <<metadata, attempt>> /\ (registrar = "ours" => registrar' = "ours")
    BY <1>2, RequestFrame, OursStays
  <2>2. \A t \in Sessions : record'[t].bought => record[t].bought
    <3>1. /\ ~[NoRecord EXCEPT !.status = "canceled"].bought /\ ~[NoRecord EXCEPT !.status = "pending"].bought
          /\ [record[s] EXCEPT !.status = "canceled"].bought = record[s].bought
      BY DEF NoRecord, TypeOK, Records
    <3> QED
      BY <1>2, <3>1 DEF Checkout, CheckFree, Hold, ExpireOld, MoveHold, CancelOld, CreateSession, Attach,
         SaveCheckout, Abandon, DropHold, CloseRecord, RequestDies, Buyer, AtStripe, AbortCheckout, stores,
         Save, TypeOK
  <2> QED
    BY <2>1, <2>2 DEF BoughtInv
<1>3. CASE Lapse \/ SoldElsewhere \/ UNCHANGED vars
  BY <1>3 DEF Lapse, SoldElsewhere, vars, stores, world, BoughtInv
<1> QED
  BY <1>1, <1>2, <1>3 DEF Next, Step

LEMMA BoughtInductive == Spec => []BoughtInv
<1>1. Init => BoughtInv
  BY InitBought
<1>2. IndInv /\ BoughtInv /\ [Next]_vars => BoughtInv'
  BY BoughtStep DEF IndInv
<1> QED
  BY <1>1, <1>2, Inductive, PTL DEF Spec

-----------------------------------------------------------------------------
(* The purchase keeps the promise.                                         *)

TornKept == torn # {} => torn' # {}

\* A step that changes nothing of what PurchasePromise speaks of.
LEMMA NothingPromised ==
  ASSUME TornKept, UNCHANGED <<record, metadata, refunded>>, (registrar' = "ours") = (registrar = "ours"),
         \A t \in Sessions : /\ stripe'[t] = "paid" <=> stripe[t] = "paid"
                             /\ Event(t, "paid") \in events' <=> Event(t, "paid") \in events
  PROVE  Promise!Next
<1>1. \A t \in Sessions : /\ Paid(t)' <=> Paid(t)
                          /\ Answered(t)' <=> Answered(t)
                          /\ Outcome(t)' = Outcome(t)
  BY DEF Paid, Answered, Outcome, Event
<1>2. /\ {t \in Sessions : Paid(t)}' = {t \in Sessions : Paid(t)}
      /\ {t \in Sessions : Answered(t)}' = {t \in Sessions : Answered(t)}
      /\ [t \in Sessions |-> Outcome(t)]' = [t \in Sessions |-> Outcome(t)]
  BY <1>1
<1> HIDE DEF Paid, Answered, Outcome
<1> QED
  BY <1>2 DEF TornKept, Promise!Next, Promise!Tear, Promise!payments, Promise!domain

\* A session's record is saved.
LEMMA SavePromised ==
  ASSUME TypeOK, TornKept, NEW s \in Sessions, NEW r, Save(s, r), UNCHANGED <<metadata, world, events>>,
         torn = {} => /\ r.status = "ready" => metadata = s
                      /\ r.status = "refunded" => s \in refunded
  PROVE  Promise!Next
<1> DEFINE m == IF Handled(r) THEN r.status ELSE "open"
<1>1. m \in {"open", "ready", "refunded"}
  BY DEF Handled
<1>2. record'[s] = r /\ \A t \in Sessions \ {s} : record'[t] = record[t]
  BY DEF TypeOK, Save
<1>3. Outcome(s)' = m /\ \A t \in Sessions \ {s} : Outcome(t)' = Outcome(t)
  BY <1>2 DEF Outcome
<1>4. torn = {} => (m = "ready" => metadata = s) /\ (m = "refunded" => s \in refunded)
  OBVIOUS
<1>5. \A t \in Sessions : (Paid(t)' <=> Paid(t)) /\ (Answered(t)' <=> Answered(t))
  BY DEF Paid, Answered, Event, world
<1>6. /\ {t \in Sessions : Paid(t)}' = {t \in Sessions : Paid(t)}
      /\ {t \in Sessions : Answered(t)}' = {t \in Sessions : Answered(t)}
  BY <1>5
<1>7. [t \in Sessions |-> Outcome(t)]' = [[t \in Sessions |-> Outcome(t)] EXCEPT ![s] = m]
  BY <1>3
<1>8. UNCHANGED <<metadata, refunded, registrar>>
  BY DEF world
<1> HIDE DEF m, Paid, Answered, Outcome
<1>9. Promise!Mark(s)
  BY <1>1, <1>4, <1>6, <1>7, <1>8 DEF Promise!Mark, Promise!payments, Promise!domain
<1> QED
  BY <1>9 DEF TornKept, Promise!Next

\* Requests and buyers.
LEMMA RequestsPromised ==
  ASSUME TypeOK, OuterInv, TornKept, NEW s \in Sessions, Checkout(s) \/ Buyer(s)
  PROVE  Promise!Next
<1> USE DEF Event
<1>0. /\ request[s].pc \in {"create", "attach", "save"} => stripe[s] # "paid"
      /\ stripe[s] # "paid" => Event(s, "paid") \notin events
  BY DEF OuterInv, CheckoutInv
<1>1. CASE CheckFree(s) \/ Hold(s) \/ MoveHold(s) \/ DropHold(s) \/ RequestDies(s)
  BY <1>1, NothingPromised DEF CheckFree, Hold, MoveHold, DropHold, RequestDies, stores, world
<1>2. CASE ExpireOld(s) \/ Abandon(s)
  BY <1>2, NothingPromised DEF ExpireOld, Abandon, stores, TypeOK
<1>3. CASE CancelOld(s)
  <2>1. request[s].old \in Sessions
    BY <1>3 DEF CancelOld, OuterInv, CheckoutInv
  <2>2. [NoRecord EXCEPT !.status = "canceled"].status = "canceled"
    BY DEF NoRecord
  <2> QED
    BY <1>3, <2>1, <2>2, SavePromised DEF CancelOld
<1>4. CASE CreateSession(s)
  BY <1>0, <1>4, NothingPromised DEF CreateSession, TypeOK
<1>5. ASSUME AbortCheckout(s), request[s].pc \in {"attach", "save"}, UNCHANGED <<metadata, registrar, refunded>>
      PROVE  Promise!Next
  BY <1>0, <1>5, NothingPromised DEF AbortCheckout, TypeOK
<1>6. CASE Attach(s)
  <2>1. CASE AbortCheckout(s)
    BY <1>5, <1>6, <2>1 DEF Attach
  <2>2. CASE UNCHANGED <<record, stripe, events>>
    BY <1>6, <2>2, NothingPromised DEF Attach
  <2> QED
    BY <1>6, <2>1, <2>2 DEF Attach
<1>7. CASE SaveCheckout(s)
  <2>1. CASE AbortCheckout(s)
    BY <1>5, <1>7, <2>1 DEF SaveCheckout
  <2>2. CASE Save(s, [NoRecord EXCEPT !.status = "pending"]) /\ UNCHANGED <<stripe, events>>
    <3>1. [NoRecord EXCEPT !.status = "pending"].status = "pending"
      BY DEF NoRecord
    <3> QED
      BY <1>7, <2>2, <3>1, SavePromised DEF SaveCheckout, world
  <2> QED
    BY <1>7, <2>1, <2>2 DEF SaveCheckout
<1>8. CASE CloseRecord(s)
  <2>1. CASE UNCHANGED record
    BY <1>8, <2>1, NothingPromised DEF CloseRecord, world
  <2>2. CASE Save(s, [record[s] EXCEPT !.status = "canceled"])
    <3>1. [record[s] EXCEPT !.status = "canceled"].status = "canceled"
      BY DEF TypeOK, Records
    <3> QED
      BY <1>8, <2>2, <3>1, SavePromised DEF CloseRecord
  <2> QED
    BY <1>8, <2>1, <2>2 DEF CloseRecord
<1>9. CASE Buyer(s)
  <2>1. CASE stripe'[s] # "paid"
    BY <1>0, <1>9, <2>1, NothingPromised DEF Buyer, AtStripe, stores, TypeOK
  <2>2. CASE stripe'[s] = "paid"
    <3>1. /\ stripe[s] # "paid" /\ Event(s, "paid") \in events'
          /\ UNCHANGED <<record, metadata, refunded, registrar>>
          /\ \A t \in Sessions \ {s} : /\ stripe'[t] = stripe[t]
                                       /\ Event(t, "paid") \in events' <=> Event(t, "paid") \in events
      BY <1>9, <2>2 DEF Buyer, AtStripe, stores, TypeOK
    <3>2. /\ Paid(s)' /\ ~Paid(s) /\ ~Answered(s)' /\ ~Answered(s)
          /\ \A t \in Sessions \ {s} : (Paid(t)' <=> Paid(t)) /\ (Answered(t)' <=> Answered(t))
          /\ \A t \in Sessions : Outcome(t)' = Outcome(t)
      BY <2>2, <3>1 DEF Paid, Answered, Outcome
    <3>3. /\ {t \in Sessions : Paid(t)}' = {t \in Sessions : Paid(t)} \cup {s}
          /\ {t \in Sessions : Answered(t)}' = {t \in Sessions : Answered(t)}
          /\ [t \in Sessions |-> Outcome(t)]' = [t \in Sessions |-> Outcome(t)]
      BY <3>2
    <3> HIDE DEF Paid, Answered, Outcome
    <3>4. Promise!Pay(s)
      BY <3>1, <3>3 DEF Promise!Pay, Promise!domain
    <3> QED
      BY <3>4 DEF TornKept, Promise!Next
  <2> QED
    BY <2>1, <2>2
<1> QED
  BY <1>1, <1>2, <1>3, <1>4, <1>6, <1>7, <1>8, <1>9 DEF Checkout

\* Invocations.
LEMMA WorkPromised ==
  ASSUME IndInv, BoughtInv, TornKept, NEW a \in Attempts, Step(a)
  PROVE  Promise!Next
<1> DEFINE s == Serves[a]
           pc == attempt[a].pc
<1>0. /\ s \in Sessions /\ s # NoOne /\ TypeOK /\ attempt[a].rec \in Records
      /\ KindInv(a) /\ CheckoutInv(s)
      /\ torn = {} => CopyInv(a) /\ OutcomeInv(a) /\ HoldInv(a)
  BY Names DEF IndInv, OuterInv, SafeInv, TypeOK
<1>p. /\ pc \in Fulfilling \cup Refunding => stripe[s] = "paid"
      /\ {"register", "noteBought", "setUp", "saveMetadata", "saveReady"} \subseteq Provisioning
      /\ Provisioning \subseteq Fulfilling
      /\ {"refund", "noteTerminal", "saveRefunded"} \subseteq Refunding
  BY <1>0 DEF KindInv, Fulfilling, Provisioning, Refunding
<1>q. {t \in Sessions : Paid(t)} = {t \in Sessions : stripe[t] = "paid"}
  BY DEF Paid
<1>1. CASE \/ ReadRecord(a) \/ ReadMetadata(a) \/ Claim(a) \/ LookAtHolder(a) \/ Reread(a)
           \/ RereadMetadata(a) \/ LookUp(a) \/ Release(a) \/ GiveUp(a) \/ LastCheck(a) \/ OwnerCheck(a)
           \/ LetGo(a) \/ AwaitClaim(a) \/ CallFails(a) \/ Dies(a)
           \/ \E kind \in EventKinds : Deliver(a, kind)
  BY <1>1, NothingPromised DEF ReadRecord, ReadMetadata, Claim, LookAtHolder, Reread, RereadMetadata, LookUp,
     Release, GiveUp, LastCheck, OwnerCheck, LetGo, AwaitClaim, CallFails, Dies, Deliver, stores, world
\* What a step that touches one variable leaves alone.
<1>u. ASSUME UNCHANGED <<record, stripe>>
      PROVE  /\ {t \in Sessions : Paid(t)}' = {t \in Sessions : Paid(t)}
             /\ [t \in Sessions |-> Outcome(t)]' = [t \in Sessions |-> Outcome(t)]
  BY <1>u DEF Paid, Outcome
<1>v. ASSUME UNCHANGED <<events, stripe>>
      PROVE  {t \in Sessions : Answered(t)}' = {t \in Sessions : Answered(t)}
  BY <1>v DEF Answered, Paid, Event
<1>2. CASE Register(a)
  <2>1. /\ UNCHANGED <<record, metadata, stripe, refunded, events>> /\ pc = "register"
        /\ registrar' = registrar \/ (registrar = "free" /\ registrar' = "ours")
    BY <1>2 DEF Register, stores
  <2>2. CASE registrar' = registrar
    BY <2>1, <2>2, NothingPromised
  <2>3. CASE registrar = "free" /\ registrar' = "ours"
    <3>1. metadata = NoOne /\ stripe[s] = "paid"
      BY <1>p, <2>1, <2>3 DEF BoughtInv
    <3>2. torn = {} => s \notin refunded
      BY <1>0, <1>p, <2>1 DEF OutcomeInv
    <3>3. Promise!Buy(s)
      <4>1. s \in {t \in Sessions : Paid(t)}
        BY <1>0, <3>1 DEF Paid
      <4> HIDE DEF Paid, Answered, Outcome
      <4> QED
        BY <1>u, <1>v, <2>1, <2>3, <3>1, <3>2, <4>1 DEF Promise!Buy, Promise!Due, Promise!payments
    <3> QED
      BY <1>0, <3>3 DEF TornKept, Promise!Next
  <2> QED
    BY <2>1, <2>2, <2>3
<1>3. CASE SaveMetadata(a)
  <2>1. /\ UNCHANGED <<record, stripe, refunded, registrar, events>> /\ pc = "saveMetadata"
        /\ metadata' = s
    BY <1>3 DEF SaveMetadata, world
  <2>2. stripe[s] = "paid" /\ registrar = "ours"
    BY <1>p, <2>1 DEF BoughtInv, SettingUp
  <2>3. torn = {} => s \notin refunded /\ metadata \in {NoOne, s}
    BY <1>0, <1>p, <2>1 DEF OutcomeInv, HoldInv
  <2>4. Promise!Own(s)
    <3>1. s \in {t \in Sessions : Paid(t)}
      BY <1>0, <2>2 DEF Paid
    <3> HIDE DEF Paid, Answered, Outcome
    <3> QED
      BY <1>u, <1>v, <2>1, <2>2, <2>3, <3>1 DEF Promise!Own, Promise!Due, Promise!payments
  <2> QED
    BY <1>0, <2>4 DEF TornKept, Promise!Next
<1>4. CASE Refund(a)
  <2>1. /\ UNCHANGED <<record, metadata, stripe, registrar, events>> /\ pc = "refund"
        /\ refunded' = refunded \/ refunded' = refunded \cup {s}
    BY <1>4 DEF Refund, stores
  <2>2. CASE refunded' = refunded
    BY <2>1, <2>2, NothingPromised
  <2>3. CASE refunded' = refunded \cup {s}
    <3>1. stripe[s] = "paid" /\ (torn = {} => metadata # s)
      BY <1>0, <1>p, <2>1 DEF OutcomeInv
    <3>2. Promise!GiveBack(s)
      <4>1. s \in {t \in Sessions : Paid(t)}
        BY <1>0, <3>1 DEF Paid
      <4> HIDE DEF Paid, Answered, Outcome
      <4> QED
        BY <1>u, <1>v, <2>1, <2>3, <3>1, <4>1 DEF Promise!GiveBack, Promise!domain
    <3> QED
      BY <1>0, <3>2 DEF TornKept, Promise!Next
  <2> QED
    BY <2>1, <2>2, <2>3
<1>5. CASE Acknowledge(a)
  <2>1. /\ UNCHANGED <<record, metadata, stripe, refunded, registrar>> /\ pc = "answer"
        /\ events' = events \ {Event(s, attempt[a].kind)}
    BY <1>5 DEF Acknowledge, stores, world
  <2>2. \A t \in Sessions : Event(t, "paid") \in events =>
           Event(t, "paid") \in events' \/ (t = s /\ attempt[a].kind = "paid")
    BY <2>1 DEF Event
  <2>3. CASE attempt[a].kind # "paid"
    BY <2>1, <2>2, <2>3, NothingPromised
  <2>4. CASE attempt[a].kind = "paid"
    <3>1. stripe[s] = "paid" /\ (torn = {} => metadata = s \/ s \in refunded)
      BY <1>0, <2>1, <2>4 DEF KindInv, OutcomeInv
    <3>2. /\ Paid(s) /\ Answered(s)'
          /\ \A t \in Sessions \ {s} : Answered(t)' <=> Answered(t)
      BY <1>0, <2>1, <2>2, <2>4, <3>1 DEF Paid, Answered
    <3>3. {t \in Sessions : Answered(t)}' = {t \in Sessions : Answered(t)} \cup {s}
      BY <1>0, <3>2
    <3>4. Promise!Close(s)
      <4>1. s \in {t \in Sessions : Paid(t)}
        BY <1>0, <3>2
      <4> HIDE DEF Paid, Answered, Outcome
      <4> QED
        BY <1>u, <2>1, <3>1, <3>3, <4>1 DEF Promise!Close, Promise!domain
    <3> QED
      BY <1>0, <3>4 DEF TornKept, Promise!Next
  <2> QED
    BY <2>3, <2>4
<1>6. ASSUME NEW r, Save(s, r), UNCHANGED <<metadata, world, events>>,
             torn = {} => ~Handled(r)
      PROVE  Promise!Next
  BY <1>0, <1>6, SavePromised DEF Handled
<1>7. /\ [attempt[a].rec EXCEPT !.bought = TRUE, !.status = "provisioning"].status = "provisioning"
      /\ [attempt[a].rec EXCEPT !.terminal = TRUE].status = attempt[a].rec.status
      /\ \A status : [attempt[a].rec EXCEPT !.status = status].status = status
  BY <1>0 DEF Records
<1>8. CASE NoteBought(a)
  BY <1>6, <1>7, <1>8 DEF NoteBought, Handled
<1>9. CASE SetUp(a)
  <2>1. torn = {} => ~Handled(attempt[a].rec)
    BY <1>0, <1>p, <1>9 DEF SetUp, CopyInv
  <2> QED
    BY <1>6, <1>9, <2>1, NothingPromised DEF SetUp, world
<1>10. CASE NoteTerminal(a)
  <2>1. torn = {} => ~Handled(attempt[a].rec)
    BY <1>0, <1>p, <1>10 DEF NoteTerminal, CopyInv
  <2> QED
    BY <1>6, <1>7, <1>10, <2>1 DEF NoteTerminal, Handled
<1>11. CASE AwaitSave(a)
  BY <1>6, <1>7, <1>11 DEF AwaitSave, Handled
<1>12. CASE EndSave(a)
  BY <1>6, <1>7, <1>12 DEF EndSave, Handled
<1>13. CASE SaveReady(a)
  <2>1. torn = {} => metadata = s
    BY <1>0, <1>13 DEF SaveReady, OutcomeInv
  <2> DEFINE r == [attempt[a].rec EXCEPT !.status = "ready"]
  <2>2. r.status = "ready"
    BY <1>7
  <2>3. Save(s, r) /\ UNCHANGED <<metadata, world, events>>
    BY <1>0, <1>13 DEF SaveReady
  <2> HIDE DEF r
  <2> QED
    BY <1>0, <2>1, <2>2, <2>3, SavePromised
<1>14. CASE SaveRefunded(a)
  <2>1. torn = {} => s \in refunded
    BY <1>0, <1>14 DEF SaveRefunded, OutcomeInv
  <2> DEFINE r == [attempt[a].rec EXCEPT !.status = "refunded"]
  <2>2. r.status = "refunded"
    BY <1>7
  <2>3. Save(s, r) /\ UNCHANGED <<metadata, world, events>>
    BY <1>0, <1>14 DEF SaveRefunded
  <2> HIDE DEF r
  <2> QED
    BY <1>0, <2>1, <2>2, <2>3, SavePromised
<1> QED
  BY <1>1, <1>2, <1>3, <1>4, <1>5, <1>8, <1>9, <1>10, <1>11, <1>12, <1>13, <1>14 DEF Step, Work

-----------------------------------------------------------------------------
(* What follows.                                                           *)

\* The whole purchase implements PurchasePromise: the domain is bought for a payment
\* that is due it, a payment has one outcome, and its event is closed after that.
THEOREM Implements == Spec => KeepsPromise
<1>1. Init => Promise!Init
  <2> SUFFICES ASSUME Init PROVE Promise!Init
    OBVIOUS
  <2>1. \A s \in Sessions : ~Paid(s) /\ ~Answered(s) /\ Outcome(s) = "open"
    BY DEF Init, Paid, Answered, Outcome, NoRecord, Handled
  <2> HIDE DEF Paid, Answered, Outcome
  <2> QED
    BY <2>1 DEF Init, Promise!Init
<1>2. IndInv /\ BoughtInv /\ [Next]_vars => [Promise!Next]_(Promise!vars)
  <2> SUFFICES ASSUME IndInv, BoughtInv, [Next]_vars PROVE Promise!Next
    OBVIOUS
  <2>1. TornKept
    BY TornStays DEF TornKept, IndInv
  <2>2. CASE Lapse \/ SoldElsewhere \/ UNCHANGED vars
    BY <2>1, <2>2, NothingPromised DEF Lapse, SoldElsewhere, vars, stores, world
  <2>3. ASSUME NEW s \in Sessions, Checkout(s) \/ Buyer(s) PROVE Promise!Next
    BY <2>1, <2>3, RequestsPromised DEF IndInv
  <2>4. ASSUME NEW a \in Attempts, Step(a) PROVE Promise!Next
    BY <2>1, <2>4, WorkPromised
  <2> QED
    BY <2>2, <2>3, <2>4 DEF Next, Step
<1> QED
  BY <1>1, <1>2, Inductive, BoughtInductive, PTL DEF Spec, KeepsPromise, Promise!Spec

\* The promise says enough: whatever keeps it tells buyers the truth, never gives the
\* owner the money back, and forgets no payment.
THEOREM PromiseSuffices == KeepsPromise => [](OneOutcome /\ NoPaymentForgotten)
<1> DEFINE Fair(s) == /\ Outcome(s) = "ready" => metadata = s
                      /\ metadata = s => s \notin refunded
                      /\ Answered(s) => metadata = s \/ s \in refunded
           Inv == torn = {} => \A s \in Sessions : Fair(s)
<1>1. Promise!Init => Inv
  <2> SUFFICES ASSUME Promise!Init, NEW s \in Sessions PROVE Fair(s)
    OBVIOUS
  <2>1. /\ s \notin {t \in Sessions : Answered(t)} /\ metadata = NoOne
        /\ [t \in Sessions |-> Outcome(t)][s] = "open"
    BY DEF Promise!Init
  <2> QED
    BY <2>1, Names
<1>2. Inv /\ [Promise!Next]_(Promise!vars) => Inv'
  <2> SUFFICES ASSUME Inv, [Promise!Next]_(Promise!vars), torn' = {}, NEW s \in Sessions
               PROVE  Fair(s)'
    OBVIOUS
  <2> DEFINE closed == {t \in Sessions : Answered(t)}
             mark == [t \in Sessions |-> Outcome(t)]
  <2>1. torn = {} /\ Fair(s)
    BY DEF Promise!Next, Promise!vars
  <2>2. /\ Answered(s) <=> s \in closed
        /\ Answered(s)' <=> s \in closed'
        /\ Outcome(s) = mark[s] /\ Outcome(s)' = mark'[s]
    OBVIOUS
  <2> HIDE DEF Paid, Answered, Outcome
  <2>3. CASE Promise!Tear \/ UNCHANGED Promise!vars
    BY <2>1, <2>2, <2>3 DEF Promise!Tear, Promise!vars, Promise!payments, Promise!domain
  <2>4. ASSUME NEW t \in Sessions, Promise!Pay(t) \/ Promise!Buy(t) PROVE Fair(s)'
    BY <2>1, <2>2, <2>4 DEF Promise!Pay, Promise!Buy, Promise!payments, Promise!domain
  <2>5. ASSUME NEW t \in Sessions, Promise!Own(t) PROVE Fair(s)'
    BY <2>1, <2>2, <2>5, Names DEF Promise!Own, Promise!Due, Promise!payments
  <2>6. ASSUME NEW t \in Sessions, Promise!GiveBack(t) PROVE Fair(s)'
    BY <2>1, <2>2, <2>6 DEF Promise!GiveBack, Promise!domain
  <2>7. ASSUME NEW t \in Sessions, Promise!Mark(t) PROVE Fair(s)'
    BY <2>1, <2>2, <2>7 DEF Promise!Mark, Promise!payments, Promise!domain
  <2>8. ASSUME NEW t \in Sessions, Promise!Close(t) PROVE Fair(s)'
    BY <2>1, <2>2, <2>8 DEF Promise!Close, Promise!domain
  <2> QED
    BY <2>3, <2>4, <2>5, <2>6, <2>7, <2>8 DEF Promise!Next
<1>3. Inv => OneOutcome /\ NoPaymentForgotten
  <2> SUFFICES ASSUME Inv, torn = {}, NEW s \in Sessions
               PROVE  /\ record[s].status = "ready" => metadata = s
                      /\ metadata = s => s \notin refunded
                      /\ stripe[s] = "paid" => Event(s, "paid") \in events \/ metadata = s \/ s \in refunded
    BY DEF OneOutcome, NoPaymentForgotten
  <2>1. Fair(s)
    OBVIOUS
  <2> QED
    BY <2>1 DEF Outcome, Handled, Answered, Paid
<1> QED
  BY <1>1, <1>2, <1>3, PTL DEF KeepsPromise, Promise!Spec

\* Two checkouts never buy and set up the domain at once, unless one session was
\* handled in two ways at once: each that buys has the row, or the metadata.
THEOREM BuyersAreOne == Spec => []OneBuyer
<1>1. IndInv => OneBuyer
  <2> SUFFICES ASSUME IndInv, torn = {}, NEW a \in Attempts, NEW b \in Attempts, Buying(a), Buying(b)
               PROVE  Serves[a] = Serves[b]
    BY DEF OneBuyer
  <2>1. /\ HoldInv(a) /\ HoldInv(b) /\ attempt[a].pc \in Provisioning /\ attempt[b].pc \in Provisioning
        /\ Serves[a] # NoOne /\ Serves[b] # NoOne
    BY Names DEF IndInv, SafeInv, Buying
  <2>2. Provisioning \subseteq Claimed
    BY DEF Claimed
  <2> QED
    BY <2>1, <2>2 DEF HoldInv
<1> QED
  BY <1>1, Inductive, PTL

\* A checkout marked ready has the domain, and the owner is never refunded, unless
\* one session was handled in two ways at once (billing-fulfillment.ts:507).
THEOREM OutcomesAreOne == Spec => []OneOutcome
<1>1. IndInv => OneOutcome
  BY DEF IndInv, SafeInv, SessionInv, OneOutcome
<1> QED
  BY <1>1, Inductive, PTL

\* A payment whose event Stripe need not send again bought the domain or was given
\* back, with the same exception.
THEOREM PaymentsAreRemembered == Spec => []NoPaymentForgotten
<1>1. IndInv => NoPaymentForgotten
  BY DEF IndInv, SafeInv, SessionInv, NoPaymentForgotten
<1> QED
  BY <1>1, Inductive, PTL

\* A domain bought at the registrar is never stranded: it has an owner, or its buyer has
\* the row and Stripe delivers the payment again (billing-fulfillment.ts:159).
THEOREM OursIsNotStranded == Spec => []OursIsUsed
<1>1. OursInv => OursIsUsed
  BY DEF OursInv, UsedInv, Due, OursIsUsed
<1> QED
  BY <1>1, OursInductive, PTL

\* Metadata is written by the session that owns the domain or when nobody does.
THEOREM OwnerIsForGood == Spec => OwnerStays
<1>1. ASSUME IndInv, IndInv', [Next]_vars, torn' = {}, metadata # NoOne
      PROVE  metadata' = metadata
  <2>1. ASSUME NEW s \in Sessions, Checkout(s) \/ Buyer(s) PROVE metadata' = metadata
    BY <1>1, <2>1, RequestFrame DEF IndInv
  <2>2. CASE Lapse \/ SoldElsewhere \/ UNCHANGED vars
    BY <2>2 DEF Lapse, SoldElsewhere, vars, stores
  <2>3. ASSUME NEW a \in Attempts, SaveMetadata(a) PROVE metadata' = metadata
    <3>1. HoldInv(a)
      BY <1>1, TornStays DEF IndInv, SafeInv
    <3> QED
      BY <1>1, <2>3, <3>1 DEF SaveMetadata, HoldInv, Provisioning
  <2>4. ASSUME NEW a \in Attempts, Step(a), ~SaveMetadata(a) PROVE metadata' = metadata
    BY <2>4 DEF Step, Work, ReadRecord, Reread, ReadMetadata, LookAtHolder, RereadMetadata, LookUp, LastCheck,
       OwnerCheck, Claim, Release, GiveUp, LetGo, AwaitClaim, Register, NoteBought, NoteTerminal, SetUp,
       SaveReady, SaveRefunded, AwaitSave, EndSave, Refund, Acknowledge, Dies, CallFails, Deliver, stores
  <2> QED
    BY <1>1, <2>1, <2>2, <2>3, <2>4 DEF Next, Step
<1>2. IndInv /\ IndInv' /\ [Next]_vars => [torn' = {} /\ metadata # NoOne => metadata' = metadata]_vars
  BY <1>1
<1> QED
  BY <1>2, Inductive, PTL DEF Spec, OwnerStays
=============================================================================
