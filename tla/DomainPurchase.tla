--------------------------- MODULE DomainPurchase ---------------------------
(***************************************************************************)
(* Buying one domain: checkouts that compete for it, the reservation row   *)
(* in D1, the webhook invocations that fulfil, hold, release or refund a   *)
(* Checkout Session, the registrar, and the domain's metadata in R2.       *)
(*                                                                         *)
(* One action is one call of an invocation to D1, R2, Stripe or the        *)
(* registrar, with the local code up to the next.  Stripe delivers an      *)
(* event until it is answered 200, also while an earlier delivery is still *)
(* being handled.  A session is named by its checkout request, which also  *)
(* names its hold.  Renewals and subscription events are left out.         *)
(*                                                                         *)
(* A definition that stands unused before the one it is named after is a   *)
(* mutant of it.                                                           *)
(***************************************************************************)
EXTENDS Naturals

CONSTANTS
  Sessions,   \* checkouts of the domain
  Attempts,   \* webhook invocations that may run at once
  Serves,     \* the session whose events an invocation handles
  NoOne,      \* no session
  FaultKinds, \* what may go wrong in this instance
  MaxFaults   \* how often, in total

ASSUME Names == NoOne \notin Sessions /\ Serves \in [Attempts -> Sessions]
ASSUME FaultBound == MaxFaults \in Nat

VARIABLES
  row,       \* the domain_reservation row
  record,    \* R2 billing/sessions/{id}.json of each session
  metadata,  \* billing.checkoutSessionId of the domain's metadata in R2
  registrar, \* whose the domain is at the registrar
  stripe,    \* each Checkout Session at Stripe
  refunded,  \* sessions whose payment Stripe gave back
  events,    \* events Stripe has not had a 200 for
  request,   \* checkout requests
  attempt,   \* webhook invocations
  faults,    \* faults so far
  torn       \* ghost: sessions handled in two different ways at once

stores == <<row, record, metadata>>
world  == <<registrar, stripe, refunded>>
vars == <<stores, world, events, request, attempt, faults, torn>>

-----------------------------------------------------------------------------
NoRow == [status |-> "none", hold |-> NoOne, session |-> NoOne, lapsed |-> FALSE]
Rows == [status : {"none", "checkout", "awaiting_payment", "provisioning"},
         hold : Sessions \cup {NoOne}, session : Sessions \cup {NoOne}, lapsed : BOOLEAN]

\* bought: registration is set; terminal: terminalError is set.
NoRecord == [status |-> "none", bought |-> FALSE, terminal |-> FALSE]
Records == [status : {"none", "pending", "awaiting_payment", "provisioning", "ready",
                      "failed", "refunded", "canceled"},
            bought : BOOLEAN, terminal : BOOLEAN]
\* recordFromSession, where nothing is stored.
Loaded(s) == IF record[s] = NoRecord THEN [NoRecord EXCEPT !.status = "pending"] ELSE record[s]
Handled(rec) == rec.status \in {"ready", "refunded"}
StillUnpaid(rec) == rec.status \in {"pending", "awaiting_payment"}

EventKinds == {"paid", "unpaid", "failed", "expired"}
Event(s, kind) == [session |-> s, kind |-> kind]

\* What an invocation is about to do, by handler.
Provisioning == {"register", "lookupTaken", "lookupError", "noteBought", "setUp",
                 "saveMetadata", "saveReady", "release"}
Fulfilling == Provisioning \cup {"readMetadata", "claim", "holder", "reread",
                                 "rereadMetadata", "giveUp"}
Refunding == {"giveBack", "lastCheck", "ownerCheck", "noteTerminal", "refund", "saveRefunded", "letGo"}
Awaiting == {"awaitClaim", "awaitSave"}
Ending == {"endSave", "endRelease"}
Handlers == {Fulfilling, Refunding, Awaiting, Ending}
Quiet == {"idle", "start", "answer"}
Pcs == Fulfilling \cup Refunding \cup Awaiting \cup Ending \cup Quiet
Idle == [pc |-> "idle", kind |-> "none", rec |-> NoRecord]

RequestPcs == {"idle", "hold", "move", "cancelOld", "create", "attach", "save", "done",
               "abandon", "cancel", "over"}

NoFault == UNCHANGED faults
Fault(kind) == kind \in FaultKinds /\ faults < MaxFaults /\ faults' = faults + 1

Init ==
  /\ row = NoRow
  /\ record = [s \in Sessions |-> NoRecord]
  /\ metadata = NoOne
  /\ registrar = "free"
  /\ stripe = [s \in Sessions |-> "none"]
  /\ refunded = {} /\ events = {}
  /\ request = [s \in Sessions |-> [pc |-> "idle", old |-> NoOne]]
  /\ attempt = [a \in Attempts |-> Idle]
  /\ faults = 0 /\ torn = {}

-----------------------------------------------------------------------------
(* The reservation row; every statement is atomic.                         *)

HeldBy(s) == row.status = "checkout" /\ row.hold = s

MayHold == row = NoRow \/ (row.status = "checkout" /\ row.lapsed)
HoldForCheckout(s) == row' = [NoRow EXCEPT !.status = "checkout", !.hold = s]
AttachCheckoutSession(s) == row' = [row EXCEPT !.session = s]

\* The hold id of a claimed row is never looked at again.
MayClaimUnlessLeased(s) ==
  row = NoRow \/ (row.session = s /\ row.status # "provisioning")
MayClaim(s) ==
  \/ row = NoRow
  \/ row.session = s /\ (row.status # "provisioning" \/ row.lapsed)
  \/ row.status = "checkout" /\ row.lapsed
ClaimForSession(s, status) == row' = [NoRow EXCEPT !.status = status, !.session = s]

EndProvisioningLease(s) ==
  row' = IF row.session = s /\ row.status = "provisioning" THEN [row EXCEPT !.lapsed = TRUE]
                                                           ELSE row
ReleaseForSession(s) == row' = IF row.session = s THEN NoRow ELSE row
ReleaseCheckoutHold(s) == row' = IF HeldBy(s) THEN NoRow ELSE row

\* A lease runs out after five minutes, a hold only after its session expired.
Lapse ==
  /\ \/ row.status = "provisioning"
     \/ row.status = "checkout" /\ stripe[row.hold] # "open"
                                /\ request[row.hold].pc \in {"done", "over"}
  /\ ~row.lapsed
  /\ row' = [row EXCEPT !.lapsed = TRUE]
  /\ UNCHANGED <<record, metadata, world, events, request, attempt, faults, torn>>

-----------------------------------------------------------------------------
(* Checkout requests, and the buyer at Stripe.                             *)

Ask(s, pc) == request' = [request EXCEPT ![s].pc = pc]
Save(s, rec) == record' = [record EXCEPT ![s] = rec]

\* The domain looks free; it may be gone when the hold is taken.  A buyer who
\* is refused asks again.
CheckFree(s) ==
  /\ request[s].pc = "idle" /\ metadata = NoOne /\ registrar # "other"
  /\ Ask(s, "hold")
  /\ UNCHANGED <<stores, world, events, attempt, faults, torn>>

Hold(s) ==
  /\ request[s].pc = "hold"
  /\ IF MayHold THEN HoldForCheckout(s) /\ Ask(s, "create")
               ELSE Ask(s, "idle") /\ UNCHANGED row
  /\ UNCHANGED <<record, metadata, world, events, attempt, faults, torn>>

\* takeOverOwnCheckout: a buyer who starts over.  Stripe expires an open session
\* only.
ExpireOld(s) ==
  /\ request[s].pc = "hold"
  /\ row.status = "checkout" /\ ~row.lapsed /\ row.session \in Sessions
  /\ record[row.session].status = "pending" /\ stripe[row.session] = "open"
  /\ stripe' = [stripe EXCEPT ![row.session] = "expired"]
  /\ events' = events \cup {Event(row.session, "expired")}
  /\ request' = [request EXCEPT ![s] = [pc |-> "move", old |-> row.session]]
  /\ UNCHANGED <<stores, registrar, refunded, attempt, faults, torn>>

MoveHold(s) ==
  /\ request[s].pc = "move"
  /\ IF HeldBy(request[s].old)
       THEN HoldForCheckout(s) /\ Ask(s, "cancelOld")
       ELSE Ask(s, "over") /\ UNCHANGED row
  /\ UNCHANGED <<record, metadata, world, events, attempt, faults, torn>>

CancelOld(s) ==
  /\ request[s].pc = "cancelOld"
  /\ Save(request[s].old, [NoRecord EXCEPT !.status = "canceled"])
  /\ Ask(s, "create")
  /\ UNCHANGED <<row, metadata, world, events, attempt, faults, torn>>

\* A session that was never attached or saved is expired again.
CreateSession(s) ==
  /\ request[s].pc = "create"
  /\ \/ stripe' = [stripe EXCEPT ![s] = "open"] /\ Ask(s, "attach") /\ NoFault /\ UNCHANGED row
     \/ ReleaseCheckoutHold(s) /\ Ask(s, "over") /\ Fault("call") /\ UNCHANGED stripe
  /\ UNCHANGED <<record, metadata, registrar, refunded, events, attempt, torn>>

AbortCheckout(s) ==
  /\ \/ stripe' = [stripe EXCEPT ![s] = "expired"] /\ events' = events \cup {Event(s, "expired")}
     \/ UNCHANGED <<stripe, events>>
  /\ ReleaseCheckoutHold(s)
  /\ Ask(s, "over")
  /\ UNCHANGED record

Attach(s) ==
  /\ request[s].pc = "attach"
  /\ IF HeldBy(s)
       THEN \/ /\ AttachCheckoutSession(s)
               /\ Ask(s, "save") /\ NoFault /\ UNCHANGED <<record, stripe, events>>
            \/ AbortCheckout(s) /\ Fault("call")
       ELSE AbortCheckout(s) /\ NoFault
  /\ UNCHANGED <<metadata, registrar, refunded, attempt, torn>>

SaveCheckout(s) ==
  /\ request[s].pc = "save"
  /\ \/ /\ Save(s, [NoRecord EXCEPT !.status = "pending"])
        /\ Ask(s, "done") /\ NoFault /\ UNCHANGED <<row, stripe, events>>
     \/ AbortCheckout(s) /\ Fault("call")
  /\ UNCHANGED <<metadata, registrar, refunded, attempt, torn>>

\* The buyer, who has the URL now, pays, starts a delayed payment or lets the
\* session expire; a delayed payment is decided later.
AtStripe(s, from, to, kind) ==
  /\ stripe[s] = from
  /\ stripe' = [stripe EXCEPT ![s] = to]
  /\ events' = events \cup {Event(s, kind)}
  /\ UNCHANGED <<stores, registrar, refunded, request, attempt, faults, torn>>
Buyer(s) ==
  \/ /\ request[s].pc = "done"
     /\ AtStripe(s, "open", "paid", "paid") \/ AtStripe(s, "open", "delayed", "unpaid")
  \/ request[s].pc \in {"done", "over"} /\ AtStripe(s, "open", "expired", "expired")
  \/ AtStripe(s, "delayed", "paid", "paid") \/ AtStripe(s, "delayed", "failed", "failed")

\* releaseAbandonedCheckout: expire the session (Stripe refuses once it was paid),
\* then drop the hold, then close a pending record.
Abandon(s) ==
  /\ request[s].pc = "done"
  /\ HeldBy(s) /\ stripe[s] = "open"
  /\ stripe' = [stripe EXCEPT ![s] = "expired"]
  /\ events' = events \cup {Event(s, "expired")}
  /\ Ask(s, "abandon")
  /\ UNCHANGED <<stores, registrar, refunded, attempt, faults, torn>>
DropHold(s) ==
  /\ request[s].pc = "abandon"
  /\ ReleaseCheckoutHold(s) /\ Ask(s, "cancel")
  /\ UNCHANGED <<record, metadata, world, events, attempt, faults, torn>>
CloseRecord(s) ==
  /\ request[s].pc = "cancel"
  /\ IF record[s].status = "pending" THEN Save(s, [record[s] EXCEPT !.status = "canceled"])
                                     ELSE UNCHANGED record
  /\ Ask(s, "over")
  /\ UNCHANGED <<row, metadata, world, events, attempt, faults, torn>>

RequestDies(s) ==
  /\ request[s].pc \in {"hold", "move", "cancelOld", "create", "attach", "save"}
  /\ Fault("crash")
  /\ Ask(s, "over")
  /\ UNCHANGED <<stores, world, events, attempt, torn>>

\* Anybody may register a free domain.
SoldElsewhere ==
  /\ registrar = "free" /\ registrar' = "other"
  /\ UNCHANGED <<stores, stripe, refunded, events, request, attempt, faults, torn>>

-----------------------------------------------------------------------------
(* Webhook invocations.                                                    *)

Tears(a, pc) ==
  \E h \in Handlers : /\ pc \in h
                      /\ \E b \in Attempts \ {a} :
                           /\ Serves[b] = Serves[a]
                           /\ attempt[b].pc \notin h \cup Quiet
\* The next step of an invocation, with the record it keeps in memory.
GoWith(a, pc, rec) ==
  /\ attempt' = [attempt EXCEPT ![a].pc = pc, ![a].rec = rec]
  /\ torn' = IF Tears(a, pc) THEN torn \cup {Serves[a]} ELSE torn
Go(a, pc) == GoWith(a, pc, attempt[a].rec)

\* A 200 is noted under the event's id and ends it; anything else makes Stripe
\* send it again.
Answer200(a) == /\ attempt' = [attempt EXCEPT ![a].pc = "answer", ![a].rec = NoRecord]
                /\ UNCHANGED torn
AnswerRetry(a) == attempt' = [attempt EXCEPT ![a] = Idle] /\ UNCHANGED torn

Deliver(a, kind) ==
  /\ attempt[a].pc = "idle"
  /\ Event(Serves[a], kind) \in events
  /\ attempt' = [attempt EXCEPT ![a] = [Idle EXCEPT !.pc = "start", !.kind = kind]]
  /\ UNCHANGED <<stores, world, events, request, faults, torn>>

Acknowledge(a) ==
  /\ attempt[a].pc = "answer"
  /\ events' = events \ {Event(Serves[a], attempt[a].kind)}
  /\ AnswerRetry(a)
  /\ UNCHANGED <<stores, world, request, faults>>

\* The first read of the record, and what each handler makes of it.
ReadRecord(a) ==
  LET s == Serves[a]
      rec == Loaded(s)
      kind == attempt[a].kind
  IN /\ attempt[a].pc = "start"
     /\ \/ /\ kind = "paid" /\ rec.status = "ready"
           /\ ReleaseForSession(s) /\ Answer200(a)
        \/ /\ \/ kind = "paid" /\ rec.status = "refunded"
              \/ kind = "unpaid" /\ ~StillUnpaid(rec)
           /\ Answer200(a) /\ UNCHANGED row
        \/ /\ \/ /\ kind = "paid" /\ ~Handled(rec)
                 /\ GoWith(a, IF rec.terminal THEN "lastCheck" ELSE "readMetadata", rec)
              \/ kind = "unpaid" /\ StillUnpaid(rec) /\ GoWith(a, "awaitClaim", rec)
              \/ /\ kind \in {"failed", "expired"}
                 /\ GoWith(a, IF StillUnpaid(record[s]) THEN "endSave" ELSE "endRelease", rec)
           /\ UNCHANGED row
     /\ UNCHANGED <<record, metadata, world, events, request, faults>>

\* fulfillPaidCheckout.  Someone else's metadata means a refund.
Owned(pc, a) ==
  Go(a, IF metadata \in {NoOne, Serves[a]} THEN pc ELSE "lastCheck")
ReadMetadata(a) ==
  /\ attempt[a].pc = "readMetadata"
  /\ Owned("claim", a)
  /\ UNCHANGED <<stores, world, events, request, faults>>

Claim(a) ==
  /\ attempt[a].pc = "claim"
  /\ IF MayClaim(Serves[a])
       THEN ClaimForSession(Serves[a], "provisioning") /\ Go(a, "reread")
       ELSE Go(a, "holder") /\ UNCHANGED row
  /\ UNCHANGED <<record, metadata, world, events, request, faults>>

LookAtHolderAnswers(a) ==
  /\ attempt[a].pc = "holder"
  /\ IF row = NoRow \/ row.session = Serves[a] THEN Answer200(a) ELSE Go(a, "lastCheck")
  /\ UNCHANGED <<stores, world, events, request, faults>>
LookAtHolder(a) ==
  /\ attempt[a].pc = "holder"
  /\ IF row = NoRow \/ row.session = Serves[a]
       THEN AnswerRetry(a)
       ELSE Go(a, "lastCheck")
  /\ UNCHANGED <<stores, world, events, request, faults>>

\* Under the claim everything is read again.
RereadSkipped(a) ==
  /\ attempt[a].pc = "reread"
  /\ Go(a, "register")
  /\ UNCHANGED <<stores, world, events, request, faults>>
Reread(a) ==
  LET s == Serves[a]
      rec == Loaded(s)
  IN /\ attempt[a].pc = "reread"
     /\ \/ rec.status = "ready" /\ ReleaseForSession(s) /\ Answer200(a)
        \/ rec.status = "refunded" /\ Answer200(a) /\ UNCHANGED row
        \/ /\ ~Handled(rec)
           /\ GoWith(a, IF rec.terminal THEN "lastCheck" ELSE "rereadMetadata", rec)
           /\ UNCHANGED row
     /\ UNCHANGED <<record, metadata, world, events, request, faults>>
RereadMetadata(a) ==
  /\ attempt[a].pc = "rereadMetadata"
  /\ Owned(IF attempt[a].rec.bought THEN "setUp" ELSE "register", a)
  /\ UNCHANGED <<stores, world, events, request, faults>>

\* registerDomain: bought, refused because it is not free (or cannot be had at
\* all), or an error, after the purchase or before it.
Register(a) ==
  /\ attempt[a].pc = "register"
  /\ \/ registrar = "free" /\ registrar' = "ours" /\ Go(a, "noteBought") /\ NoFault
     \/ registrar # "free" /\ Go(a, "lookupTaken") /\ NoFault /\ UNCHANGED registrar
     \/ registrar = "free" /\ Go(a, "lookupTaken") /\ Fault("refused") /\ UNCHANGED registrar
     \/ /\ Go(a, "lookupError") /\ Fault("registrar")
        /\ registrar' \in {registrar, IF registrar = "free" THEN "ours" ELSE registrar}
  /\ UNCHANGED <<stores, stripe, refunded, events, request>>

\* getOwnedRegistration: an earlier attempt may have bought the domain.
LookUpTrustsError(a) ==
  /\ attempt[a].pc \in {"lookupTaken", "lookupError"}
  /\ Go(a, IF attempt[a].pc = "lookupTaken" THEN "giveBack" ELSE "giveUp")
  /\ UNCHANGED <<stores, world, events, request, faults>>
LookUp(a) ==
  /\ attempt[a].pc \in {"lookupTaken", "lookupError"}
  /\ Go(a, IF registrar = "ours" THEN "noteBought"
           ELSE IF attempt[a].pc = "lookupTaken" THEN "giveBack" ELSE "giveUp")
  /\ UNCHANGED <<stores, world, events, request, faults>>

NoteBought(a) ==
  LET rec == [attempt[a].rec EXCEPT !.bought = TRUE, !.status = "provisioning"]
  IN /\ attempt[a].pc = "noteBought"
     /\ Save(Serves[a], rec) /\ GoWith(a, "setUp", rec)
     /\ UNCHANGED <<row, metadata, world, events, request, faults>>

\* Zone, DNS, owner and mailbox, all looked up first; each result is saved.
SetUp(a) ==
  /\ attempt[a].pc = "setUp"
  /\ Save(Serves[a], attempt[a].rec) \/ UNCHANGED record
  /\ Go(a, "saveMetadata")
  /\ UNCHANGED <<row, metadata, world, events, request, faults>>

SaveMetadata(a) ==
  /\ attempt[a].pc = "saveMetadata"
  /\ metadata' = Serves[a]
  /\ Go(a, "saveReady")
  /\ UNCHANGED <<row, record, world, events, request, faults>>

SaveReady(a) ==
  /\ attempt[a].pc = "saveReady"
  /\ Save(Serves[a], [attempt[a].rec EXCEPT !.status = "ready"])
  /\ Go(a, "release")
  /\ UNCHANGED <<row, metadata, world, events, request, faults>>

Release(a) ==
  /\ attempt[a].pc = "release"
  /\ ReleaseForSession(Serves[a])
  /\ Answer200(a)
  /\ UNCHANGED <<record, metadata, world, events, request, faults>>

\* A call in the try block throws; the lease ends (best effort) and Stripe retries,
\* or the payment goes back.
CallFails(a) ==
  /\ attempt[a].pc \in Provisioning \ {"register"}
  /\ Fault("call")
  /\ Go(a, "giveUp")
  /\ UNCHANGED <<stores, world, events, request>>
GiveUp(a) ==
  /\ attempt[a].pc \in {"giveUp", "giveBack"}
  /\ EndProvisioningLease(Serves[a])
  /\ IF attempt[a].pc = "giveUp" THEN AnswerRetry(a)
                                 ELSE Go(a, "lastCheck")
  /\ UNCHANGED <<record, metadata, world, events, request, faults>>

-----------------------------------------------------------------------------
(* refundAndFail                                                           *)

LastCheck(a) ==
  /\ attempt[a].pc = "lastCheck"
  /\ IF record[Serves[a]].status = "ready" THEN Answer200(a)
                                           ELSE Go(a, "ownerCheck")
  /\ UNCHANGED <<stores, world, events, request, faults>>
OwnerCheck(a) ==
  /\ attempt[a].pc = "ownerCheck"
  /\ IF metadata = Serves[a]
       THEN AnswerRetry(a)
       ELSE Go(a, IF attempt[a].rec.terminal THEN "refund" ELSE "noteTerminal")
  /\ UNCHANGED <<stores, world, events, request, faults>>

NoteTerminal(a) ==
  LET rec == [attempt[a].rec EXCEPT !.terminal = TRUE]
  IN /\ attempt[a].pc = "noteTerminal"
     /\ Save(Serves[a], rec) /\ GoWith(a, "refund", rec)
     /\ UNCHANGED <<row, metadata, world, events, request, faults>>

\* Cancelling the subscription and refunding are idempotent at Stripe.
Refund(a) ==
  /\ attempt[a].pc = "refund"
  /\ \/ refunded' = refunded \cup {Serves[a]} /\ Go(a, "saveRefunded") /\ NoFault
     \/ refunded' \in {refunded, refunded \cup {Serves[a]}} /\ AnswerRetry(a) /\ Fault("call")
  /\ UNCHANGED <<stores, registrar, stripe, events, request>>

SaveRefunded(a) ==
  /\ attempt[a].pc = "saveRefunded"
  /\ Save(Serves[a], [attempt[a].rec EXCEPT !.status = "refunded"])
  /\ Go(a, "letGo")
  /\ UNCHANGED <<row, metadata, world, events, request, faults>>

LetGo(a) ==
  /\ attempt[a].pc \in {"letGo", "endRelease"}
  /\ ReleaseForSession(Serves[a])
  /\ Answer200(a)
  /\ UNCHANGED <<record, metadata, world, events, request, faults>>

-----------------------------------------------------------------------------
(* markAwaitingPayment and endUnpaidCheckout; LetGo ends the latter.       *)

AwaitClaim(a) ==
  /\ attempt[a].pc = "awaitClaim"
  /\ IF MayClaim(Serves[a]) THEN ClaimForSession(Serves[a], "awaiting_payment")
                             ELSE UNCHANGED row
  /\ Go(a, "awaitSave")
  /\ UNCHANGED <<record, metadata, world, events, request, faults>>
AwaitSave(a) ==
  /\ attempt[a].pc = "awaitSave"
  /\ Save(Serves[a], [attempt[a].rec EXCEPT !.status = "awaiting_payment"])
  /\ Answer200(a)
  /\ UNCHANGED <<row, metadata, world, events, request, faults>>

EndSaveVerbatim(a) ==
  /\ attempt[a].pc = "endSave"
  /\ Save(Serves[a], [attempt[a].rec EXCEPT !.status = attempt[a].kind])
  /\ Go(a, "endRelease")
  /\ UNCHANGED <<row, metadata, world, events, request, faults>>
EndSave(a) ==
  /\ attempt[a].pc = "endSave"
  /\ Save(Serves[a], [attempt[a].rec EXCEPT !.status =
                         IF attempt[a].kind = "failed" THEN "failed" ELSE "canceled"])
  /\ Go(a, "endRelease")
  /\ UNCHANGED <<row, metadata, world, events, request, faults>>

\* The isolate ends, or a call outside the try block throws.
Dies(a) ==
  /\ attempt[a].pc # "idle"
  /\ Fault("crash")
  /\ AnswerRetry(a)
  /\ UNCHANGED <<stores, world, events, request>>


-----------------------------------------------------------------------------
Checkout(s) ==
  \/ CheckFree(s) \/ Hold(s) \/ ExpireOld(s) \/ MoveHold(s) \/ CancelOld(s)
  \/ CreateSession(s) \/ Attach(s) \/ SaveCheckout(s)
  \/ Abandon(s) \/ DropHold(s) \/ CloseRecord(s) \/ RequestDies(s)

Work(a) ==
  \/ ReadRecord(a) \/ ReadMetadata(a) \/ Claim(a) \/ LookAtHolder(a)
  \/ Reread(a) \/ RereadMetadata(a)
  \/ Register(a) \/ LookUp(a) \/ NoteBought(a) \/ SetUp(a)
  \/ SaveMetadata(a) \/ SaveReady(a) \/ Release(a) \/ GiveUp(a)
  \/ LastCheck(a) \/ OwnerCheck(a) \/ NoteTerminal(a) \/ Refund(a) \/ SaveRefunded(a)
  \/ LetGo(a) \/ AwaitClaim(a) \/ AwaitSave(a) \/ EndSave(a) \/ Acknowledge(a)

Next ==
  \/ Lapse \/ SoldElsewhere
  \/ \E s \in Sessions : Checkout(s) \/ Buyer(s)
  \/ \E a \in Attempts : \/ \E kind \in EventKinds : Deliver(a, kind)
                         \/ Work(a) \/ CallFails(a) \/ Dies(a)

Spec == Init /\ [][Next]_vars

\* Stripe goes on delivering each event, an invocation goes on, a lease runs out.
\* Buyers, requests and faults owe nothing.
Fairness ==
  /\ WF_vars(Lapse)
  /\ \A a \in Attempts : /\ WF_vars(Work(a))
                         /\ \A kind \in EventKinds : WF_vars(Deliver(a, kind))
FairSpec == Spec /\ Fairness

-----------------------------------------------------------------------------
(* Properties.                                                             *)

\* Every variable holds values of its kind.
TypeOK ==
  /\ row \in Rows /\ record \in [Sessions -> Records]
  /\ metadata \in Sessions \cup {NoOne} /\ registrar \in {"free", "ours", "other"}
  /\ stripe \in [Sessions -> {"none", "open", "delayed", "paid", "failed", "expired"}]
  /\ refunded \subseteq Sessions
  /\ events \subseteq [session : Sessions, kind : EventKinds]
  /\ request \in [Sessions -> [pc : RequestPcs, old : Sessions \cup {NoOne}]]
  /\ attempt \in [Attempts -> [pc : Pcs, kind : EventKinds \cup {"none"}, rec : Records]]
  /\ faults \in 0..MaxFaults /\ torn \subseteq Sessions

\* Between its second look at the metadata and its answer.
Buying(a) == attempt[a].pc \in Provisioning

\* Two checkouts are never buying and setting up the domain at once, unless one
\* session was handled in two ways at once (domain-reservations.ts:10,
\* billing-fulfillment.ts:263 and 274: the claim, and the reread under it).
OneBuyer ==
  torn = {} => \A a, b \in Attempts : Buying(a) /\ Buying(b) => Serves[a] = Serves[b]

\* The domain never passes from one checkout to another, with the same exception.
OwnerStays == [][torn' = {} /\ metadata # NoOne => metadata' = metadata]_vars

\* Without a torn session, a checkout that is marked ready has the domain and one
\* that owns it is not refunded.
OneOutcome ==
  torn = {} => \A s \in Sessions : /\ record[s].status = "ready" => metadata = s
                                   /\ metadata = s => s \notin refunded

\* Requests, deliveries, claims and refunds together keep what PurchasePromise
\* promises the buyers: one outcome for each payment, one owner for good.
Paid(s) == stripe[s] = "paid"
Answered(s) == Paid(s) /\ Event(s, "paid") \notin events
Outcome(s) == IF Handled(record[s]) THEN record[s].status ELSE "open"
Promise == INSTANCE PurchasePromise WITH
  paid <- {s \in Sessions : Paid(s)}, closed <- {s \in Sessions : Answered(s)},
  back <- refunded, bought <- registrar = "ours", owner <- metadata,
  mark <- [s \in Sessions |-> Outcome(s)], torn <- torn # {}
KeepsPromise == Promise!Spec

\* A payment whose event was answered 200 bought the domain or was given back.
NoPaymentForgotten ==
  torn = {} => \A s \in Sessions :
    stripe[s] = "paid" => Event(s, "paid") \in events \/ metadata = s \/ s \in refunded

\* A domain bought at the registrar is set up for a checkout, or Stripe will
\* deliver the event again that continues its setup.
OursIsUsed ==
  registrar = "ours" /\ torn = {} =>
    \/ metadata # NoOne
    \/ /\ row.status \in {"provisioning", "awaiting_payment"}
       /\ Event(row.session, "paid") \in events /\ row.session \notin refunded

\* A paid checkout gets the domain or its money back (every answer but 200 makes
\* Stripe deliver again; billing-fulfillment.ts:159).
PaidIsSettled ==
  \A s \in Sessions :
    stripe[s] = "paid" ~>
      \/ metadata = s /\ record[s].status = "ready"
      \/ s \in refunded
      \/ torn # {}
=============================================================================
