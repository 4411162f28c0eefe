---------------------------- MODULE OutboundSend ----------------------------
(***************************************************************************)
(* Outbound delivery of a Sent row: the producer at the end of the send,   *)
(* reply and forward routes, the outbound-send queue and its dead-letter   *)
(* queue with their consumers, the claim and the delivery state kept in    *)
(* the mailbox Durable Object (DO), the payload staged in R2, and the      *)
(* stuck-send sweeper run by the DO alarm.                                 *)
(*                                                                         *)
(* One action is one step nothing can interleave with: a DO turn (reached  *)
(* by RPC from a Worker), or one call to R2, to the queue or to the Email  *)
(* binding.  Time is abstract: a lease and the ten minute threshold expire *)
(* by an action.  Whatever can go wrong outside the code consumes one unit *)
(* of the fault budget, MaxFaults.                                         *)
(*                                                                         *)
(* A definition that stands unused just before the one it is named after   *)
(* is a mutant of it, a plausible bug a run must detect.                   *)
(***************************************************************************)
EXTENDS Naturals, FiniteSets

CONSTANTS
  Mails,          \* Sent rows of one mailbox
  Workers,        \* consumer invocations that may run at the same time
  Sweeper, NoOne, \* the sweeper as a claim holder; no holder
  MaxRetries,     \* OUTBOUND_SEND_MAX_RETRIES, also max_retries of the queue
  MaxDlqRetries,  \* max_retries of outbound-send-dlq
  MaxReenqueues,  \* STUCK_SEND_MAX_REENQUEUES
  FaultKinds,     \* what may go wrong in this instance
  MaxFaults       \* how often, in total

ASSUME Parties == /\ Sweeper \notin Workers
                  /\ NoOne \notin Workers \cup Mails \cup {Sweeper}
ASSUME Bounds == /\ MaxRetries \in Nat /\ MaxDlqRetries \in Nat
                 /\ MaxReenqueues \in Nat /\ MaxFaults \in Nat

VARIABLES
  status,       \* emails.delivery_status ("none": not written, "gone": deleted)
  queuedAt,     \* emails.send_queued_at against the ten minute threshold
  reenqueues,   \* emails.send_attempts
  claim,        \* holder of the unexpired outbound_send_claim:{id}
  payload,      \* R2 outbound/{id}.json; "accepted": acceptedProviderMessageId set
  sendQueue,    \* messages visible on outbound-send
  deadLetters,  \* messages visible on outbound-send-dlq
  request,      \* where the route that produces the row is
  worker,       \* the consumer invocations
  alarm,        \* is the DO alarm set?
  sweep,        \* the sweeper
  faults,       \* faults so far, and whether all of them were mild
  copies,       \* ghost: copies the Email binding took
  slips         \* ghost: times a decision was made without knowing of a copy

rowVars == <<status, queuedAt, reenqueues, claim>>
queues  == <<sendQueue, deadLetters>>
ghosts  == <<copies, slips>>
vars == <<rowVars, payload, queues, request, worker, alarm, sweep, faults, ghosts>>

-----------------------------------------------------------------------------
(* Messages, invocations and the fault budget.                             *)

\* gen tells the producer's message (0) from the sweeper's (1, 2, ...).
Message == [mail : Mails, gen : 0..MaxReenqueues, attempt : Nat \ {0}]
NoMessage == [mail |-> NoOne, gen |-> 0, attempt |-> 0]
NewMessage(e, gen) == [mail |-> e, gen |-> gen, attempt |-> 1]

IdleWorker == [pc |-> "idle", queue |-> "none", msg |-> NoMessage]
\* Program points between winning the claim and giving it up.
Holding == {"read", "send", "record", "mark", "accept", "fail", "lost", "release"}
WorkerPcs == Holding \cup {"idle", "claim", "clean"}

\* A row as listQueuedSends saw it at the start of the sweep.
Snapshot == [mail : Mails, at : {"null", "fresh", "due"}, tries : 0..MaxReenqueues]
NoRow == [mail |-> NoOne, at |-> "null", tries |-> 0]
IdleSweep == [pc |-> "idle", todo |-> {}, row |-> NoRow,
              accepted |-> FALSE, again |-> FALSE]

\* Mild faults leave the cleanup of payloads alone; the others end a party before
\* it, or are a failure of it (deletePayload is best effort).
Mild == {"loss", "duplicate", "get", "put", "queue"}
Faults == [count : 0..MaxFaults, mild : BOOLEAN]
NoFault == UNCHANGED faults
Fault(kind) ==
  /\ kind \in FaultKinds
  /\ faults.count < MaxFaults
  /\ faults' = [count |-> faults.count + 1, mild |-> faults.mild /\ kind \in Mild]
Slip(e) == slips' = [slips EXCEPT ![e] = @ + 1]

MailOf(w) == worker[w].msg.mail
Holds(w, e) == worker[w].pc \in Holding /\ MailOf(w) = e
SweepHolds(e) == sweep.pc \in {"read", "settle"} /\ sweep.row.mail = e
Queued == {e \in Mails : status[e] = "queued"}

-----------------------------------------------------------------------------
Init ==
  /\ status = [e \in Mails |-> "none"]
  /\ queuedAt = [e \in Mails |-> "null"]
  /\ reenqueues = [e \in Mails |-> 0]
  /\ claim = [e \in Mails |-> NoOne]
  /\ payload = [e \in Mails |-> "none"]
  /\ sendQueue = {} /\ deadLetters = {}
  /\ request = [e \in Mails |-> "idle"]
  /\ worker = [w \in Workers |-> IdleWorker]
  /\ alarm = FALSE
  /\ sweep = IdleSweep
  /\ faults = [count |-> 0, mild |-> TRUE]
  /\ copies = [e \in Mails |-> 0]
  /\ slips = [e \in Mails |-> 0]

-----------------------------------------------------------------------------
(* DO methods, each one turn of the DO.                                    *)

\* Unconditional write of the status; the claim goes with it.
SetDeliveryState(e, s) ==
  /\ status' = [status EXCEPT ![e] = IF @ \in {"none", "gone"} THEN @ ELSE s]
  /\ claim' = [claim EXCEPT ![e] = NoOne]
  /\ UNCHANGED <<queuedAt, reenqueues>>

\* decideOutboundSendClaim; "missing" counts as "not_queued", which its callers
\* treat alike.
DecisionForgetsLease(e) == IF status[e] = "queued" THEN "claimed" ELSE "not_queued"
Decision(e) == IF status[e] # "queued" THEN "not_queued"
               ELSE IF claim[e] # NoOne THEN "in_flight" ELSE "claimed"

\* "claimed" takes the claim, "not_queued" drops a leftover one.
ClaimOutboundSend(e, holder) ==
  /\ claim' = [claim EXCEPT ![e] = CASE Decision(e) = "claimed" -> holder
                                     [] Decision(e) = "in_flight" -> @
                                     [] OTHER -> NoOne]
  /\ UNCHANGED <<status, queuedAt, reenqueues>>

\* Deletes the key, whoever holds it.
ReleaseOutboundSendClaim(e) ==
  /\ claim' = [claim EXCEPT ![e] = NoOne]
  /\ UNCHANGED <<status, queuedAt, reenqueues>>

MarkQueued(e) ==
  /\ queuedAt' = [queuedAt EXCEPT ![e] = IF status[e] = "queued" THEN "fresh" ELSE @]
  /\ UNCHANGED <<status, reenqueues, claim>>

DeletePayload(e) == payload' = [payload EXCEPT ![e] = "none"]

-----------------------------------------------------------------------------
(* Producer: the route wrote the row, then calls enqueueOutboundSend.      *)

At(e, pc) == request' = [request EXCEPT ![e] = pc]

\* createEmail stores the Sent row as "queued".
StoreRow(e) ==
  /\ request[e] = "idle"
  /\ status' = [status EXCEPT ![e] = "queued"]
  /\ At(e, "stage")
  /\ UNCHANGED <<queuedAt, reenqueues, claim, payload, queues, worker, alarm,
                 sweep, faults, ghosts>>

Stage(e) ==
  /\ request[e] = "stage"
  /\ \/ /\ payload' = [payload EXCEPT ![e] = "staged"]
        /\ \/ NoFault /\ At(e, "enqueue")
           \/ Fault("put") /\ At(e, "recordFailure")
     \/ UNCHANGED payload /\ Fault("put") /\ At(e, "recordFailure")
  /\ UNCHANGED <<rowVars, queues, worker, alarm, sweep, ghosts>>

\* queue.send may throw before the message is on the queue, or after.
Enqueue(e) ==
  /\ request[e] = "enqueue"
  /\ \/ /\ sendQueue' = sendQueue \cup {NewMessage(e, 0)}
        /\ \/ NoFault /\ At(e, "note") /\ UNCHANGED slips
           \/ Fault("queueUnsure") /\ At(e, "recordFailure") /\ Slip(e)
     \/ /\ Fault("queue") /\ At(e, "recordFailure")
        /\ UNCHANGED <<sendQueue, slips>>
  /\ UNCHANGED <<rowVars, payload, deadLetters, worker, alarm, sweep, copies>>

\* Best effort: start the sweeper's clock and set the alarm.
NoteQueuedInsideTry(e) ==
  /\ request[e] = "note"
  /\ \/ MarkQueued(e) /\ alarm' = TRUE /\ NoFault /\ At(e, "done")
     \/ UNCHANGED <<rowVars, alarm>> /\ Fault("rpc") /\ At(e, "recordFailure")
  /\ UNCHANGED <<payload, queues, worker, sweep, ghosts>>
NoteQueued(e) ==
  /\ request[e] = "note"
  /\ \/ MarkQueued(e) /\ alarm' = TRUE /\ NoFault
     \/ UNCHANGED <<rowVars, alarm>> /\ Fault("rpc")
  /\ At(e, "done")
  /\ UNCHANGED <<payload, queues, worker, sweep, ghosts>>

RecordEnqueueFailure(e) ==
  /\ request[e] = "recordFailure"
  /\ \/ SetDeliveryState(e, "failed") /\ NoFault
     \/ UNCHANGED rowVars /\ Fault("rpc")
  /\ At(e, "unstage")
  /\ UNCHANGED <<payload, queues, worker, alarm, sweep, ghosts>>

UnstageSkipped(e) ==
  /\ request[e] = "unstage"
  /\ At(e, "done")
  /\ UNCHANGED <<rowVars, payload, queues, worker, alarm, sweep, faults, ghosts>>
Unstage(e) ==
  /\ request[e] = "unstage"
  /\ \/ DeletePayload(e) /\ NoFault
     \/ UNCHANGED payload /\ Fault("delete")
  /\ At(e, "done")
  /\ UNCHANGED <<rowVars, queues, worker, alarm, sweep, ghosts>>

RequestDies(e) ==
  /\ request[e] \notin {"idle", "done"}
  /\ Fault("crash")
  /\ At(e, "done")
  /\ UNCHANGED <<rowVars, payload, queues, worker, alarm, sweep, ghosts>>

\* The user, or a purge, deletes the row; the payload is not among its blobs.
DeleteRow(e) ==
  /\ status[e] \in {"queued", "accepted", "failed"}
  /\ status' = [status EXCEPT ![e] = "gone"]
  /\ UNCHANGED <<queuedAt, reenqueues, claim, payload, queues, request, worker,
                 alarm, sweep, faults, ghosts>>

Produce(e) == \/ Stage(e) \/ Enqueue(e) \/ NoteQueued(e)
              \/ RecordEnqueueFailure(e) \/ Unstage(e)

-----------------------------------------------------------------------------
(* The queues.  A message handed to a consumer is invisible until it is    *)
(* retried; a duplicate leaves it visible as well.                         *)

Goto(w, pc) == worker' = [worker EXCEPT ![w].pc = pc] /\ UNCHANGED queues
Ack(w) == worker' = [worker EXCEPT ![w] = IdleWorker] /\ UNCHANGED queues

\* Back on the queue with one attempt more; when those run out outbound-send
\* hands the message to its dead-letter queue, which just drops it.
Redeliver(w) ==
  LET m    == worker[w].msg
      next == [m EXCEPT !.attempt = @ + 1]
  IN \/ /\ worker[w].queue = "send" /\ m.attempt <= MaxRetries
        /\ sendQueue' = sendQueue \cup {next} /\ UNCHANGED deadLetters
     \/ /\ worker[w].queue = "send" /\ m.attempt > MaxRetries
        /\ deadLetters' = deadLetters \cup {[m EXCEPT !.attempt = 1]}
        /\ UNCHANGED sendQueue
     \/ /\ worker[w].queue = "dlq" /\ m.attempt <= MaxDlqRetries
        /\ deadLetters' = deadLetters \cup {next} /\ UNCHANGED sendQueue
     \/ /\ worker[w].queue = "dlq" /\ m.attempt > MaxDlqRetries
        /\ UNCHANGED queues
Retry(w) == Redeliver(w) /\ worker' = [worker EXCEPT ![w] = IdleWorker]

Take(w, q, m) == worker' = [worker EXCEPT ![w] =
                              [pc |-> "claim", queue |-> q, msg |-> m]]

DeliverSend(w) ==
  /\ worker[w].pc = "idle"
  /\ \E m \in sendQueue :
       /\ Take(w, "send", m)
       /\ \/ sendQueue' = sendQueue \ {m} /\ NoFault
          \/ UNCHANGED sendQueue /\ Fault("duplicate")
  /\ UNCHANGED <<rowVars, payload, deadLetters, request, alarm, sweep, ghosts>>

DeliverDeadLetter(w) ==
  /\ worker[w].pc = "idle"
  /\ \E m \in deadLetters :
       /\ Take(w, "dlq", m)
       /\ \/ deadLetters' = deadLetters \ {m} /\ NoFault
          \/ UNCHANGED deadLetters /\ Fault("duplicate")
  /\ UNCHANGED <<rowVars, payload, sendQueue, request, alarm, sweep, ghosts>>

LoseMessage ==
  /\ Fault("loss")
  /\ \/ \E m \in sendQueue : sendQueue' = sendQueue \ {m} /\ UNCHANGED deadLetters
     \/ \E m \in deadLetters : deadLetters' = deadLetters \ {m} /\ UNCHANGED sendQueue
  /\ UNCHANGED <<rowVars, payload, request, worker, alarm, sweep, ghosts>>

-----------------------------------------------------------------------------
(* Consumers: processOutboundSend and processOutboundSendDeadLetter.       *)

Claim(w) ==
  LET e == MailOf(w)
  IN /\ worker[w].pc = "claim"
     /\ ClaimOutboundSend(e, w)
     /\ \/ Decision(e) = "in_flight" /\ Retry(w)
        \/ Decision(e) = "claimed" /\ Goto(w, "read")
        \/ Decision(e) = "not_queued" /\ Goto(w, "clean")
     /\ NoFault
     /\ UNCHANGED <<payload, request, alarm, sweep, ghosts>>

\* The RPC throws, with or without having taken the claim: the batch retries.
ClaimThrows(w) ==
  /\ worker[w].pc = "claim"
  /\ Fault("rpc")
  /\ ClaimOutboundSend(MailOf(w), w) \/ UNCHANGED rowVars
  /\ Retry(w)
  /\ UNCHANGED <<payload, request, alarm, sweep, ghosts>>

ReadPayload(w) ==
  LET e == MailOf(w)
  IN /\ worker[w].pc = "read"
     /\ \/ payload[e] = "accepted" /\ Goto(w, "accept")
        \/ payload[e] = "staged" /\ worker[w].queue = "send" /\ Goto(w, "send")
        \/ payload[e] = "none" /\ worker[w].queue = "send" /\ Goto(w, "lost")
        \/ payload[e] # "accepted" /\ worker[w].queue = "dlq" /\ Goto(w, "fail")
     /\ NoFault
     /\ UNCHANGED <<rowVars, payload, request, alarm, sweep, ghosts>>

\* R2 read error.  The dead-letter consumer then takes the send for failed.
ReadThrows(w) ==
  LET e == MailOf(w)
  IN /\ worker[w].pc = "read"
     /\ Fault("get")
     /\ \/ worker[w].queue = "send" /\ Goto(w, "release") /\ UNCHANGED slips
        \/ /\ worker[w].queue = "dlq" /\ Goto(w, "fail")
           /\ IF payload[e] = "accepted" THEN Slip(e) ELSE UNCHANGED slips
     /\ UNCHANGED <<rowVars, payload, request, alarm, sweep, copies>>

\* The Email binding takes the message ...
SendAccepted(w) ==
  /\ worker[w].pc = "send"
  /\ copies' = [copies EXCEPT ![MailOf(w)] = @ + 1]
  /\ Goto(w, "record")
  /\ NoFault
  /\ UNCHANGED <<rowVars, payload, request, alarm, sweep, slips>>

\* ... or throws an error isRetryableSendError retries (perhaps after taking
\* the message all the same), or a permanent one.
SendThrows(w) ==
  LET e == MailOf(w)
      tryAgain == worker[w].msg.attempt <= MaxRetries
  IN /\ worker[w].pc = "send"
     /\ \/ NoFault /\ UNCHANGED ghosts /\ Goto(w, "fail")
        \/ NoFault /\ UNCHANGED ghosts /\ tryAgain /\ Goto(w, "release")
        \/ /\ Fault("sendUnsure") /\ Slip(e)
           /\ copies' = [copies EXCEPT ![e] = @ + 1]
           /\ Goto(w, IF tryAgain THEN "release" ELSE "fail")
     /\ UNCHANGED <<rowVars, payload, request, alarm, sweep>>

\* setDeliveryState "accepted" after the send.
Record(w) ==
  /\ worker[w].pc = "record"
  /\ \/ SetDeliveryState(MailOf(w), "accepted") /\ NoFault /\ Goto(w, "clean")
     \/ SetDeliveryState(MailOf(w), "accepted") /\ Fault("rpc") /\ Goto(w, "mark")
     \/ UNCHANGED rowVars /\ Fault("rpc") /\ Goto(w, "mark")
  /\ UNCHANGED <<payload, request, alarm, sweep, ghosts>>

\* Sent, but not recorded: remember it in the payload, or else do not retry.
MarkAccepted(w) ==
  LET e == MailOf(w)
  IN /\ worker[w].pc = "mark"
     /\ \/ /\ payload' = [payload EXCEPT ![e] = "accepted"]
           /\ NoFault /\ Goto(w, "release") /\ UNCHANGED slips
        \/ UNCHANGED payload /\ Fault("put") /\ Ack(w) /\ Slip(e)
     /\ UNCHANGED <<rowVars, request, alarm, sweep, copies>>

ReleaseClaim(w) ==
  /\ worker[w].pc = "release"
  /\ \/ ReleaseOutboundSendClaim(MailOf(w)) /\ NoFault
     \/ UNCHANGED rowVars /\ Fault("rpc")
  /\ Retry(w)
  /\ UNCHANGED <<payload, request, alarm, sweep, ghosts>>

\* setDeliveryState where the invocation does not catch its error.
Settle(w) ==
  /\ \/ /\ worker[w].pc = "accept"
        /\ \/ SetDeliveryState(MailOf(w), "accepted") /\ NoFault /\ Goto(w, "clean")
           \/ SetDeliveryState(MailOf(w), "accepted") /\ Fault("rpc") /\ Retry(w)
     \/ /\ worker[w].pc = "fail"
        /\ \/ SetDeliveryState(MailOf(w), "failed") /\ NoFault /\ Goto(w, "clean")
           \/ SetDeliveryState(MailOf(w), "failed") /\ Fault("rpc") /\ Retry(w)
     \/ /\ worker[w].pc = "lost"
        /\ \/ SetDeliveryState(MailOf(w), "failed") /\ NoFault /\ Ack(w)
           \/ SetDeliveryState(MailOf(w), "failed") /\ Fault("rpc") /\ Retry(w)
     \/ /\ worker[w].pc \in {"accept", "fail", "lost"}
        /\ UNCHANGED rowVars /\ Fault("rpc") /\ Retry(w)
  /\ UNCHANGED <<payload, request, alarm, sweep, ghosts>>

Clean(w) ==
  /\ worker[w].pc = "clean"
  /\ \/ DeletePayload(MailOf(w)) /\ NoFault
     \/ UNCHANGED payload /\ Fault("delete")
  /\ Ack(w)
  /\ UNCHANGED <<rowVars, request, alarm, sweep, ghosts>>

\* The isolate dies: the message comes back by itself.
WorkerDies(w) ==
  /\ worker[w].pc # "idle"
  /\ Fault("crash")
  /\ Retry(w)
  /\ IF worker[w].pc \in {"record", "mark"} THEN Slip(MailOf(w)) ELSE UNCHANGED slips
  /\ UNCHANGED <<rowVars, payload, request, alarm, sweep, copies>>

Consume(w) == \/ Claim(w) \/ ReadPayload(w) \/ SendAccepted(w) \/ SendThrows(w)
              \/ Record(w) \/ MarkAccepted(w) \/ ReleaseClaim(w) \/ Settle(w) \/ Clean(w)

-----------------------------------------------------------------------------
(* The stuck-send sweeper: sweepStuckSends, from the DO alarm.             *)

AlarmFires ==
  /\ alarm /\ sweep.pc = "idle"
  /\ alarm' = FALSE
  /\ sweep' = [IdleSweep EXCEPT !.pc = "next",
                 !.todo = {[mail |-> e, at |-> queuedAt[e], tries |-> reenqueues[e]] :
                             e \in Queued}]
  /\ UNCHANGED <<rowVars, payload, queues, request, worker, faults, ghosts>>

\* decideStuckSend on the row as listed and the claim as it is now.
InFlight(e) == claim[e] # NoOne
Due(r)      == r.at = "due" /\ ~InFlight(r.mail)
NextRow(r)  == [sweep EXCEPT !.todo = @ \ {r}]
NextAgain(r) == [NextRow(r) EXCEPT !.again = TRUE]

SweepStamp(r) ==
  /\ r.at = "null"
  /\ MarkQueued(r.mail)
  /\ sweep' = NextAgain(r)

SweepWait(r) ==
  /\ r.at = "fresh" \/ (r.at = "due" /\ InFlight(r.mail))
  /\ sweep' = NextAgain(r)
  /\ UNCHANGED rowVars

SweepReenqueueForever(r) ==
  /\ Due(r)
  /\ reenqueues' = [reenqueues EXCEPT ![r.mail] = @ + 1]
  /\ queuedAt' = [queuedAt EXCEPT ![r.mail] = "fresh"]
  /\ sweep' = [NextAgain(r) EXCEPT !.pc = "send", !.row = r]
  /\ UNCHANGED <<status, claim>>
SweepReenqueue(r) ==
  /\ Due(r) /\ r.tries < MaxReenqueues
  /\ IF status[r.mail] = "queued"
     THEN /\ reenqueues' = [reenqueues EXCEPT ![r.mail] = @ + 1]
          /\ queuedAt' = [queuedAt EXCEPT ![r.mail] = "fresh"]
     ELSE UNCHANGED <<reenqueues, queuedAt>>
  /\ sweep' = [NextAgain(r) EXCEPT !.pc = "send", !.row = r]
  /\ UNCHANGED <<status, claim>>

SweepGiveUp(r) ==
  /\ Due(r) /\ r.tries >= MaxReenqueues
  /\ ClaimOutboundSend(r.mail, Sweeper)
  /\ sweep' = IF Decision(r.mail) = "claimed" THEN [NextRow(r) EXCEPT !.pc = "read", !.row = r]
                                   ELSE NextRow(r)

SweepRow ==
  /\ sweep.pc = "next"
  /\ \E r \in sweep.todo :
       SweepStamp(r) \/ SweepWait(r) \/ SweepReenqueue(r) \/ SweepGiveUp(r)
  /\ UNCHANGED <<payload, queues, request, worker, alarm, faults, ghosts>>

Resume == sweep' = [sweep EXCEPT !.pc = "next", !.row = NoRow, !.accepted = FALSE]

SweepSend ==
  /\ sweep.pc = "send"
  /\ \/ /\ sendQueue' = sendQueue \cup {NewMessage(sweep.row.mail, sweep.row.tries + 1)}
        /\ NoFault
     \/ UNCHANGED sendQueue /\ Fault("queue")
  /\ Resume
  /\ UNCHANGED <<rowVars, payload, deadLetters, request, worker, alarm, ghosts>>

\* A read error counts as "not accepted".
SweepRead ==
  LET e == sweep.row.mail
  IN /\ sweep.pc = "read"
     /\ \/ /\ sweep' = [sweep EXCEPT !.pc = "settle", !.accepted = payload[e] = "accepted"]
           /\ NoFault /\ UNCHANGED slips
        \/ /\ sweep' = [sweep EXCEPT !.pc = "settle"]
           /\ Fault("get")
           /\ IF payload[e] = "accepted" THEN Slip(e) ELSE UNCHANGED slips
     /\ UNCHANGED <<rowVars, payload, queues, request, worker, alarm, copies>>

SweepSettle ==
  /\ sweep.pc = "settle"
  /\ \/ /\ SetDeliveryState(sweep.row.mail, IF sweep.accepted THEN "accepted" ELSE "failed")
        /\ sweep' = [sweep EXCEPT !.pc = "clean"] /\ NoFault
     \/ /\ ReleaseOutboundSendClaim(sweep.row.mail) /\ Fault("storage")
        /\ sweep' = [sweep EXCEPT !.pc = "next", !.row = NoRow,
                                  !.accepted = FALSE, !.again = TRUE]
  /\ UNCHANGED <<payload, queues, request, worker, alarm, ghosts>>

SweepClean ==
  /\ sweep.pc = "clean"
  /\ \/ DeletePayload(sweep.row.mail) /\ NoFault
     \/ UNCHANGED payload /\ Fault("delete")
  /\ Resume
  /\ UNCHANGED <<rowVars, queues, request, worker, alarm, ghosts>>

\* The alarm is set again when some row is still to be looked at.
SweepEnds ==
  /\ sweep.pc = "next" /\ sweep.todo = {}
  /\ alarm' = (alarm \/ sweep.again)
  /\ sweep' = IdleSweep
  /\ UNCHANGED <<rowVars, payload, queues, request, worker, faults, ghosts>>

\* The DO constructor (resumeStuckSendSweep): after an eviction, and after a
\* crash in the middle of a sweep.
WakeForgets ==
  /\ \/ sweep.pc = "idle" /\ UNCHANGED sweep /\ NoFault
     \/ sweep.pc # "idle" /\ sweep' = IdleSweep /\ Fault("restart")
  /\ UNCHANGED <<rowVars, payload, queues, request, worker, alarm, ghosts>>
Wake ==
  /\ \/ sweep.pc = "idle" /\ UNCHANGED sweep /\ NoFault
     \/ sweep.pc # "idle" /\ sweep' = IdleSweep /\ Fault("restart")
  /\ alarm' = (alarm \/ Queued # {})
  /\ UNCHANGED <<rowVars, payload, queues, request, worker, ghosts>>

Sweep == SweepRow \/ SweepSend \/ SweepRead \/ SweepSettle \/ SweepClean \/ SweepEnds

-----------------------------------------------------------------------------
(* Time.  A request lives for much less than the ten minutes, and a lease  *)
(* outlives its holder unless the holder overruns it.                      *)

ThresholdPasses(e) ==
  /\ queuedAt[e] = "fresh" /\ request[e] = "done"
  /\ queuedAt' = [queuedAt EXCEPT ![e] = "due"]
  /\ UNCHANGED <<status, reenqueues, claim, payload, queues, request, worker,
                 alarm, sweep, faults, ghosts>>

Held(e) == \/ \E w \in Workers : claim[e] = w /\ Holds(w, e)
           \/ claim[e] = Sweeper /\ SweepHolds(e)

LeaseExpires(e) ==
  /\ claim[e] # NoOne
  /\ ReleaseOutboundSendClaim(e)
  /\ ~Held(e) /\ NoFault /\ UNCHANGED slips
  /\ UNCHANGED <<payload, queues, request, worker, alarm, sweep, copies>>

\* The Email binding, R2 or the queue kept the holder for five minutes.
LeaseOverrun(e) ==
  /\ Held(e) /\ Fault("overrun") /\ Slip(e)
  /\ ReleaseOutboundSendClaim(e)
  /\ UNCHANGED <<payload, queues, request, worker, alarm, sweep, copies>>

-----------------------------------------------------------------------------
MailStep(e) == \/ StoreRow(e) \/ Produce(e) \/ RequestDies(e) \/ DeleteRow(e)
               \/ ThresholdPasses(e) \/ LeaseExpires(e) \/ LeaseOverrun(e)
WorkerStep(w) == \/ DeliverSend(w) \/ DeliverDeadLetter(w) \/ Consume(w)
                 \/ ClaimThrows(w) \/ ReadThrows(w) \/ WorkerDies(w)
Next == \/ \E e \in Mails : MailStep(e)
        \/ \E w \in Workers : WorkerStep(w)
        \/ LoseMessage \/ AlarmFires \/ Sweep \/ Wake

Spec == Init /\ [][Next]_vars

\* Requests, consumers and alarms that started make progress, visible messages
\* are delivered, and time passes.
Progress ==
  /\ \A e \in Mails : /\ WF_vars(Produce(e))
                      /\ WF_vars(ThresholdPasses(e))
                      /\ WF_vars(LeaseExpires(e))
  /\ \A w \in Workers : WF_vars(Consume(w))
  /\ WF_vars(\E w \in Workers : DeliverSend(w))
  /\ WF_vars(\E w \in Workers : DeliverDeadLetter(w))
  /\ WF_vars(AlarmFires) /\ WF_vars(Sweep)

\* Only after a fault that may have stopped the alarm must someone open the
\* mailbox again; a lost message needs nobody.
Fairness == Progress /\ WF_vars(~faults.mild /\ Wake)
FairSpec == Spec /\ Fairness

-----------------------------------------------------------------------------
(* Properties.                                                             *)

RowTypes ==
  /\ status \in [Mails -> {"none", "queued", "accepted", "failed", "gone"}]
  /\ queuedAt \in [Mails -> {"null", "fresh", "due"}]
  /\ reenqueues \in [Mails -> 0..MaxReenqueues]
  /\ claim \in [Mails -> Workers \cup {Sweeper, NoOne}]
StoreTypes ==
  /\ payload \in [Mails -> {"none", "staged", "accepted"}]
  /\ request \in [Mails -> {"idle", "stage", "enqueue", "note", "recordFailure",
                            "unstage", "done"}]
  /\ alarm \in BOOLEAN
QueueTypes == sendQueue \subseteq Message /\ deadLetters \subseteq Message
Busy == [pc : WorkerPcs \ {"idle"}, queue : {"send", "dlq"}, msg : Message]
WorkerTypes == worker \in [Workers -> Busy \cup {IdleWorker}]
SweepTypes ==
  /\ sweep \in [pc : {"idle", "next", "send", "read", "settle", "clean"},
                todo : SUBSET Snapshot, row : Snapshot \cup {NoRow},
                accepted : BOOLEAN, again : BOOLEAN]
  /\ sweep.pc \in {"send", "read", "settle", "clean"} <=> sweep.row \in Snapshot
  /\ sweep.pc = "send" => sweep.row.tries < MaxReenqueues
  /\ sweep.pc = "idle" => sweep = IdleSweep
  /\ sweep.accepted => sweep.pc \in {"settle", "clean"}
GhostTypes ==
  /\ faults \in Faults
  /\ copies \in [Mails -> Nat]
  /\ slips \in [Mails -> Nat]

\* Types and bounds: the sweeper counts at most MaxReenqueues re-enqueues.
TypeOK == RowTypes /\ StoreTypes /\ QueueTypes /\ WorkerTypes /\ SweepTypes /\ GhostTypes

\* Queue, consumers, dead letters and sweeper together keep the promise of
\* DeliveryPromise: one transmission, one settlement, and a truthful one.
Promise == INSTANCE DeliveryPromise WITH Mails <- Mails, status <- status,
                                        copies <- copies, slips <- slips
KeepsPromise == Promise!Spec

\* A recipient gets at most one copy more for every time a copy went
\* unrecorded or a lease ran out under its holder: no interleaving of
\* duplicates, retries, re-enqueues and dead letters sends one by itself.
CopiesAccounted == \A e \in Mails : copies[e] <= 1 + slips[e]

\* A row told "failed" was not delivered, unless some party lost track of the
\* acceptance (the user retries a failed row by hand, sending it again).
FailedMeansUnsent ==
  \A e \in Mails : status[e] = "failed" /\ copies[e] > 0 => slips[e] > 0

\* The stuck-send sweeper "never fails a row a consumer is sending"
\* (outbound-send-sweeper.ts:21-23), as long as leases outlive their holders:
\* while it settles a row no consumer is between the claim and the record.
SweeperAlone ==
  \A e \in Mails, w \in Workers :
    SweepHolds(e) /\ Holds(w, e) /\ slips[e] = 0 => status[e] # "queued"

\* Whoever settles the row, in whatever order duplicates and re-enqueues are
\* handled, no payload is left behind once nothing about the row is under way
\* (unless the party that settled it died before its deletePayload, or R2
\* refused the delete: both best effort, and not mild).
Quiet(e) == /\ request[e] \in {"idle", "done"}
            /\ \A m \in sendQueue \cup deadLetters : m.mail # e
            /\ \A w \in Workers : MailOf(w) # e
            /\ sweep.row.mail # e
NoOrphanPayload ==
  \A e \in Mails : faults.mild /\ status[e] \in {"accepted", "failed"} /\ Quiet(e)
                     => payload[e] = "none"

\* A row never reads "Sending" forever, whichever messages are lost.
EventuallySettled ==
  \A e \in Mails : status[e] = "queued" ~> status[e] # "queued"

-----------------------------------------------------------------------------
(* The inductive invariant behind KeepsPromise.                            *)

\* One listed row per mail, its count not yet overtaken: only the sweeper counts.
SnapshotInv ==
  \A r \in sweep.todo : /\ r.tries = reenqueues[r.mail]
                        /\ r.mail # sweep.row.mail
                        /\ \A s \in sweep.todo : r.mail = s.mail => r = s

\* Before the producer's message is on the queue, and while it gives up because
\* it never got there, nobody else works on the row.
Unsent(e) == \/ request[e] \in {"idle", "stage", "enqueue"}
             \/ request[e] \in {"recordFailure", "unstage"} /\ slips[e] = 0
ProducerInv(e) ==
  /\ request[e] = "idle" <=> status[e] = "none"
  /\ queuedAt[e] = "due" => request[e] = "done"
  /\ \A r \in sweep.todo : r.mail = e =>
       status[e] # "none" /\ (r.at = "due" => request[e] = "done")
  /\ sweep.row.mail = e => request[e] = "done"
  /\ Unsent(e) => /\ \A m \in sendQueue \cup deadLetters : m.mail # e
                  /\ \A w \in Workers : MailOf(w) # e
                  /\ copies[e] = 0

\* The lease is a lock on a queued row, and a row leaves "queued" for good.
HolderInv(e) ==
  /\ \A w \in Workers : worker[w].pc = "clean" /\ MailOf(w) = e => status[e] # "queued"
  /\ sweep.pc = "clean" /\ sweep.row.mail = e => status[e] # "queued"
  /\ slips[e] = 0 =>
       /\ SweepHolds(e) => \/ status[e] = "gone"
                           \/ status[e] = "queued" /\ claim[e] = Sweeper
       /\ \A w \in Workers : Holds(w, e) =>
            /\ ~SweepHolds(e)
            /\ \A v \in Workers : Holds(v, e) => v = w
            /\ \/ status[e] = "gone"
               \/ status[e] = "queued" /\ claim[e] = w
               \/ status[e] = "accepted" /\ worker[w].pc \in {"mark", "release"}

\* Where the knowledge that a copy was taken is.
Unrecorded(w, e) == worker[w].pc \in {"record", "mark"} /\ MailOf(w) = e
CopyInv(e) ==
  slips[e] = 0 =>
    /\ copies[e] <= 1
    /\ status[e] = "failed" => copies[e] = 0
    /\ status[e] = "accepted" => copies[e] > 0
    /\ payload[e] = "accepted" => copies[e] > 0
    /\ status[e] = "queued" /\ copies[e] > 0 =>
         payload[e] = "accepted" \/ \E w \in Workers : Unrecorded(w, e)
    /\ \A w \in Workers : MailOf(w) = e =>
         /\ worker[w].pc = "read" => copies[e] = 0 \/ payload[e] # "staged"
         /\ worker[w].pc = "send" => copies[e] = 0
         /\ worker[w].pc \in {"record", "mark", "accept"} => copies[e] > 0
         /\ worker[w].pc \in {"fail", "lost"} => copies[e] = 0 \/ status[e] = "gone"
    /\ sweep.pc = "settle" /\ sweep.row.mail = e /\ status[e] = "queued" =>
         (sweep.accepted <=> copies[e] > 0)

\* All of it together; each action of the protocol preserves this conjunction.
RowInv(e) == ProducerInv(e) /\ HolderInv(e) /\ CopyInv(e)
IndInv == TypeOK /\ SnapshotInv /\ \A e \in Mails : RowInv(e)

=============================================================================
