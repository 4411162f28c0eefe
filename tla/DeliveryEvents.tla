--------------------------- MODULE DeliveryEvents ---------------------------
(***************************************************************************)
(* What became of sent mail: the Email Sending lifecycle events (delivered,*)
(* deferred, bounced, failed, complained), their queue, dead letters and   *)
(* operator replays, the bounce reports (DSNs) that arrive as mail, and    *)
(* what they write: the Sent row's status, the per-recipient statuses and  *)
(* the suppression list in D1.                                             *)
(*                                                                         *)
(* The events reach the Worker at least once and in any order, and while   *)
(* the consumer that sent the mail has yet to record its provider id.  One *)
(* sending domain is modelled.  One action is one await of a handler; a    *)
(* failure costs one unit of MaxFaults.  A definition that stands unused   *)
(* before the one it is named after is a mutant of it.                     *)
(***************************************************************************)
EXTENDS Naturals

CONSTANTS
  Mails,          \* Sent rows
  Addresses,      \* recipients
  Types,          \* the outcomes the provider may report, see AllTypes
  Consumers,      \* invocations of the email-sending-events consumer
  Operator,       \* the operator's replay of a dead letter
  Reports,        \* inbound bounce reports
  RecipientTries, \* RECIPIENT_ONLY_EVENT_MAX_ATTEMPTS
  MaxRetries,     \* max_retries of the events queue
  MaxDlqRetries,  \* max_retries of its dead-letter queue
  FaultKinds,     \* what may go wrong in this instance
  MaxFaults       \* how often, in total

Parties == Consumers \cup {Operator} \cup Reports
\* A bounce is hard (the address is gone) or soft (retries ran out, policy).
AllTypes == {"deferred", "delivered", "failed", "soft", "hard", "complained"}

ASSUME PartyNames == Operator \notin Consumers \cup Reports /\ Consumers \cap Reports = {}
ASSUME TypeNames == Types \subseteq AllTypes
ASSUME Limits == {RecipientTries, MaxRetries, MaxDlqRetries, MaxFaults} \subseteq Nat

VARIABLES
  status,     \* delivery_status of each Sent row; "gone" once deleted
  sending,    \* the send consumer; "done" with provider_message_id on the row
  recips,     \* delivery_recipients: the status kept for each recipient
  suppressed, \* email_suppression: the reason kept for each address
  published,  \* events the provider has published
  queue,      \* the events queue: event and deliveries so far
  dlq,        \* the dead-letter queue
  kept,       \* dead letters kept in R2
  party,      \* where each handler is
  faults,     \* failures so far
  applied,    \* ghost: events handled to the end
  letGo,      \* ghost: the others an operator or a failure took out of the system
  excuse,     \* ghost: "race" when somebody's complaint met a handler that had read
              \*   the list, "full" once un-suppressed or refused by D1
  told        \* ghost: rows a failure was written to ("early": while being sent)

rows == <<status, recips>>
mailQueues == <<queue, dlq, kept>>
ghosts == <<applied, letGo, excuse, told>>
vars == <<rows, sending, suppressed, published, mailQueues, party, faults, ghosts>>

-----------------------------------------------------------------------------
Event == [mail : Mails, to : Addresses, type : Types]
Message == [event : Event, tries : Nat]
Failures == {"failed", "bounced", "complained"}

\* mapEmailSendingEvent and mapRecipientDeliveryEvent.
StatusOfRaw(e) == e.type
StatusOf(e) == IF e.type \in {"soft", "hard"} THEN "bounced" ELSE e.type
Fails(e) == StatusOf(e) \in Failures
\* suppressionFromEmailSendingEvent, dsnRecipientOutcome.
ReasonOf(e) == CASE e.type = "hard" -> "hard_bounce"
                 [] e.type = "complained" -> "complaint"
                 [] OTHER -> "none"

Rank(s) == CASE s = "delivered" -> 1
             [] s \in {"failed", "bounced"} -> 2
             [] s = "complained" -> 3
             [] OTHER -> 0
ReplacesAlways(existing, next) == TRUE
Replaces(existing, next) == Rank(next) >= Rank(existing)

Idle == [pc |-> "idle"]
At(event, tries, from, pc) ==
  [event |-> event, tries |-> tries, from |-> from, pc |-> pc]
Busy == [event : Event, tries : Nat, from : {"queue", "kept", "report"},
         pc : {"look", "suppress", "find", "set", "recip"}]
In(p, pc) == party[p].pc = pc
Of(p) == party[p].event
Goto(p, pc) == party' = [party EXCEPT ![p].pc = pc]

Fault(kind) == /\ kind \in FaultKinds
               /\ faults < MaxFaults
               /\ faults' = faults + 1

Init ==
  /\ status = [m \in Mails |-> "queued"]
  /\ sending = [m \in Mails |-> "ready"]
  /\ recips = [m \in Mails |-> [a \in Addresses |-> "none"]]
  /\ suppressed = [a \in Addresses |-> "none"]
  /\ published = {} /\ queue = {} /\ dlq = {} /\ kept = {}
  /\ party = [p \in Parties |-> Idle]
  /\ faults = 0
  /\ applied = {} /\ letGo = {}
  /\ excuse = [a \in Addresses |-> "none"]
  /\ told = [m \in Mails |-> "no"]

-----------------------------------------------------------------------------
(* The sender and the user, as far as the Sent row goes.                   *)

Step(m, s) == sending' = [sending EXCEPT ![m] = s]
Mark(m, s) == status' = [status EXCEPT ![m] = s]

\* The Email binding took the message; its answer is not recorded yet.
Transmit(m) ==
  /\ sending[m] = "ready" /\ status[m] = "queued"
  /\ Step(m, "sent")
  /\ UNCHANGED <<rows, suppressed, published, mailQueues, party, faults, ghosts>>

\* The claim's holder records the acceptance and the provider id, unchecked.
Record(m) ==
  /\ sending[m] = "sent"
  /\ Step(m, "done")
  /\ IF status[m] = "gone" THEN UNCHANGED status ELSE Mark(m, "accepted")
  /\ UNCHANGED <<recips, suppressed, published, mailQueues, party, faults, ghosts>>

\* The record call fails: the id is kept with the payload for the retry; a
\* consumer that dies here loses it.
RecordFails(m) ==
  /\ sending[m] = "sent"
  /\ \/ Fault("rpc") /\ Step(m, "marked")
     \/ Fault("crash") /\ Step(m, "lost")
  /\ UNCHANGED <<rows, suppressed, published, mailQueues, party, ghosts>>

\* The retry must claim the row, and only a queued one can be claimed.
RecordMarkedAnyRow(m) ==
  /\ sending[m] = "marked"
  /\ IF status[m] = "gone" THEN Step(m, "lost") /\ UNCHANGED status
                           ELSE Step(m, "done") /\ Mark(m, "accepted")
  /\ UNCHANGED <<recips, suppressed, published, mailQueues, party, faults, ghosts>>
RecordMarked(m) ==
  /\ sending[m] = "marked"
  /\ IF status[m] = "queued" THEN Step(m, "done") /\ Mark(m, "accepted")
                             ELSE Step(m, "lost") /\ UNCHANGED status
  /\ UNCHANGED <<recips, suppressed, published, mailQueues, party, faults, ghosts>>

\* Redelivered after its lease, the mail is sent again under an id no event of the
\* first copy names, or the stuck-send sweeper gives the row up.
Recover(m) ==
  /\ sending[m] = "lost" /\ status[m] = "queued"
  /\ Mark(m, "accepted") \/ Mark(m, "failed")
  /\ UNCHANGED <<recips, sending, suppressed, published, mailQueues, party, faults,
                 ghosts>>

\* Deleting the row deletes its delivery_recipients with it.
DeleteRow(m) ==
  /\ status[m] # "gone"
  /\ Mark(m, "gone")
  /\ recips' = [recips EXCEPT ![m] = [a \in Addresses |-> "none"]]
  /\ told' = [told EXCEPT ![m] = "no"]
  /\ UNCHANGED <<sending, suppressed, published, mailQueues, party, faults, applied,
                 letGo, excuse>>

Unsuppress(a) ==
  /\ suppressed[a] # "none"
  /\ suppressed' = [suppressed EXCEPT ![a] = "none"]
  /\ excuse' = [excuse EXCEPT ![a] = "full"]
  /\ UNCHANGED <<rows, sending, published, mailQueues, party, faults, applied, letGo,
                 told>>

-----------------------------------------------------------------------------
(* The provider and its queue.                                             *)

Said(m, a) == {e.type : e \in {x \in published : x.mail = m /\ x.to = a}}
\* Deferred first, then one final outcome; a complaint follows a delivery.
Plausible(m, a, t) ==
  CASE t = "deferred" -> Said(m, a) = {}
    [] t = "complained" -> "delivered" \in Said(m, a) /\ t \notin Said(m, a)
    [] OTHER -> Said(m, a) \subseteq {"deferred"}

Publish(e) ==
  /\ sending[e.mail] # "ready"
  /\ Plausible(e.mail, e.to, e.type)
  /\ published' = published \cup {e}
  /\ queue' = queue \cup {[event |-> e, tries |-> 0]}
  /\ UNCHANGED <<rows, sending, suppressed, dlq, kept, party, faults, ghosts>>

Duplicate(e) ==
  /\ e \in published
  /\ Fault("duplicate")
  /\ queue' = queue \cup {[event |-> e, tries |-> 0]}
  /\ UNCHANGED <<rows, sending, suppressed, published, dlq, kept, party, ghosts>>

-----------------------------------------------------------------------------
(* Handling an event: applyEmailSendingEvent, for the queue and a replay.  *)

\* Suppress before looking up the row: the lookup may retry.
First(e) == IF ReasonOf(e) = "none" THEN "find" ELSE "look"

TakeUncounted(c, m) ==
  /\ In(c, "idle") /\ m \in queue
  /\ queue' = queue \ {m}
  /\ party' = [party EXCEPT ![c] = At(m.event, m.tries, "queue", First(m.event))]
  /\ UNCHANGED <<rows, sending, suppressed, published, dlq, kept, faults, ghosts>>
Take(c, m) ==
  /\ In(c, "idle") /\ m \in queue
  /\ queue' = queue \ {m}
  /\ party' = [party EXCEPT ![c] = At(m.event, m.tries + 1, "queue", First(m.event))]
  /\ UNCHANGED <<rows, sending, suppressed, published, dlq, kept, faults, ghosts>>

\* POST /ops/dead-letters/.../replay.
Replay(e) ==
  /\ In(Operator, "idle") /\ e \in kept
  /\ party' = [party EXCEPT ![Operator] = At(e, RecipientTries, "kept", First(e))]
  /\ UNCHANGED <<rows, sending, suppressed, published, mailQueues, faults, ghosts>>

LetGo(e) == letGo' = letGo \cup ({e} \ applied)

\* Reading the sender's alias record fails: taken for a sender that is not a
\* mailbox, and the event is acknowledged.
AliasUnread(e) ==
  /\ Fault("alias")
  /\ LetGo(e)
  /\ \/ /\ \E m \in queue : m.event = e /\ queue' = queue \ {m}
        /\ UNCHANGED kept
     \/ e \in kept /\ kept' = kept \ {e} /\ UNCHANGED queue
  /\ UNCHANGED <<rows, sending, suppressed, published, dlq, party, applied, excuse,
                 told>>

\* recordSuppression reads the row first: a complaint is never downgraded.
AfterSuppression(p) ==
  party' = [party EXCEPT ![p] = IF @.from = "report" THEN Idle ELSE [@ EXCEPT !.pc = "find"]]
LookBlind(p) ==
  /\ In(p, "look")
  /\ Goto(p, "suppress")
  /\ UNCHANGED <<rows, sending, suppressed, published, mailQueues, faults, ghosts>>
Look(p) ==
  /\ In(p, "look")
  /\ LET a == Of(p).to IN
       IF suppressed[a] = "complaint" /\ ReasonOf(Of(p)) # "complaint"
       THEN AfterSuppression(p)
       ELSE Goto(p, "suppress")
  /\ UNCHANGED <<rows, sending, suppressed, published, mailQueues, faults, ghosts>>

\* A handler that read the row before somebody's complaint is written.
BehindComplaint(p) == \E q \in Parties \ {p} : /\ In(q, "suppress")
                                               /\ Of(q).to = Of(p).to
                                               /\ ReasonOf(Of(q)) # "complaint"
NoteRace(p) ==
  excuse' = IF ReasonOf(Of(p)) = "complaint" /\ BehindComplaint(p)
            THEN [excuse EXCEPT ![Of(p).to] = IF @ = "none" THEN "race" ELSE @]
            ELSE excuse

PutReason(p) == suppressed' = [suppressed EXCEPT ![Of(p).to] = ReasonOf(Of(p))]
Suppress(p) ==
  /\ In(p, "suppress")
  /\ PutReason(p) /\ NoteRace(p)
  /\ AfterSuppression(p)
  /\ UNCHANGED <<rows, sending, published, mailQueues, faults, applied, letGo, told>>

\* Best effort: a failure of D1 (or of the read of the alias) is logged only.
SuppressionFails(p) ==
  /\ Fault("d1")
  /\ In(p, "look") \/ In(p, "suppress")
  /\ excuse' = [excuse EXCEPT ![Of(p).to] = "full"]
  /\ AfterSuppression(p)
  /\ UNCHANGED <<rows, sending, suppressed, published, mailQueues, applied, letGo, told>>

\* The message is acknowledged, the replayed dead letter deleted.
Ack(p) ==
  /\ party' = [party EXCEPT ![p] = Idle]
  /\ kept' = IF party[p].from = "kept" THEN kept \ {Of(p)} ELSE kept
  /\ UNCHANGED <<queue, dlq>>

\* The message is retried until the queue dead-letters it; a replayed dead
\* letter is written back.
Retry(p) ==
  /\ party' = [party EXCEPT ![p] = Idle]
  /\ LET e == Of(p) IN
     CASE party[p].from = "kept" -> kept' = kept \cup {e} /\ UNCHANGED <<queue, dlq>>
       [] party[p].from = "queue" /\ party[p].tries <= MaxRetries ->
            /\ queue' = queue \cup {[event |-> e, tries |-> party[p].tries]}
            /\ UNCHANGED <<dlq, kept>>
       [] party[p].from = "queue" /\ party[p].tries > MaxRetries ->
            /\ dlq' = dlq \cup {[event |-> e, tries |-> 0]}
            /\ UNCHANGED <<queue, kept>>
       [] OTHER -> UNCHANGED mailQueues

\* findEmailByProviderMessageId.
Known(m) == sending[m] = "done" /\ status[m] # "gone"
FoundThen(p) == /\ Goto(p, IF Fails(Of(p)) THEN "set" ELSE "recip")
                /\ UNCHANGED mailQueues
Find(p) ==
  /\ In(p, "find")
  /\ CASE Known(Of(p).mail) -> FoundThen(p)
       [] ~Known(Of(p).mail) /\ ~Fails(Of(p)) /\ party[p].tries >= RecipientTries ->
            Ack(p)
       [] OTHER -> Retry(p)
  /\ UNCHANGED <<rows, sending, suppressed, published, faults, ghosts>>

\* setDeliveryState: the latest writer wins.
WriteFailure(m, s) ==
  IF status[m] = "gone"
  THEN UNCHANGED <<status, told>>
  ELSE /\ Mark(m, s)
       /\ told' = [told EXCEPT ![m] = IF sending[m] = "sent" THEN "early"
                                      ELSE IF @ = "no" THEN "yes" ELSE @]
SetState(p) ==
  /\ In(p, "set")
  /\ WriteFailure(Of(p).mail, StatusOf(Of(p)))
  /\ party' = [party EXCEPT ![p] =
                 IF @.from # "report" THEN [@ EXCEPT !.pc = "recip"]
                 ELSE IF ReasonOf(@.event) = "none" THEN Idle
                 ELSE [@ EXCEPT !.pc = "look"]]
  /\ UNCHANGED <<recips, sending, suppressed, published, mailQueues, faults, applied,
                 letGo, excuse>>

\* recordRecipientDelivery: a late event never undoes a later one.
Upsert(e) ==
  recips' = IF status[e.mail] # "gone" /\ Replaces(recips[e.mail][e.to], StatusOf(e))
            THEN [recips EXCEPT ![e.mail][e.to] = StatusOf(e)] ELSE recips
RecordRecipient(p) ==
  /\ In(p, "recip")
  /\ Upsert(Of(p))
  /\ Ack(p)
  /\ applied' = applied \cup {Of(p)}
  /\ letGo' = letGo \ {Of(p)}
  /\ UNCHANGED <<status, sending, suppressed, published, faults, excuse, told>>

\* A call to the DO throws, before or after it took effect.
CallThrows(p) ==
  /\ Fault("rpc")
  /\ \/ /\ In(p, "find") \/ In(p, "set") \/ In(p, "recip")
        /\ UNCHANGED <<rows, told>>
     \/ In(p, "set") /\ WriteFailure(Of(p).mail, StatusOf(Of(p))) /\ UNCHANGED recips
     \/ In(p, "recip") /\ Upsert(Of(p)) /\ UNCHANGED <<status, told>>
  /\ Retry(p)
  /\ UNCHANGED <<sending, suppressed, published, applied, letGo, excuse>>

\* The invocation ends; the queue delivers its message again.
Dies(p) ==
  /\ Fault("crash")
  /\ ~In(p, "idle")
  /\ IF party[p].from = "kept"
     THEN party' = [party EXCEPT ![p] = Idle] /\ UNCHANGED mailQueues
     ELSE Retry(p)
  /\ UNCHANGED <<rows, sending, suppressed, published, ghosts>>

-----------------------------------------------------------------------------
(* Dead letters.                                                           *)

StoreDeadLetter(m) ==
  /\ m \in dlq
  /\ dlq' = dlq \ {m}
  /\ kept' = kept \cup {m.event}
  /\ UNCHANGED <<rows, sending, suppressed, published, queue, party, faults, ghosts>>

\* The R2 write fails: the dead-letter queue retries, then drops the message.
StoreFails(m) ==
  /\ m \in dlq
  /\ Fault("put")
  /\ IF m.tries < MaxDlqRetries
     THEN /\ dlq' = (dlq \ {m}) \cup {[m EXCEPT !.tries = @ + 1]}
          /\ UNCHANGED letGo
     ELSE dlq' = dlq \ {m} /\ LetGo(m.event)
  /\ UNCHANGED <<rows, sending, suppressed, published, queue, kept, party, applied,
                 excuse, told>>

Discard(e) ==
  /\ e \in kept
  /\ kept' = kept \ {e}
  /\ LetGo(e)
  /\ UNCHANGED <<rows, sending, suppressed, published, queue, dlq, party, faults,
                 applied, excuse, told>>

-----------------------------------------------------------------------------
(* Bounce reports: applyInboundDsn.                                        *)

\* Never downgrade what Email Sending recorded, as of the read of the row.
KeepCurrent(e) ==
  \/ StatusOf(e) = "failed" /\ status[e.mail] \in {"bounced", "complained"}
  \/ StatusOf(e) = "bounced" /\ status[e.mail] = "complained"
ReportArrives(r, e) ==
  /\ In(r, "idle")
  /\ sending[e.mail] # "ready" /\ status[e.mail] # "gone"
  /\ e.type \in {"failed", "soft", "hard"}
  /\ \/ ~KeepCurrent(e) /\ party' = [party EXCEPT ![r] = At(e, 1, "report", "set")]
     \/ /\ KeepCurrent(e) /\ ReasonOf(e) # "none"
        /\ party' = [party EXCEPT ![r] = At(e, 1, "report", "look")]
  /\ UNCHANGED <<rows, sending, suppressed, published, mailQueues, faults, ghosts>>

-----------------------------------------------------------------------------
Sender(m) == Record(m) \/ RecordFails(m) \/ RecordMarked(m) \/ Recover(m)
Handle(p) == \/ Look(p) \/ Suppress(p) \/ Find(p) \/ SetState(p) \/ RecordRecipient(p)
Fail(p) == SuppressionFails(p) \/ CallThrows(p) \/ Dies(p)

Next ==
  \/ \E m \in Mails : Transmit(m) \/ Sender(m) \/ DeleteRow(m)
  \/ \E a \in Addresses : Unsuppress(a)
  \/ \E e \in Event : Publish(e) \/ Duplicate(e) \/ AliasUnread(e) \/ Replay(e)
                      \/ Discard(e) \/ \E r \in Reports : ReportArrives(r, e)
  \/ \E c \in Consumers, m \in queue : Take(c, m)
  \/ \E p \in Parties : Handle(p) \/ Fail(p)
  \/ \E m \in dlq : StoreDeadLetter(m) \/ StoreFails(m)

Spec == Init /\ [][Next]_vars

\* Queues deliver what they hold and handlers that run go on; nobody has to
\* replay, publish or repeat anything.
Fairness ==
  /\ \A m \in Mails : WF_vars(Sender(m))
  /\ \A p \in Parties : WF_vars(Handle(p))
  /\ WF_vars(\E c \in Consumers, m \in queue : Take(c, m))
  /\ WF_vars(\E m \in dlq : StoreDeadLetter(m))
FairSpec == Spec /\ Fairness

-----------------------------------------------------------------------------
(* Properties.                                                             *)

TypeOK ==
  /\ status \in [Mails -> {"queued", "accepted", "gone"} \cup Failures]
  /\ sending \in [Mails -> {"ready", "sent", "marked", "lost", "done"}]
  /\ recips \in [Mails -> [Addresses -> {"none", "deferred", "delivered"} \cup Failures]]
  /\ suppressed \in [Addresses -> {"none", "hard_bounce", "complaint"}]
  /\ published \subseteq Event
  /\ queue \subseteq Message /\ dlq \subseteq Message /\ kept \subseteq Event
  /\ party \in [Parties -> Busy \cup {Idle}]
  /\ \A p \in Parties : ~In(p, "idle") => (party[p].from = "report" <=> p \in Reports)
  /\ faults \in 0..MaxFaults
  /\ applied \subseteq Event /\ letGo \subseteq Event
  /\ excuse \in [Addresses -> {"none", "race", "full"}]
  /\ told \in [Mails -> {"no", "yes", "early"}]

\* Whatever the order, the repetitions and the retries, a recipient shows the
\* gravest outcome handled so far, and only what the provider did report of it (the
\* message has one status for all its recipients; delivery_recipients is what says
\* who bounced).
RecipientsTellTheWorst ==
  \A m \in Mails, a \in Addresses : status[m] # "gone" =>
    /\ \A e \in applied : e.mail = m /\ e.to = a => Rank(recips[m][a]) >= Rank(StatusOf(e))
    /\ recips[m][a] # "none" =>
         \E e \in published : e.mail = m /\ e.to = a /\ recips[m][a] = StatusOf(e)

\* A failure event is never lost on the way: it is handled, or some queue, handler
\* or dead letter holds it, unless an operator discarded it, its sender's alias
\* record could not be read, or the dead-letter queue gave it up.
Held(e) == \/ \E m \in queue \cup dlq : m.event = e
           \/ e \in kept
           \/ \E p \in Parties \ Reports : ~In(p, "idle") /\ Of(p) = e
FailuresNotLost ==
  \A e \in published : Fails(e) => e \in applied \cup letGo \/ Held(e)

\* An address that bounced for good or complained stays suppressed until somebody
\* lifts it or D1 fails, and the complaint is what the list says, unless another
\* handler had read the list before the complaint was written.
SuppressionHolds ==
  \A e \in applied : ReasonOf(e) # "none" /\ excuse[e.to] # "full" =>
    /\ suppressed[e.to] # "none"
    /\ ReasonOf(e) = "complaint" /\ excuse[e.to] = "none" => suppressed[e.to] = "complaint"

\* A failure written to the Sent row stays visible: no late record of the
\* acceptance hides it, except the one under way when a bounce report overtook it.
FailureStaysVisible ==
  \A m \in Mails : told[m] = "yes" => status[m] \in Failures \cup {"gone"}

\* Every failure the provider reports ends up on the row or with the operators.
FailuresReachSomebody ==
  \A e \in Event :
    e \in published /\ Fails(e) ~> e \in applied \cup letGo \cup kept

=============================================================================
