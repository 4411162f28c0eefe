# Verification of Inboxies

TLA+ models of the core of Inboxies, the TLC instances that check them and the
theorems TLAPS proves about them. Paths in this document are relative to the
repository root (`src/` here); line numbers are those of the modelled commit.

## The system

Inboxies is an email service on Cloudflare Workers. Everything that decides
something about a message runs in `workers/`; the web app, the native apps, the
marketing site and the browser extension are clients of its HTTP API.

| Part | State it keeps | Runs as |
| --- | --- | --- |
| Worker (`workers/index.ts`, `workers/routes/`) | none | one invocation per request, per inbound message, per queue batch, per cron tick; any number at once; may die at any `await` |
| Mailbox DO (`workers/durableObject/index.ts`) | SQLite rows, key-value storage, one alarm | one per mailbox, single threaded: a method up to its first `await` on something other than its own storage is one atomic turn |
| R2 bucket | bodies, raw MIME, attachments, staged outbound payloads, mailbox metadata | atomic per key; a call may fail or succeed without the caller learning it |
| Queues `outbound-send`, `email-sending-events` and their dead-letter queues | messages | at least once, unordered, bounded retries, then the dead-letter queue |
| Email binding | messages accepted for delivery | external; takes a message or throws, sometimes both |
| D1 (`workers/auth`, billing, domains) | accounts, billing and domain rows | external transactions |
| Cron | none | hourly maintenance |

### Components

For each component: what it keeps, what changes it, what makes it hard, and what
correctness means for it. Paths are under `workers/`.

**Outbound send queue** (`lib/outbound-send-queue.ts`, `-claim.ts`, `-sweeper.ts`).
Keeps the delivery status, enqueue time and re-enqueue count of a Sent row, a
lease per row in DO storage, the staged payload in R2, messages on two queues,
the DO alarm. Changed by the send routes (store, stage, enqueue, note), by the
queue consumer, by the dead-letter consumer, by the alarm's sweep. Hard: three
parties that may each send or give up on a row, at-least-once queues, a binding
that may accept a message and fail to say so, a lease that may run out. Correct
when a message goes out at most once unless no party could know that it had, and
every row that reads "Sending" ends up settled.

**Inbound delivery** (`index.ts` `receiveEmail`, `lib/inbound-claims.ts`, DO
`createEmail`). Keeps the Message-ID claim and the row in the DO and the body
and attachments in R2. Changed by each delivery, by the user deleting the row, by
purge and revival. Hard: the sending side repeats and fans out, each delivery is
an invocation of its own, calls fail after taking effect, invocations die between
claim and row. Correct when a message appears once, is not lost once accepted,
and its R2 objects live exactly as long as its row.

**Mailbox purge, revival, blob deletes** (`lib/mailbox-purge.ts`,
`lib/pending-blob-deletes.ts`, DO `purgeMailbox`, `reviveMailbox`,
`updateDraftEmail`). Keeps the deletion flag, the `pending_blob_deletes` table,
the metadata object in R2 and the D1 row. Hard: a purge is a chain of steps over
three stores, any of which may be the last before a crash, while draft saves and
deliveries are between their R2 put and their row. Correct when a purged mailbox
stays purged, a stored row keeps its body, and every R2 object is either owned by a
row or queued for deletion.

**Idempotent sends and send quota** (`index.ts` send routes,
`lib/outbound-idempotency.ts`, `lib/send-quota.ts`, DO `checkSendRateLimit`,
`releaseSendSlot`). Keeps the key of a row and the quota counters. Hard: a
client's retry races its own first attempt across five DO calls. Correct when one key
makes at most one row, and a slot is spent exactly by a row that was queued.

**Delivery events, recipients, suppression** (`lib/email-sending-events.ts`,
`lib/delivery-recipients.ts`, `lib/email-suppression.ts`, `lib/inbound-dsn.ts`).
Keeps a status per recipient and per row, and the suppression list. Hard: events
arrive late, twice and out of order, from two sources (queue and bounce mail). Correct
when a bounce is never overwritten by an earlier event and a complaint stays on
the list.

**Domain purchase and renewal** (`lib/billing-fulfillment.ts`,
`lib/domain-reservations.ts`, `routes/billing.ts`). Keeps the reservation
in D1, a record per checkout session and domain metadata in R2, the registration at the registrar, the
charge at Stripe. Hard: webhooks repeat and race, a fulfilment is resumed after a
crash between buying and recording, a refund competes with a late success. Correct when
a domain is bought for at most one session, a session is not both fulfilled and
refunded, and every paid session ends as one of the two.

**Domain offboarding** (`lib/domain-offboarding.ts`, `lib/domain-purge.ts`).
Keeps a progress record per domain with a lease. Hard: runners outlive their lease,
the owner may finalize beside the cron, each step deletes something elsewhere.
Correct when nothing is touched unannounced, nobody pays for what is being deleted, and a started finalisation completes.

**Mailbox alarm** (DO `alarm`, `lib/folder-retention.ts`,
`lib/reply-later-reminders.ts`). One alarm serves blob deletes, retention, reminders
and the send sweep. Hard: each user of the alarm may overwrite or consume another's.
Correct when every kind of due work has an alarm ahead of it.

**Automations** (`lib/mail-automations.ts`, `lib/inbox-filters.ts`). Keeps when
each correspondent was last answered. Hard: two auto-responders facing each other;
a claim taken before a send that fails. Correct when one sender is answered at most once
per window.

**Sender verdicts and undo** (`lib/sender-verdict-undo.ts`, `lib/sender-triage.ts`).
Keeps rules and a snapshot behind an undo token. Hard: the restored snapshot may be
older than later verdicts. Correct when undo restores only what its verdict changed.

**Export jobs** (`durableObject/export-job.ts`). Keeps a cursor, an open upload, a carry and a counted number
of attempts, advanced by its alarm. Hard: a slice may die between any two of its calls and is repeated from
the old state. Correct when a completed archive is whole, every job ends, and nothing is left behind.

**Agent conversations** (`agent/index.ts`, `lib/agent-conversation-tombstones.ts`).
Keeps an index of conversations and tombstones. Hard: a late turn of a deleted
conversation writes it back. Correct when deleted stays deleted.

**Aliases and routing** (`routes/aliases.ts`, `lib/mailbox-routing.ts`). Keeps a
routing record in R2 and a row in the DO, written by two calls. Hard: two editors, or an
editor and a deletion, between the two. Correct when record and row agree.

**The rest** (accounts, MCP and OAuth grants, DNS and domain verification,
cron mail, push, AI calls, search, parsing, HTTP filters, schemas, clients) is
single statements on one store, calls to external services, or stateless code;
`PROJECT.json` lists each with the reason it is not modelled.

### Interactions

- Routes and `receiveEmail` call the mailbox DO by RPC. A DO method is atomic up
  to its first `await` on R2 or on another service; between two RPCs of one
  request everything may change. An RPC may throw after having taken effect.
- The DO and the Worker share R2: bodies and attachments are put before the row
  that names them and deleted after the row is gone.
- The Worker and the consumers share the queues; the DO's alarm is a third
  producer of `outbound-send`.
- A delivery, a draft save and a send meet a purge through the deletion flag, which the
  DO checks on each write.

## Modelling conventions

- One action is one DO turn, or one external call of a Worker with the local code up to
  the next. A call that fails after its effect is a separate disjunct from one that
  fails before it.
- Faults are counted: every fault takes `Fault(kind)`, which needs the kind in the
  instance's `FaultKinds` and the total below `MaxFaults`. Where the code cannot know
  something any more (no living party and no record holds it), the step also adds to
  the ghost `slips`; properties that hold only while nothing slipped say so.
- A definition that stands unused before the one it is named after (`UnstageSkipped`
  before `Unstage`) is a mutant: the same code with a plausible bug, which some run must refute.
- Each `MC*.tla` gives the model values and the symmetry sets, each `.cfg` the bounds and
  the properties of one question. Proofs are in `*Proofs.tla`.
- Passing of time is an action that is enabled whenever the clock could matter: a lease,
  a claim or a threshold may expire at any moment.

## The models


### `OutboundSend`: sending one message exactly once

*Code.* `lib/outbound-send-queue.ts`, `lib/outbound-send-claim.ts`,
`lib/outbound-send-sweeper.ts`; in the DO `setDeliveryState`,
`claimOutboundSend`, `noteOutboundSendQueued`, `releaseOutboundSendClaim`, the
alarm's `#sweepStuckSends` and the constructor's `#resumeStuckSendSweep`.

A send route stores the Sent row as `queued`, stages the payload in R2, puts a
message on `outbound-send` and tells the DO. A consumer claims the row (a lease
of five minutes in DO storage), reads the payload, calls the Email binding,
records the outcome and deletes the payload. Messages whose retries run out go
to a dead-letter consumer that settles the row. The DO alarm sweeps rows queued
for ten minutes: it re-enqueues them a few times and then gives up on them
itself.

| Variable | Code |
| --- | --- |
| `status`, `queuedAt`, `reenqueues` | `delivery_status`, `send_queued_at` (against the threshold), `send_attempts` of the row |
| `claim` | holder of the unexpired `outbound_send_claim:{id}` (the code stores only the expiry; the holder is what the properties need) |
| `payload` | R2 `outbound/{id}.json`; `accepted` when `acceptedProviderMessageId` is set |
| `sendQueue`, `deadLetters` | messages visible on the two queues |
| `request`, `worker`, `sweep` | program counters of the producing request, of each consumer invocation, of the sweep |
| `alarm` | the DO alarm |
| `faults` | how many faults have happened (at most `MaxFaults`), and whether all were mild |
| `copies`, `slips` | ghosts: copies the binding took; steps after which no party knows of a copy |

*Faults.* Every external call may fail before or after its effect, every Worker
and the DO may die between two calls, the queue may lose, duplicate and reorder
messages, and a call may outlast the lease. Each costs one unit of `MaxFaults`,
and `FaultKinds` selects the kinds of an instance, so a run says exactly which
faults its properties survive. *Mild* faults are those after which the code still
reaches its cleanup: lost and duplicated messages, failing payload reads and writes, a
queue that refuses. `NoOrphanPayload` speaks of states with mild faults only, because
deleting a payload is best effort and a party that died deletes nothing.

*Abstract specification.* `DeliveryPromise` knows only the row, the copies and
the slips: `Write`, `Transmit` (at most one while no slip happened), `Report`
(once, truthful), `Delete`, `LoseTrack`. `KeepsPromise` is the refinement.

| Run | Instance | Question |
| --- | --- | --- |
| `send_faults` | 1 row, 2 consumers, one retry, one dead-letter retry, one re-enqueue, every kind of fault, 2 faults | is the row sent and settled as promised, are second copies always paid for by a slip, and does a staged payload outlive its row's settlement? |
| `send_settles` | 1 row, 1 consumer, lost messages, crashes, restarts and failing RPCs, 3 faults | does a row ever read "Sending" forever? |

*Why the bounds suffice.* Rows share nothing but the sweep's list, the alarm and
the consumers, so one row with two consumers has every interleaving of two
holders of its lease, plus the sweeper as a third (the theorems cover any number of
rows). One retry of each kind is enough to reach the dead letter with and without
a retry before it, one re-enqueue to reach giving up with and without one
before it. Two faults reach each of the known ways a copy is lost track of
(crash after acceptance; record fails and mark fails; read fails in the
dead-letter consumer) together with one more disturbance. Three faults in
`send_settles` lose the producer's message and the re-enqueued one and disturb the
sweep that gives up.

*Fairness* (only in `send_settles`). Started requests, consumers and sweeps are
eventually run by the platform; visible messages are delivered; time passes
(thresholds and leases expire); the alarm fires if set. After a fault that may have
stopped the alarm (any that is not mild) the mailbox is opened again now and then
(`Wake`, the DO constructor): that is what re-arms the alarm when the note that should
have set it was lost, and without it a row whose note failed does read "Sending" for as
long as nobody opens the mailbox. As long as only messages were lost no `Wake` is
assumed: the alarm alone must do. Nothing is assumed of the user or of the
faults, and strong fairness nowhere.

*Proved* (`OutboundSendProofs`), for any number of rows, consumers, retries and
faults: `TypeCorrect`, `FailedRowsUnsent`, `SweeperIsAlone` and the refinement
`Implements == Spec => KeepsPromise`. `send_faults` checks the last; the three others are its
explanation (a row reads *failed* only if no copy of it is out, one sweep at a time). All follow from `Inductive ==
Spec => []IndInv`. `IndInv` has, besides types, four parts: `SnapshotInv` (the
sweeper lists a row once and only the sweeper changes the count it listed),
`ProducerInv` (until the producer's message is on the queue nobody else works on
the row), `HolderInv` (while nothing slipped, the lease is a lock: at most one
holder, and a holder's row is `queued` under its claim) and `CopyInv` (where the
knowledge that a copy was taken lives: in the row, in the payload, or in the
consumer about to write it). The proof has one lemma per actor for the row it
works on (`MailStepOwnRow`, `ConsumerOwnRow`, `SweepRows`) and one frame lemma
(`Frame`) for all other rows. The assumptions are `Parties` and `Bounds` only.

`NoPayloadLeft` and `EveryCopyAccounted` have an invariant each, on top of `IndInv`. `CleanupInv`: while faults
are mild, a settled row has no payload or there is a party whose way leads past
`deletePayload`. `CountInv` counts what was sent together with what may still be sent: the copies of a row and
the parties that may yet transmit it (`Senders`: a holder before the binding, the sweeper while it settles the row, and
whichever consumer will take a free lease) are together at most one more than its slips. It is what remains of
the lease after the first slip, when nobody holds it exclusively.

*Model-checked only.* `EventuallySettled`.

*Where comments promise more.* When the DO call that records an acceptance and
the R2 write that would mark the payload both fail, the consumer acknowledges
the message and leaves the row queued; the lease then expires, the sweeper
re-enqueues the row, and the next consumer sends a second copy (a slip, in the model). The sweeper's
header (`lib/outbound-send-sweeper.ts:18-20`) calls an extra message harmless.

### `InboundDelivery`: one row per received message

*Code.* `receiveEmail` and `abandonUnstoredInbound` in `index.ts`, the claim
functions of `lib/inbound-claims.ts`, DO `createEmail`, `deleteEmail`,
`reviveMailbox`, and `lib/mailbox-purge.ts`.

A delivery checks that the mailbox is writable, claims its Message-ID, stores the
attachments, classifies, stores the body, stores the row, and completes the
claim. The catch block abandons: the DO says whether the row was stored after
all (then the blobs stay), gives the claim back, and the Worker deletes the blobs.

| Variable | Code |
| --- | --- |
| `mailbox` | `MAILBOX_DELETED_KEY` in DO storage |
| `row` | the `emails` row under the id a delivery drew |
| `claim` | the `inbound_message_claims` row: owner, fresh or stale, completed |
| `blobs` | R2 objects under each id |
| `pc` | where each invocation is |
| `listed`, `reports`, `refused` | `attachmentData`, a recognised bounce report, "Mailbox has been deleted" |
| `envelope`, `sender` | the sending side: what it knows of each recipient, and which delivery it listens to |
| `faults` | how many faults, and whether all were mild (the code still cleans up after them: not a crash, a put whose outcome is unknown, or a failure of the cleanup itself) |
| `overtaken`, `slips` | ghosts: deliveries that outlived their claim; failures nobody is left to know of |

| Run | Instance | Question |
| --- | --- | --- |
| `inbound_faults` | 3 deliveries, 2 envelopes, 2 faults of any kind, purge included | implements `MailPromise`: one row, accepted mail kept; rows keep their blobs; no object without a row after mild faults |
| `inbound_kept` | 4 deliveries, 2 envelopes, 1 fault, no symmetry | does the message arrive, or its sender learn that it did not? |

*Why the bounds suffice.* Two envelopes and three deliveries give two concurrent
first deliveries plus a retry of either; the claim has one holder, so a fourth
delivery meets it in a state a third has met. `inbound_kept` has four, because one purge
can fail both first deliveries and each must have a retry left. Two faults allow a fault in the
delivery and one in its cleanup. The number of deliveries ends the run, so the
system may stop (`CHECK_DEADLOCK FALSE`); what a delivery out of that number would have
found is an envelope in `retry`, which the properties count as pending.

*Fairness.* Each invocation runs on while the isolate lives, and the sending side
repeats what it got no answer for (SMTP). No fairness for purge, revival,
deletion, staleness or faults.

*Assumptions.* The email ids deliveries draw are distinct. A DO call whose reply was lost has
run before the same invocation's next call to that DO. The flag and the wipe of a
purge are one turn here (`BlobDeletes` splits them by a restart). Mail without a Message-ID is never
deduplicated and is left out.

*Abstract specification.* `MailPromise` knows what the senders and the reader see: the envelopes and the rows. Its actions are
`Offer`, `Store` (once for each delivery, and beside another row only when one of the two deliveries outlived
its claim), `Accept` (on a row that was ever stored, or on another envelope that is still open, until something slips),
`TurnAway` (to be repeated, or refused) and `Remove`. Claims, blobs, program points and faults are hidden. The mapping is the identity on
`row`, `envelope`, `overtaken` and `slips`; `KeepsMail` is the refinement.

*Proved* (`InboundDeliveryProofs`), for any number of envelopes and deliveries, any
faults: `TypeCorrect`, `RowsKeep`, `NothingOrphaned`, the refinement `Implements == Spec => KeepsMail`, and the
invariants `StoredOnce` and `AcceptedKept`, which `PromiseSuffices` also derives from `KeepsMail` alone. Each step of a
delivery is matched with an action of the promise, or with none: a delivery answers only the envelope that listens to it
(`SenderInv`), it stores a row only beside those of deliveries that were overtaken (`SlotInv`), and a duplicate is accepted
because the claim it met has either completed, on a row, or an owner whose sender still waits (`ClaimInv`).

`RowsKeep` follows
from `BlobInv`: until it stores its row a delivery has exactly the objects its
program point says, and the only action that removes objects of an existing row is
reached after the DO said that there is none. `StoredOnce` follows from `SlotInv`:
a delivery under way that was not overtaken holds the claim, and the claim is completed
or the holder's row unstored, so two stored rows without overtaking would be two
holders. `AcceptedKept` needs `SenderInv` (an open envelope is listened to by one
delivery under way), `ClaimInv` (an unfinished claim has a living owner as long as
nothing slipped) and `KeptInv`.
`NothingOrphaned` follows from `CleanInv`: while all faults
are mild, nothing is written before the claim is won, the cleanup's list has every attachment that was
written, and a delivery that is over without a row has no object left.

*Model-checked only.* `EventuallyKept`.

*Where comments promise more.* A retry within fifteen minutes of a delivery that died
holding the claim is answered as a duplicate. The comment at
`lib/inbound-claims.ts:17` says that the claim left behind can be taken over; but
whoever would take it over has been told that the message was accepted. `AcceptedIsKept` counts it
among the `slips`.


### `BlobDeletes`: rows, R2 objects and the queue of deletes

*Code.* `lib/pending-blob-deletes.ts`, `lib/mailbox-purge.ts`, `storeEmailContent`; in
the DO `createEmail` and `updateDraft` of drafts with a body,
`#assertStillWritableAfterBlobWrite`, `deleteEmail`, `purgeMailbox`, `reviveMailbox`,
`#sweepPendingBlobDeletes`, the alarm's drain and the constructor's
`#resumePendingBlobDeletes`.

A DO method is atomic only up to its first wait for R2. `createEmail` puts the body
*before* it inserts the row, `updateDraft` before it updates the row; both look at the
deletion flag again after the put. `deleteEmail` and the purge remove rows and queue
their keys in one transaction, then delete the objects; a key leaves the queue only
after its delete succeeded, and the alarm (set by a failed sweep, and by the
constructor when keys are queued) comes back for the rest.

| Variable | Code |
| --- | --- |
| `deleted` | `MAILBOX_DELETED_KEY` |
| `row` | the `emails` row of each id (`unused`: the id was not drawn yet) |
| `pending` | `pending_blob_deletes` |
| `alarm` | the DO alarm |
| `blob` | objects in R2 |
| `call` | each method under way: what it waits for, and whether R2 has done it |
| `faults` | faults so far |
| `strays` | ghost: ids excluded from `NothingLeaks` |

`StartCreate`, `StartUpdate`, `DeleteEmail`, `Purge` and `Revive` are methods up to
their first wait; `PutLands` and `DeleteLands` are R2; `Resume` and `SweepDone` are the
rest of a method; `PutFails`, `SweepFails` and `Restart` are what may go wrong. The
alarm's handler is a call of its own.

| Run | Instance | Question |
| --- | --- | --- |
| `blobs_faults` | 2 drafts, 2 calls and the alarm, 2 faults of any kind | rows have their bodies; bodies have a row or are queued; nothing lands under the flag; what is queued is deleted |

*Why the bounds suffice.* Two calls and the alarm are a save, a purge or deletion, and a
drain at once; two drafts give batches of one and of several keys. Two faults give a
failed delete and a restart, or two failed deletes of one key.

*Fairness.* R2 answers and calls go on (`WF(Step(c))` for each call), and a set alarm
fires. Requests, purges, failures and restarts are never assumed to happen. A `Restart`
includes the constructor of the next event, so `EventuallySwept` takes for granted
that the mailbox is reached again after an eviction.

*Abstractions.* The objects of a mail (body, raw MIME) are one object. A failed put may
have landed; a put that lands only after it was reported failed is not modelled, its id
is among the `strays` in any case. The wipe of D1 rows and of the R2 metadata belongs
to the mailbox's lifecycle, which is not modelled.

*Proved* (`BlobDeletesProofs`), for any number of mails and calls and any faults:
`TypeCorrect`, `Readable`, `NoLeak`, `NothingLands`, from `Inductive`. The invariant
says of each call what it may still do to a mail: queued keys and the keys of a delete under
way belong to mails that have no row and will get none (`DeadInv`: ids are never
reused), a mail being created has no row yet and only one creator (`CreateInv`), a mail
being updated has a row and the flag is clear, or it was deleted meanwhile and is a stray
(`UpdateInv`), an id not drawn has no object (`UnusedInv`), and of a batch that R2 has
deleted nothing is left but strays (`LandedInv`). `RowsReadable` is not inductive without
`DeadInv` (a delete under way could name a row), `NothingLeaks` not without `LandedInv`
(forgetting the keys of a batch must not forget an object). `QuietStep` is the frame
lemma for steps that touch none of it.

*Model-checked only.* `EventuallySwept`.

*Where comments promise more.* The re-check after the put reads only the flag, which a
revival clears, so a draft begun before a purge lands in the mailbox created afterwards; `lib/mailbox-purge.ts:9-10` says that nothing new can land after the
wipe. Beside it, the exception named `strays` is real: a draft deleted or purged while
an update of it is being saved can leave its new body in R2 with nothing queued, either because
`updateDraft` does not look whether the row is still there, or because the sweep of the
purge forgets the key that the update's own sweep failed to delete.

### `DomainPurchase`: checkouts, webhooks and the reservation of one domain

*Code.* `lib/domain-reservations.ts`; in `lib/billing-fulfillment.ts` `fulfillPaidCheckout`,
`provision`, `refundAndFail`, `markAwaitingPayment`, `endUnpaidCheckout` and the loading of
records; in `routes/billing.ts` `POST /checkout`, `takeOverOwnCheckout`,
`releaseAbandonedCheckout` and `POST /stripe-webhook`. Stripe, the buyer and the registrar are
modelled from how this code uses them.

A checkout takes the reservation row, creates a Stripe session, ties the two together and
saves a record. Stripe then delivers events until it gets a 200; each delivery is an
invocation of its own, and two of one session may overlap. A paid event is fulfilled under a
claim on the row: read record and metadata, claim, read both again, register or look up
what an earlier attempt registered, set everything up, write the metadata (from then on the
session owns the domain), mark the record *ready*, delete the row. If the domain is somebody
else's, it is refunded: note why, refund, mark the record *refunded*, delete the row.

| Variable | Code |
| --- | --- |
| `row` | `domain_reservation`; `lapsed`: `expiresAt` is past |
| `record` | `billing/sessions/{id}.json`: status, `registration`, `terminalError` |
| `metadata` | `billing.checkoutSessionId` in the domain's metadata |
| `registrar`, `stripe`, `refunded`, `events` | the outside: whose the domain is, each session's state, refunds, events not yet acknowledged (`billing/events/{id}.json` is missing) |
| `request` | each checkout request: what it does next |
| `attempt` | each webhook invocation: what it does next, its event, the record it read |
| `faults` | faults so far |
| `torn` | ghost: sessions that two invocations handled in two different ways at once (one fulfils, another refunds, parks or ends it) |

Actions of requests: `CheckFree`, `Hold`, `ExpireOld` / `MoveHold` / `CancelOld` (a buyer who
starts over), `CreateSession`, `Attach`, `SaveCheckout`, `Abandon` / `DropHold` / `CloseRecord`.
Actions of invocations: `Deliver`, one per call of the handler, `Acknowledge`. Outside:
`Buyer`, `SoldElsewhere`, `Lapse` (a lease may run out whenever it is held).

| Run | Instance | Question |
| --- | --- | --- |
| `purchase_overlap` | 2 checkouts, 2 invocations for the first and 1 for the second, leases that lapse, no failure | implements `PurchasePromise`: one outcome per payment, one owner; no payment forgotten |
| `purchase_settles` | 2 checkouts, 1 invocation each, 1 failure: crash, failed call, refusal, or registrar error before or after the purchase | every payment ends in the domain or a refund; a domain bought is never lost |

*Why the bounds suffice.* The row knows one holder, and a conflict has two sides: two checkouts
and, for one of them, two deliveries give every pair of handlers that can meet, including an
invocation that sleeps past its lease while another finishes. A third checkout could only
repeat what the second does to the first. One failure in `purchase_settles` is followed by as
many redeliveries as the code needs; two failures in a row are two first failures, since nothing of
an invocation survives but the stores.

*Fairness.* Stripe delivers what is not acknowledged (it does, for days), an invocation goes on,
a lease runs out. Buyers, requests and failures owe nothing. With overlapping deliveries an unlucky
schedule can let one delivery overwrite *ready* with *provisioning* after its lease ran out and end
there, with the event acknowledged by the other: owner and payment are right, but the record
never reads *ready* again. `PaidIsSettled`, which asks for *ready*, is therefore checked with one delivery
of a session at a time.

*Abstract specification.* `PurchasePromise` knows what the outside sees: who paid, whose payment was
given back, whose event is closed, whether the domain is ours at the registrar, who has it, and what each
record says of its outcome. The domain is bought only for a payment that is due it and while
nobody has it; a payment becomes the owner's or goes back, never both; its event is closed after one of the
two; *ready* and *refunded* are said only of what is so. `DomainPurchase` implements it under the mapping
at `Promise`; the promise ends with the first torn session.

*Torn sessions.* The claim keeps two fulfilments apart, but nothing keeps a fulfilment
and a refund of one session apart: the owner of a domain may be refunded. The safety properties hold
for all histories in which no session is torn, and say so (`torn = {} =>`).

*Abstractions.* Zone, DNS, owner, mailbox and ownership row are one step `SetUp` (each is looked
up before it is created; a failure inside it is a `CallFails` before or after the save). A
failing call has no effect; the case with effect is the next state followed by a crash or a failing
call. The customer index, prices, and the parts of the metadata other than its owner are left out,
and so are renewal checkouts, lifecycle events and the mock checkout. A buyer pays only once they have
the URL, which they get when the request is done.

*Proved* (`DomainPurchaseProofs`), for any number of checkouts, invocations and failures:
`Implements`, the refinement of `PurchasePromise`; `OursIsNotStranded`;
`TypeCorrect`, `BuyersAreOne`, `OutcomesAreOne`, `PaymentsAreRemembered`, `OwnerIsForGood`. `PromiseSuffices` shows
that the abstract specification is not too weak: whatever implements it satisfies `OneOutcome` and `NoPaymentForgotten`.
All rest on `Inductive`, whose invariant has two layers. `OuterInv` always holds: a session is paid only after its request is done,
only paid sessions have paid events and refunds, each event has its handler.
`SafeInv` holds while nothing is torn: invocations of a session are in one handler (`SameHandler`); the
record an invocation keeps in memory was not yet settled when it was read, and a refund is noted in the
store before it is made (`CopyInv`); whoever
fulfils has not refunded, whoever refunds does not own (`OutcomeInv`); whoever buys has the row or owns the domain
already (`HoldInv`). `OneBuyer` follows from `HoldInv` alone: a lease that ran out can be taken by the same session only, and
a row is deleted only by a session that owns the domain or is in another handler. The step
lemmas are grouped by what a step touches: nothing (`JustMoves`), the row (`RowSafe`), the record (`SaveSafe`), and
`SaveMetadata` and `Refund` each by itself.

`Implements` adds `BoughtInv` (who sets the domain up, a record that tells of the purchase, and an owner
each imply that the domain is ours), so nobody owns the domain when it is bought. `OursIsNotStranded` adds
`OursInv`: once the domain is ours and without an owner, some session is `Due` it, that is, it
has the row, its event is open, and no invocation is on the way to refund it or remembers that it was to be.
It needs that a session's failed and expired events and its paid ones exclude each other (`ClosedInv`) and that
nobody fulfils a session whose record says it is to be refunded (`FreshInv`).

*Model-checked only.* `PaidIsSettled`.

*Where comments promise more.* The retry of a refund that was saved but not let go answers
200 without deleting the row (`lib/billing-fulfillment.ts:240`, where the ready branch does, at 237), and
nothing else ever deletes it. The last look at the metadata (512) does not
protect the refund that follows (520).


### `DeliveryEvents`: what became of sent mail

*Code.* `lib/email-sending-events.ts`, `lib/email-sending-queue.ts`,
`lib/email-sending-dlq.ts` with the operator's replay and discard, `lib/delivery-recipients.ts`,
`recordSuppression` and the un-suppress route, `applyInboundDsn`; in the DO
`findEmailByProviderMessageId`, `setDeliveryState`, `recordRecipientDelivery`, `deleteEmail`;
of `lib/outbound-send-queue.ts` how the provider's id reaches the row.

The provider's events come through a queue of their own, in any order, twice, and possibly
before the send consumer has recorded the id they are looked up by. A consumer suppresses
the address first, looks up the row, writes the row's status if it is a failure, then the recipient's. A
failure event whose row is not found is retried to the dead letters, which an operator may
replay or discard; other events are dropped after a few tries. Bounce reports that arrive as
mail write the same row status and the same list.

| Variable | Code |
| --- | --- |
| `status`, `recips` | `emails.delivery_status`, `delivery_recipients` |
| `sending` | how far the send consumer is with recording `provider_message_id` |
| `suppressed` | `email_suppression` in D1 |
| `queue`, `dlq`, `kept` | the events queue, its dead-letter queue, dead letters in R2 |
| `party` | each consumer, replay and bounce report: its event and what it does next |
| `faults` | faults so far |
| `published`, `applied`, `letGo`, `excuse`, `told` | ghosts: what the provider said, what was handled or given up, why a suppression may be missing, which rows were told of a failure |

| Run | Instance | Question |
| --- | --- | --- |
| `events_faults` | 1 mail to 1 recipient; delivered, hard bounce, complaint; a consumer, the operator, a bounce report; 1 fault of any kind | a recipient's status does not regress, suppressions last, a failure on the row is not hidden by an acceptance, and every failure reaches the row or the operators |

*Why the bounds suffice.* A recipient's status, the list entry and the row's status are
written per address and per mail, so one of each meets every race. The races are between two
handlers that read before they write, and three different handlers can be at work on one address. One retry
and one early give-up stand for the code's three and five: what matters is that there is a try
before the limit and one at it. The proofs need none of these bounds.

*Fairness.* The queues deliver, handlers go on, the send consumer records what it sent.
Nobody has to publish, replay, discard or repeat anything.

*Abstractions.* Queues are sets: equal messages count once. Statuses that change nothing
(`queued`, `sent`, opens) are left out. `Recover` stands for what `OutboundSend` has in
detail: a second transmission under a new id, or the sweeper's give-up. One sending domain and
one mailbox are modelled; the two lookups that lead from an event to its mailbox are one guard.

*Proved* (`DeliveryEventsProofs`), for any mails, addresses, handlers, limits and faults:
`TypeCorrect`, `Worst`, `NotLost`, `Suppressed`, `Visible`, from `Inductive`. The invariant says what each
handler has still to do: what it holds was published (`QueuedInv`), a handler past the lookup has
done its suppression (`OwedInv`), one that is about to write the list while a complaint stands has the race noted (`BehindInv`), and
a row that was told of a failure has no acceptance to come but the one
noted (`WrittenInv`).

*Model-checked only.* `FailuresReachSomebody`.

*Where comments promise more.* `lib/email-sending-events.ts:305-306` says that failure events keep
retrying until the queue dead-letters them; the read of the sender's alias record
answers "not a mailbox" on an R2 failure too (362-373), and the event is acknowledged
(`AliasUnread`, `letGo`). `lib/email-suppression.ts:100` says a complaint is never downgraded;
the row is selected and then written, and a bounce between the two does (`excuse = "race"`). `lib/inbound-dsn.ts:336`
has the same window on the row's status. A bounce report that arrives before the acceptance is recorded is
hidden by it (`told = "early"`).


### `SendRoute` and `KeyedSends`: the requests that send

*Code.* The routes that send, reply and forward (`index.ts`, `routes/reply-forward.ts`), `lib/outbound-idempotency.ts`,
`lib/send-quota.ts`, `storeAttachments`; `sendInboundAutoReply` and the agent's tools (`lib/tools.ts`),
which send without the queue; in the DO `checkSendRateLimit`, `releaseSendSlot`, `createEmail` of a Sent row,
`claimAutoReply`, `releaseAutoReply`.

A request looks its key up, checks sender, suppression and size, reserves its recipients in the
quota, stores its attachments, and has the DO store body and row; the DO looks the key up again before the
body's put and once more in the turn of the insert. The loser gives back its slot, its attachments and its body
and answers with the winner's id; the winner hands the message to `enqueueOutboundSend`, which is where
`OutboundSend` begins (its `StoreRow` is `Insert` here).

| Variable | Code |
| --- | --- |
| `row` | the `emails` row of each request's id |
| `slots` | `send_log`, oldest first |
| `bodies`, `atts`, `pending` | body and attachment objects in R2, `pending_blob_deletes` |
| `claims` | `auto_reply_receipts` of the window |
| `pc`, `winner`, `answer` | each request: its next call, what `createEmail` told it, what it told its client |
| `handed`, `sent` | given to `enqueueOutboundSend`; taken by the Email binding directly |
| `faults` | faults so far |
| `overdrawn`, `hurt` | ghosts: recipients that releases took off the log in excess; requests whose cleanup failed |

| Run | Instance | Question |
| --- | --- | --- |
| `route_faults` | 2 requests with one key, 1 without, 2 automatic replies to one sender, quota 3, the messages with the key for 2 recipients and the others for 1, 2 faults of any kind | refines `KeyedSends`; quota, replies and files accounted for |

*Why the bounds suffice.* The race for a key is between two requests, and a third, without
a key, is what the quota is shared with. A quota of three holds a large and a small message, or the three small ones, so that they
compete for it, and the release of a small one meets a large one's row as the newest. Two replies to one
sender meet in every order. Two faults give a lost reply of `createEmail` and a failed
clean-up.

*Abstractions.* One window of the quota and of the automatic replies: nothing expires. An RPC
that throws took effect or never will (the DO does not go on after its caller saw the error). Sender checks,
suppression and size are one free refusal. The Sent row of a direct send is stored
after the mail went out, best effort, and nothing here depends on it.

*Proved* (`SendRouteProofs`), for any requests, keys, sizes, quota and faults: `TypeCorrect`, `NothingStays`,
`RepliedOnce`, `QuotaKept`, and `Implements`, the refinement of `KeyedSends`. `KeyInv` carries the refinement: two rows of
one key are never stored at once because the insert sees no holder, and a loser's `winner`
was stored under its key even if it is deleted by the time it is answered. `OwnInv` gives each claimed sender
one owner, which is why a release that names no owner is safe there.

`QuotaKept` compares two sums, for messages of any sizes: the recipients of what was mailed, or will be, and those in `send_log`.
`SlotInv` says that the recipients of the parties that hold or used a slot are at most those in the log plus
`overdrawn`, and that those in the log fit the quota. A release shifts both sides: it takes its own recipients off the
left and the newest row's off the right, and `overdrawn` grows by what the second exceeds the first. The module proves
the sums itself (`SumUnfolds`, `SumRemove`, `SumGrows`): the fold's recursion has one
solution by a smallest counterexample (`Smallest`), which takes the place of induction over finite sets.

*Model-checked only.* Nothing: `route_faults` has no liveness property.

*Where the code does less.* `releaseSendSlot` deletes the newest row of `send_log` (`durableObject/index.ts:3344-3348`), whoever reserved
it, although "recipients, not messages, count against the hourly and daily windows" (3303-3304). A small message that is replayed or refused
while a large one's row is the newest gives back the large one's recipients, and the next message goes beyond the
quota. No failure is needed: an automatic reply reserves, a message to two is reserved after it, the reply is
too large and gives back the newest row. `QuotaHolds` therefore does not say that the
quota holds. It says that nothing else breaks it: what went out is at most the quota plus `overdrawn`, which
grows in `GiveBack` alone, by the recipients of the deleted row less those of the message given up. A release after the row was stored counts in full (see
below). The states in which the code overruns its quota are in the run, and `QuotaHolds` without `overdrawn` fails there.

*Where comments promise more.* When `createEmail` throws, the routes give the slot back (609-613) but not the
attachments, and they give it back too when the row was stored and only the reply was lost, so that its mail is in no count any more (`overdrawn`). A request whose
row was stored and that failed before the hand-over told its client of an error; the client's retry is told
"sent", and the message is not with the queue until the sweeper finds the row. A failed automatic
or agent's send keeps its slot, although the comment at `durableObject/index.ts:3341` says unsent mail must not use up the
quota.

### `DomainOffboarding` and `DomainReturns`: a domain leaves

*Code.* The decommission and finalize routes (`routes/export-and-offboarding.ts`), `lib/domain-offboarding.ts`, the
zone and offboarding steps of the hourly maintenance (`lib/maintenance.ts`); of a lifecycle event's delivery
(`applyLifecycleEvent`, `setAutoRenewBestEffort`, `endDomainService`) its reads and writes of the metadata and what it
asks of the registrar; in `DomainReturns`, `POST /api/v1/admin/domains`.

The owner decommissions the domain in three stores, one after the other (metadata, D1 status, row of
`domain_offboarding`), and may ask to finalize it at once. The hourly run warns, waits, and finalizes: a look at the row, the
lease, a second look, what the metadata says kept in the row, subscription, mailboxes one by one, aliases, customer lookup, metadata, domain row, then registrar and
zone, each step recorded so that an interrupted run is resumed. The lease is fourteen minutes
and neither renewed nor checked, so a run that was overrun goes on beside its successor.

Each await of a runner is an action, and what it returned is in `snap` and `seen` until the code uses it: the row
(`Look`, `Relook`, `Reload`, `Resume`), the status in D1 (`Check`, `Recheck`), the metadata (`ReadMetadata`), then the write made from the
older row and the metadata (`Begin`). A delivery of Stripe reads the metadata
(`HookReads`), may switch the renewal on or off (`HookRenews`), writes the metadata as it read it (`HookWrites`), and may read it again
to end the domain's service (`HookEnds`).

| Variable | Code |
| --- | --- |
| `d1`, `meta`, `customer`, `aliases`, `mailboxes` | the domain's row in D1, its metadata and billing lookup in R2, its aliases and mailboxes |
| `paying`, `renews`, `registered`, `zone` | Stripe, the registrar, Cloudflare |
| `row` | the row of `domain_offboarding`: which columns are set (the lease is one), what it kept of the metadata (`kept`: subscription, zone and registrar flag), the zone's date |
| `left` | days until `finalizeAfter` |
| `pc`, `snap`, `seen`, `todo`, `outcome` | each request and the hourly run: next call, row and metadata as read, mailboxes to do, what Cloudflare answered; `due` in a row as read says that its dates and request let it be finalized |
| `held`, `asks` | the metadata as each Stripe delivery read it, and what it has still to do beside writing it back |
| `bought`, `age`, `notice`, `late`, `rearmed`, `told` | ghosts: bought here; days since the row and since the warning; metadata written back after its deletion; renewal switched on after it; what the operators were asked to do by hand |
| `faults` | faults so far |

| Run | Instance | Question |
| --- | --- | --- |
| `offboarding_faults` | 2 mailboxes, the owner, the hourly run, 1 Stripe delivery, 2 days' grace with 1 day's warning, 1 fault of any kind | announced before touched, billing before mailboxes, finalized means gone or handed to the operators, and it ends |
| `offboarding_again` | the same domain connected again after it left, 1 mailbox, no fault | violated: the second decommission is never finalized |

*Why the bounds suffice.* The races are between a runner that lost its lease and its successor, and
either with the owner or a delivery; one fault makes a successor, and the owner's request and
the hourly run are the two runners. Two mailboxes give a purge that is interrupted half-way. A warning
shorter than the grace period, a warning that comes on time and one that comes late all fit in two days.
`View` (in `MCDomainOffboarding`) hides from TLC only what nothing reads before it is written again: the days once a finalize has started
(but for whether it was announced), and the row in the hands of a runner at a step that does not look at it. States that differ
in no more than that have the same steps, properties and futures.

*Fairness.* The hourly run comes and takes its steps, a request that came goes on, a lease lapses, days pass, a
registration that is not renewed ends. No request and no delivery has to come.

*Abstractions.* One domain; its subscription is its own (the code keeps one that another domain uses). `active`
stands for `suspended` too. Days count down instead of dates being compared, and no longer once a finalize has started. A batch
is one domain, so nothing waits for the next hour's batch. Two merges are left: the maintenance lists pending domains, reads the
metadata and asks Cloudflare in one step (`SeeZoneActive`; the write that uses the reads is apart), and
deferring the zone asks the registrar and compares dates in one step. An alert to the operators counts as `told`, although
the code goes on when sending it fails. A mailbox being
created meanwhile, the purge of released domains (`domain-purge.ts`), the release of unclaimed ones, and what else switches
the renewal (the hourly run ends a service that ran out, a renewal's payment is fulfilled) are left out.

*Proved* (`DomainOffboardingProofs`), for any mailboxes, requests, deliveries, periods and faults:
`TypeCorrect`, `Noticed`, `BilledFirst`, `Gone`. The argument is that nothing
depends on the lease. `RowInv` says what a stamp means for the world (`unbilled` that nobody pays, `deleted`
that the data is gone, `released` and `unzoned` that renewal and zone are gone or somebody was told), and it stays true because the world only
shrinks (`Shrinks`): no step of anybody undoes a stamp, brings back a mailbox or the subscription, or makes
known metadata that was forgotten. The columns that `Begin` keeps are not of that kind: a runner with an older row
may empty what its successor recorded. The invariant
is therefore that the row keeps the truth *or* the metadata is gone (`row.kept = Truth \/ Forgotten`), and
`WorldInv` that with the metadata everything that had to be found by it is gone too (subscription, mailboxes, aliases,
lookup). `SnapInv` says that a row as read holds stamps that the row still has, `WorkInv` and `EndInv` what a runner
may rely on at each step, none of it about the lease. Registration and zone come after
the metadata, which is why `Gone` has its two exceptions and the other
theorems have none. Assumed: `OneCron`, `Periods`, `FaultBound`.

*Model-checked only.* `Offboards`.

*Finding.* `offboarding_again`: `recordDecommission` leaves an existing row alone (`domain-offboarding.ts:129-138`),
also one whose `finalizedAt` is set, and `finalizeBlocker` then answers `already_finalized` (152) for good.

*Where comments promise more.* A runner that read the row while its columns were null, and was overrun before it read the metadata
(`domain-offboarding.ts:315`, `325`), writes null over what its successor recorded once that one has deleted the metadata
(`326-336`), although "Keep what later steps need before the metadata that holds it is deleted" (329) and a finalize is said to be "Safe to call
repeatedly and concurrently" (295). It then finds neither a zone nor a registrar flag, alerts the operators, stamps both steps as done
and finalizes a domain whose registration renews itself and whose zone is there:
`FinishedMeansGone` says that they were told, not that it is gone.
A delivery that read the metadata before the finalize may switch the renewal on after it went off
(`billing-fulfillment.ts:912`): the registration is then kept alive for a domain that is gone, and as long as it renews, its zone waits
for a date that moves on, so that the domain may never be finalized (`rearmed`, an exception of `FinishedMeansGone` and
of `Offboards`). Stripe's delivery, or a decommission, that read the metadata before it was deleted writes
it back (`late`), although the lookups go first "so a late Stripe webhook finds nothing to write back"
(`domain-offboarding.ts:362-363`). The maintenance's activation (`maintenance.ts:98`) updates the row without looking at its status:
a zone seen active before a decommission turns the domain active after it, which is `Offboards`'s exception.

### `ExportJob`: an export in slices

*Code.* `startExport`, `kickIfStale` and `expiredExportResponse` (`routes/export-and-offboarding.ts`), `ExportJobDO`
(`durableObject/export-job.ts`), `createExportJob`, `runExportSlice`, `failExportJob` and the archive writer
(`lib/email-exporter.ts`), `getExportPage` of the mailbox DO, the exports step of the maintenance.

The route saves a job record and starts a Durable Object of the job's own. Each alarm is a slice: the attempt is
counted, the part begun by the last slice is read back from its scratch object, pages of mail are appended, full
parts are uploaded, and when its time is up the rest goes into a scratch object under a key of the next slice and the
state is persisted with the next alarm. A slice that throws or dies is tried again from the persisted state; after the
last attempt the job fails. The client polls and re-arms an alarm that was lost; the hourly run deletes
expired jobs with their archives or scratch objects.

| Variable | Code |
| --- | --- |
| `rows` | the mailboxes' rows, as places of one line |
| `job`, `expired` | the job record's status, and whether its `expiresAt` has passed |
| `archive`, `upload`, `scratch` | in R2: the archive, the multipart upload, the carries |
| `live`, `store`, `alarm` | the DO's state and alarm |
| `work`, `page`, `buffer`, `obsolete` | the invocation's variables |
| `pc`, `held` | route, runner and maintenance: next call; the status as the maintenance read it |
| `timeouts`, `faults` | slices cut off and faults so far |
| `kept`, `slips` | ghosts: mail that was there all the time; what a failure has made impossible |

| Run | Instance | Question |
| --- | --- | --- |
| `export_faults` | 2 mailboxes of 1 and 2 places, the first of each of which may be empty, and the last of which empties and fills again; pages and parts of 2; 2 attempts, 2 slices cut off, 1 fault besides | implements `ExportPromise`: one outcome, a completed archive whole and there until it expires; nothing is left without a reason; the export ends |

*Why the bounds suffice.* A part that ends inside a mailbox, one that is carried over a mailbox's end and a last part
shorter than the others all occur with three places and parts of two; an export of one mail, or of none, is put without an upload, and a mailbox may be empty. Two slices cut off give a carry that replaces
a carry, with a crash before or after it is persisted; each attempt may fail besides, and a part is then uploaded again
under its number. Slices that throw or die need no fault: the attempts bound them. The fault is for what no
attempt counts: a start whose reply is lost, a sweep, a failure record or a maintenance run that fails, a job that
takes seven days.

*Fairness.* The alarm fires and a slice goes on or throws, the route goes on, and the client polls: a job whose alarm the
runtime gave up is re-armed by nobody else.

*Abstractions.* A mail is a place and one unit of a part, in which the code counts bytes; an etag is the part's contents.
The cursor of mailbox and row is one place, and the domain's mailboxes do not change during the export. Progress
counts are left out, and so is the time between retries. Three steps are coarser than the code: the put of the DO's state and the
alarm that is set with it are one, `SaveFailed` includes the wipe of the DO's state, and a slice
does not run out of time once the cursor is at the last place (it does in front of a gap, with everything written).

*Abstract specification.* `ExportPromise` knows what the one who asked sees: whether the export was asked for, what the record says, whether
the archive is there and whole (`Copy`), and whether it expired. `Progress`, `Make`, `Complete` and `Fail` need an
open job; `Complete` needs a whole archive; `Discard` and `Drop` need an expired one. Those conditions end once the job
came `loose`: the route gave it up without having heard that it had started (`unheard`), or it outlived its own expiry
(`early`); then the outcome may still change, but never to "completed" on an archive that is not whole. `KeepsExport`
is the refinement. The route, the runner and the maintenance each write a record that they read some calls before, so that one
outcome per job is not the work of any single guard.

*Proved* (`ExportJobProofs`), for any mailboxes, sizes, bounds and faults: `TypeCorrect`, with the keys of the scratch objects
bounded by the slices that were cut off (`SliceInv`); `CompletedExportsAreWhole`, `OverLeavesNothing`, the refinement
`Implements == Spec => KeepsExport`, and `PromiseSuffices`, which derives `CompletedIsWhole` from `KeepsExport` alone. For the
refinement `OpenInv` adds what holds while no job came loose: the runner at work, and whoever is about to write
"failed", has an open job; a job that failed has no state that could go on; and what the maintenance is about to delete has expired and is
as it was read. The inductive
invariant `ExportInv` adds two halves. `CopyInv` and `PageInv` are about the copy: uploaded parts and begun part hold, in
order, the mail up to the cursor and nothing beyond it (`Sound`); the page in hand continues right after the cursor;
and the persisted state says the same of its parts and of the scratch object it names (`Resumes`), so that a slice
that fails anywhere resumes from something sound. `ControlInv` is about who may be where: a route that has not started
the job finds it untouched, a runner has a state and works on no completed job, a job that expired is over, and what the
maintenance deletes is named by the record it read. `CompletedIsWhole` needs both: an archive is stored only at the
end of the copy, and deleted only once its job expired. Each lemma on `Sound` is one step of the copy: append a mail,
begin a part, skip places without mail.

*Model-checked only.* `EventuallyEnds`.

*Where comments promise more.* A failure between the finished upload and the completed record (`cut`) makes every retry
throw, since the upload is no longer open: the job fails and its archive stays, which no record names. A scratch object
that the last sweep of a completed job missed (`spilled`) is swept by nobody: the comment at `email-exporter.ts:730`
counts on the maintenance, which skips completed jobs (`maintenance.ts:174`). When the failure itself cannot be recorded,
or the route ends before the start (`dropped`), the record says "processing" or "pending" without a runner until it
expires, and a kick finds no state. When the reply of a start is lost (`unheard`), the route fails a job that
is running: it may overwrite "completed" with "failed", and its sweep takes the runner's carry. A running job that is seven days
old is deleted under its runner (`early`).

## Theorems at a glance

| Theorem | States | Rests on |
| --- | --- | --- |
| `OutboundSendProofs!Inductive` | types, snapshot, producer, holder and copy invariants | `Parties`, `Bounds` |
| `OutboundSendProofs!Implements` | the whole send path implements `DeliveryPromise` | `Inductive` |
| `OutboundSendProofs!EveryCopyAccounted`, `NoPayloadLeft` | copies are counted also after slips; settled rows leave no payload | `Inductive` |
| `OutboundSendProofs!TypeCorrect`, `FailedRowsUnsent`, `SweeperIsAlone` | types; why *failed* can be believed; why the sweeper may settle a row | `Inductive` |
| `InboundDeliveryProofs!Implements` | receiving a message implements `MailPromise` | `Names`, `FaultBound` |
| `InboundDeliveryProofs!PromiseSuffices` | `MailPromise` implies one row per message and accepted mail kept | - |
| `InboundDeliveryProofs!RowsKeep`, `StoredOnce`, `AcceptedKept`, `TypeCorrect` | every row keeps its objects; the same of the deliveries themselves; types | `Names`, `FaultBound` |
| `InboundDeliveryProofs!NothingOrphaned` | a delivery without a row leaves no object behind | as above |
| `BlobDeletesProofs!Readable`, `NoLeak`, `NothingLands`, `TypeCorrect` | the safety properties of `blobs_faults` | `Names`, `FaultBound` |
| `DomainPurchaseProofs!Implements` | the purchase implements `PurchasePromise` | `Names`, `FaultBound` |
| `DomainPurchaseProofs!PromiseSuffices` | `PurchasePromise` implies one outcome for each payment, and none forgotten | `Names` |
| `DomainPurchaseProofs!OursIsNotStranded` | a domain bought has an owner or a session due it | `Names`, `FaultBound` |
| `DomainPurchaseProofs!OutcomesAreOne`, `PaymentsAreRemembered`, `TypeCorrect` | the same of the purchase itself, and types | `Names`, `FaultBound` |
| `DomainPurchaseProofs!BuyersAreOne`, `OwnerIsForGood` | one buyer at a time, one owner for good, which the above rest on | `Names`, `FaultBound` |
| `DeliveryEventsProofs!Worst`, `Suppressed`, `Visible`, `TypeCorrect` | the safety properties of `events_faults` | `PartyNames`, `TypeNames`, `Limits` |
| `DeliveryEventsProofs!NotLost` | a published failure is handled, held or let go for a named reason | as above |
| `SendRouteProofs!Implements` | the routes implement `KeyedSends` | `PartyNames`, `Keys`, `Answered`, `Sizes`, `FaultBound` |
| `SendRouteProofs!NothingStays`, `RepliedOnce`, `TypeCorrect` | files, automatic replies, types | as above |
| `SendRouteProofs!QuotaKept` | what is mailed exceeds the quota only by what releases took off the log in excess | as above |
| `DomainOffboardingProofs!Noticed`, `BilledFirst`, `Gone`, `TypeCorrect` | the safety properties of `offboarding_faults` | `OneCron`, `Periods`, `FaultBound` |
| `ExportJobProofs!Implements` | route, runner and maintenance implement `ExportPromise` | `Positions`, `Sizes`, `Bounds` |
| `ExportJobProofs!PromiseSuffices` | `ExportPromise` implies that a completed record names a whole archive | - |
| `ExportJobProofs!CompletedExportsAreWhole`, `OverLeavesNothing`, `TypeCorrect` | the same of the export itself; nothing left behind; types | `Positions`, `Sizes`, `Bounds` |

The eight specifications are proved for any number of faults (`MaxFaults` is any natural
number), so what TLC sees with one fault or two holds with any number of them. Every invariant and refinement
that a passing run checks is the statement of one of these theorems. Left to TLC is liveness, which needs
`ENABLED`: `EventuallySettled`, `EventuallyKept`, `EventuallySwept`, `PaidIsSettled`,
`FailuresReachSomebody`, `Offboards`, `EventuallyEnds`. Where a statement counts (`CopiesAccounted`) the proofs use the library's facts about
`Cardinality`; where it sums (`QuotaHolds`) they prove the laws of finite sums by a smallest counterexample. Neither needs induction
over the set.

## Plan

What comes next, the most important first.

1. `MailboxLifecycle`: provisioning, purge and settings across D1, R2 metadata and the DO flag,
   around `BlobDeletes`, which is the DO's part of it.
2. `AliasRouting`: record in R2 and row in the DO, two editors and a deletion.
3. `MailboxAlarm`: the one alarm shared by blob deletes, retention, reminders and the
   sweep; every kind of due work has an alarm ahead of it. Composes the alarm parts of
   `BlobDeletes` and `OutboundSend`.
4. Verdict undo and conversation tombstones: small sequential state machines with one race each.
5. `DomainRenewal` (`applyLifecycleEvent`, `fulfillRenewal`): lifecycle events out of order, the
   metadata record read and written without a lock, around `DomainPurchase`.

## Not modelled

Delivery itself (SMTP, the Email binding's queues), TLS, DNS, D1's and R2's internals, the
contents of messages (parsing, threading, sanitising, search), AI output, HTTP
validation, authentication, and the clients, which are most of the repository's lines. `PROJECT.json` gives a reason for each
part. `outbound-send` messages are modelled as small records, payloads and bodies as
their presence, addresses as model values.
