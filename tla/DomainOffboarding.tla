-------------------------- MODULE DomainOffboarding --------------------------
(***************************************************************************)
(* A domain leaves: the owner decommissions it, the hourly run warns and,  *)
(* when the grace period is over, finalizes it: it cancels the             *)
(* subscription, deletes mailboxes, aliases and registry entries, then the *)
(* registration's auto-renewal and the zone at Cloudflare.  The row of     *)
(* domain_offboarding in D1 keeps the progress and a lease keeps two       *)
(* runners apart; a runner that fails or dies is resumed from the row.     *)
(*                                                                         *)
(* One domain.  Time is a countdown of days to finalizeAfter; the lease    *)
(* may lapse whenever it is held.  A call that throws has taken effect or  *)
(* never will.  A definition that stands unused before the one it is named *)
(* after is a mutant of it.                                                *)
(***************************************************************************)
EXTENDS Integers, FiniteSets

CONSTANTS
  Mailboxes, \* of the domain
  Requests,  \* calls of the owner
  Cron,      \* the hourly run; one at a time
  Hooks,     \* deliveries of Stripe's lifecycle events
  Grace,     \* OFFBOARDING_GRACE_MS, in days
  Warning,   \* OFFBOARDING_WARNING_MS, in days
  MaxFaults  \* steps that fail, runs that die and leases that are overrun

Runners == Requests \cup {Cron}

ASSUME OneCron == Cron \notin Requests
ASSUME Periods == Grace \in Nat /\ Warning \in Nat \ {0}
ASSUME FaultBound == MaxFaults \in Nat

VARIABLES
  bought,    \* whether the domain was bought here: it is billed and registered through us
  d1,        \* status of the row in `domain`; "active" stands for "suspended" too
  meta,      \* status in the domain metadata in R2
  customer,  \* the billing lookup in R2: Stripe's customer to this domain
  aliases,   \* the lookup records of the aliases in R2
  mailboxes, \* mailboxes with data
  paying,    \* the subscription is live at Stripe
  renews,    \* the registration renews itself
  registered,\* the registrar holds the domain for us
  zone,      \* the zone at Cloudflare exists
  row,       \* the row of domain_offboarding
  left,      \* days until finalizeAfter
  pc,        \* where each runner is
  snap,      \* the row as the runner read it
  seen,      \* the metadata as the runner read it
  todo,      \* mailboxes the runner still has to purge
  outcome,   \* of the runner's Cloudflare steps
  held,      \* the metadata as each delivery read it
  asks,      \* what each delivery has still to do beside writing the metadata
  age,       \* ghost: days since the row was written
  notice,    \* ghost: days since the warning
  late,      \* ghost: somebody put the metadata back after it was deleted
  rearmed,   \* ghost: a delivery switched the renewal on after that
  told,      \* ghost: what the operators were asked to see to by hand
  faults     \* failures so far

hosting == <<d1, meta, customer, aliases, mailboxes>>
services == <<paying, renews, registered, zone>>
time == <<left, age, notice>>
local == <<pc, snap, seen, todo, outcome>>
deliveries == <<held, asks>>
history == <<late, rearmed, told>>
around == <<held, asks, late, rearmed, told>>
vars == <<bought, hosting, services, row, time, local, around, faults>>

-----------------------------------------------------------------------------
Statuses == {"none", "pending", "active", "offboarding"}

\* Columns of the row that are set or null; `tracked` says that there is a row, and `due`, in
\* the row as a runner read it, that it may be finalized as far as the row goes.
Stamps == {"tracked", "warned", "requested", "started", "unbilled", "deleted",
           "released", "unzoned", "finalized", "lease", "due"}
Rows == [stamps : SUBSET Stamps,
         kept   : {"unknown", "ours", "brought"},  \* zone, subscription, registrar: as recorded
         waits  : {"no", "later", "due"}]          \* zoneDeleteAfter

FreshRow == [stamps |-> {}, kept |-> "unknown", waits |-> "no"]
Has(r, stamp) == stamp \in r.stamps
Stamp(stamps) == row' = [row EXCEPT !.stamps = @ \cup stamps]

\* Where a runner is once it holds the lease.
CloudflarePcs == {"registrar", "record released", "zone", "defer", "unzone", "record unzoned"}
HoldPcs == {"relook", "recheck", "give up", "metadata", "begin", "reload", "billing", "record",
            "list", "purge", "aliases", "unlist", "forget", "drop", "stamp", "resume", "finish"}
           \cup CloudflarePcs
Pcs == HoldPcs \cup {"idle", "stopping", "marking", "tracking", "asking", "activating",
                     "confirming", "look", "check", "claim"}

At(r, here) == pc[r] = here
Move(r, there) == pc' = [pc EXCEPT ![r] = there]
\* A call ends, and its variables with it.
Ends(r) == /\ Move(r, "idle")
           /\ snap' = [snap EXCEPT ![r] = FreshRow]
           /\ seen' = [seen EXCEPT ![r] = "none"]
           /\ todo' = [todo EXCEPT ![r] = {}]
           /\ outcome' = [outcome EXCEPT ![r] = "done"]
Holding == {r \in Runners : pc[r] \in HoldPcs}
Fault == faults < MaxFaults /\ faults' = faults + 1
Forgotten == meta = "none" \/ late
SetMeta(s) == /\ meta' = s
              /\ late' = Forgotten
              /\ UNCHANGED <<rearmed, told>>
AtLeast(a, b) == IF a < b THEN b ELSE a

Init ==
  /\ bought \in BOOLEAN
  /\ meta \in IF bought THEN {"active"} ELSE {"pending", "active"}
  /\ d1 = meta
  /\ customer = bought /\ paying = bought /\ renews = bought /\ registered = bought
  /\ aliases = TRUE /\ zone = TRUE
  /\ mailboxes = Mailboxes
  /\ row = FreshRow
  /\ left = Grace /\ age = 0 /\ notice = 0
  /\ pc = [r \in Runners |-> "idle"]
  /\ snap = [r \in Runners |-> FreshRow]
  /\ seen = [r \in Runners |-> "none"]
  /\ todo = [r \in Runners |-> {}]
  /\ outcome = [r \in Runners |-> "done"]
  /\ held = [h \in Hooks |-> "none"]
  /\ asks = [h \in Hooks |-> "nothing"]
  /\ late = FALSE /\ rearmed = FALSE /\ told = {}
  /\ faults = 0

-----------------------------------------------------------------------------
(* POST .../decommission: each store in a call of its own.                 *)

Decommission(q) ==
  /\ At(q, "idle")
  /\ d1 \in {"pending", "active"}
  /\ meta # "none"
  /\ Move(q, "stopping")
  /\ UNCHANGED <<bought, hosting, services, row, time, snap, seen, todo, outcome, around, faults>>

\* The metadata the request was authorized with is written back as "offboarding".
StopMail(q) ==
  /\ At(q, "stopping")
  /\ SetMeta("offboarding")
  /\ Move(q, "marking")
  /\ UNCHANGED <<bought, d1, customer, aliases, mailboxes, services, row, time, snap, seen,
                 todo, outcome, deliveries, faults>>

MarkDecommissioned(q) ==
  /\ At(q, "marking")
  /\ d1' = IF d1 = "none" THEN "none" ELSE "decommissioned"
  /\ Move(q, "tracking")
  /\ UNCHANGED <<bought, meta, customer, aliases, mailboxes, services, row, time, snap, seen,
                 todo, outcome, around, faults>>

RecordDecommissionProlongs(stamps) ==
  /\ Stamp({"tracked"} \cup stamps)
  /\ left' = left + Grace
  /\ UNCHANGED <<age, notice>>

\* recordDecommission: an existing row stays as it is.
RecordDecommission(stamps) ==
  /\ Stamp({"tracked"} \cup stamps)
  /\ IF Has(row, "tracked") THEN UNCHANGED time
                            ELSE left' = Grace /\ age' = 0 /\ notice' = 0

TrackDecommission(q) ==
  /\ At(q, "tracking")
  /\ RecordDecommission({})
  /\ Ends(q)
  /\ UNCHANGED <<bought, hosting, services, around, faults>>

(* POST .../finalize: the owner asks for it now.                           *)
AskToFinalize(q) ==
  /\ At(q, "idle")
  /\ d1 = "decommissioned" /\ meta # "none"
  /\ Move(q, "asking")
  /\ UNCHANGED <<bought, hosting, services, row, time, snap, seen, todo, outcome, around, faults>>

RecordRequest(q) ==
  /\ At(q, "asking")
  /\ RecordDecommission({"requested"})
  /\ Move(q, "look")
  /\ UNCHANGED <<bought, hosting, services, snap, seen, todo, outcome, around, faults>>

-----------------------------------------------------------------------------
(* The hourly run.                                                         *)

\* The nameservers of a pending domain have moved; read, then written.
SeeZoneActive ==
  /\ At(Cron, "idle")
  /\ d1 = "pending" /\ meta # "none" /\ zone
  /\ seen' = [seen EXCEPT ![Cron] = meta]
  /\ Move(Cron, "activating")
  /\ UNCHANGED <<bought, hosting, services, row, time, snap, todo, outcome, around, faults>>

Activate ==
  /\ At(Cron, "activating")
  /\ d1' = IF d1 = "none" THEN "none" ELSE "active"
  /\ Move(Cron, "confirming")
  /\ UNCHANGED <<bought, meta, customer, aliases, mailboxes, services, row, time, snap, seen,
                 todo, outcome, around, faults>>

ConfirmActive ==
  /\ At(Cron, "confirming")
  /\ IF seen[Cron] # "active" THEN SetMeta("active") ELSE UNCHANGED <<meta, history>>
  /\ Ends(Cron)
  /\ UNCHANGED <<bought, d1, customer, aliases, mailboxes, services, row, time, deliveries, faults>>

TrackUntracked ==
  /\ At(Cron, "idle")
  /\ d1 = "decommissioned" /\ ~Has(row, "tracked")
  /\ RecordDecommission({})
  /\ UNCHANGED <<bought, hosting, services, local, around, faults>>

WarningDue == /\ Has(row, "tracked") /\ row.stamps \cap {"finalized", "warned", "started"} = {}
              /\ left <= Warning /\ d1 = "decommissioned"

\* The warning moves finalizeAfter away when it is late.  When no message goes out, nothing changes.
WarnEarly ==
  /\ At(Cron, "idle")
  /\ WarningDue
  /\ Stamp({"warned"})
  /\ notice' = 0
  /\ UNCHANGED <<bought, hosting, services, left, age, local, around, faults>>

Warn ==
  /\ At(Cron, "idle")
  /\ WarningDue
  /\ Stamp({"warned"})
  /\ left' = AtLeast(left, Warning) /\ notice' = 0
  /\ UNCHANGED <<bought, hosting, services, age, local, around, faults>>

Due == \/ Has(row, "started") \/ Has(row, "requested")
       \/ Has(row, "warned") /\ left = 0
CleanupDue == ~Has(row, "released") \/ row.waits # "later"

Pick ==
  /\ At(Cron, "idle")
  /\ Has(row, "tracked") /\ ~Has(row, "finalized")
  /\ IF Has(row, "deleted") THEN CleanupDue ELSE Due
  /\ Move(Cron, "look")
  /\ UNCHANGED <<bought, hosting, services, row, time, snap, seen, todo, outcome, around, faults>>

-----------------------------------------------------------------------------
(* finalizeDomainOffboarding, by the hourly run or for the owner's call.   *)

\* getOffboarding: a runner works on with the row as it was when it read it.
AsRead == [row EXCEPT !.stamps = (@ \ {"warned", "requested", "lease"})
                                 \cup IF Due THEN {"due"} ELSE {}]
ReadRow(r, here, there) ==
  /\ At(r, here)
  /\ snap' = [snap EXCEPT ![r] = AsRead]
  /\ Move(r, there)
  /\ UNCHANGED <<bought, hosting, services, row, time, seen, todo, outcome, around, faults>>

Look(r) == ReadRow(r, "look", "check")
Relook(r) == ReadRow(r, "relook", "recheck")
Reload(r) == ReadRow(r, "reload", "billing")
Resume(r) == ReadRow(r, "resume", "registrar")

\* finalizeBlocker = null, for the row as read and the status of now.  A started finalize goes
\* on, even without the domain's row; a request needs no notice; the schedule needs the warning
\* and the days.
MayFinalizeWithRow(was) ==
  /\ Has(was, "tracked") /\ ~Has(was, "finalized")
  /\ d1 = "decommissioned" /\ Has(was, "due")

MayFinalize(was) ==
  /\ Has(was, "tracked") /\ ~Has(was, "finalized")
  /\ \/ d1 = "none" /\ Has(was, "started")
     \/ d1 = "decommissioned" /\ Has(was, "due")

Check(r) ==
  /\ At(r, "check")
  /\ Move(r, IF MayFinalize(snap[r]) THEN "claim" ELSE "idle")
  /\ UNCHANGED <<bought, hosting, services, row, time, snap, seen, todo, outcome, around, faults>>

\* claimLease: one UPDATE; another runner's lease or a finished row turns it away.
Claim(r) ==
  /\ At(r, "claim")
  /\ IF row.stamps \cap {"lease", "finalized"} = {}
       THEN Stamp({"lease"}) /\ Move(r, "relook")
       ELSE Move(r, "idle") /\ UNCHANGED row
  /\ UNCHANGED <<bought, hosting, services, time, snap, seen, todo, outcome, around, faults>>

DropLease == row' = [row EXCEPT !.stamps = @ \ {"lease"}]

\* The state may have moved since the first look.  What is left may be Cloudflare's part only.
Recheck(r) ==
  /\ At(r, "recheck")
  /\ Move(r, CASE ~MayFinalize(snap[r]) -> "give up"
               [] MayFinalize(snap[r]) /\ Has(snap[r], "deleted") -> "resume"
               [] MayFinalize(snap[r]) /\ ~Has(snap[r], "deleted") -> "metadata")
  /\ UNCHANGED <<bought, hosting, services, row, time, snap, seen, todo, outcome, around, faults>>

GiveUp(r) ==
  /\ At(r, "give up")
  /\ DropLease
  /\ Ends(r)
  /\ UNCHANGED <<bought, hosting, services, time, around, faults>>

ReadMetadata(r) ==
  /\ At(r, "metadata")
  /\ seen' = [seen EXCEPT ![r] = meta]
  /\ Move(r, "begin")
  /\ UNCHANGED <<bought, hosting, services, row, time, snap, todo, outcome, around, faults>>

\* What the later steps need is copied before the metadata that has it is deleted; without
\* either it stays unknown: nobody guesses.
KeptGuessed(was, s) ==
  IF was # "unknown" THEN was ELSE IF s # "none" /\ bought THEN "ours" ELSE "brought"
Kept(was, s) ==
  IF was # "unknown" THEN was
  ELSE IF s = "none" THEN "unknown" ELSE IF bought THEN "ours" ELSE "brought"

\* Written over the row as it is by now.
Begin(r) ==
  /\ At(r, "begin")
  /\ row' = [row EXCEPT !.stamps = @ \cup {"started"}, !.kept = Kept(snap[r].kept, seen[r])]
  /\ seen' = [seen EXCEPT ![r] = "none"]
  /\ Move(r, "reload")
  /\ UNCHANGED <<bought, hosting, services, time, snap, todo, outcome, around, faults>>

\* 1. cancelBilling: the subscription goes first, then the row says so.
NeedsCancel(r) == ~Has(snap[r], "unbilled") /\ snap[r].kept = "ours"

CancelBestEffort(r) ==
  /\ At(r, "billing")
  /\ paying' \in {paying, paying /\ ~NeedsCancel(r)}
  /\ Move(r, "list")
  /\ UNCHANGED <<bought, hosting, renews, registered, zone, row, time, snap, seen, todo, outcome,
                 around, faults>>

CancelBilling(r) ==
  /\ At(r, "billing")
  /\ IF NeedsCancel(r) THEN paying' = FALSE /\ Move(r, "record")
                       ELSE UNCHANGED paying /\ Move(r, "list")
  /\ UNCHANGED <<bought, hosting, renews, registered, zone, row, time, snap, seen, todo, outcome,
                 around, faults>>

RecordCancelled(r) ==
  /\ At(r, "record")
  /\ Stamp({"unbilled"})
  /\ Move(r, "list")
  /\ UNCHANGED <<bought, hosting, services, time, snap, seen, todo, outcome, around, faults>>

\* 2. Every mailbox on the domain, one after the other.
ListMailboxes(r) ==
  /\ At(r, "list")
  /\ todo' = [todo EXCEPT ![r] = mailboxes]
  /\ Move(r, "purge")
  /\ UNCHANGED <<bought, hosting, services, row, time, snap, seen, outcome, around, faults>>

PurgeMailbox(r) ==
  /\ At(r, "purge")
  /\ \E m \in todo[r] : /\ mailboxes' = mailboxes \ {m}
                        /\ todo' = [todo EXCEPT ![r] = @ \ {m}]
  /\ UNCHANGED <<bought, d1, meta, customer, aliases, services, row, time, pc, snap, seen, outcome,
                 around, faults>>

MailboxesPurged(r) ==
  /\ At(r, "purge")
  /\ todo[r] = {}
  /\ Move(r, "aliases")
  /\ UNCHANGED <<bought, hosting, services, row, time, snap, seen, todo, outcome, around, faults>>

\* 3-4. The metadata lists the aliases; the domain's admins go with them.
DeleteAliases(r) ==
  /\ At(r, "aliases")
  /\ aliases' = (aliases /\ meta = "none")
  /\ Move(r, "unlist")
  /\ UNCHANGED <<bought, d1, meta, customer, mailboxes, services, row, time, snap, seen, todo,
                 outcome, around, faults>>

\* 5. The registry: the billing lookup, the metadata, the row, then the stamp.
DeleteCustomer(r) ==
  /\ At(r, "unlist")
  /\ customer' = (customer /\ snap[r].kept # "ours")
  /\ Move(r, "forget")
  /\ UNCHANGED <<bought, d1, meta, aliases, mailboxes, services, row, time, snap, seen, todo,
                 outcome, around, faults>>

DeleteMetadata(r) ==
  /\ At(r, "forget")
  /\ meta' = "none"
  /\ Move(r, "drop")
  /\ UNCHANGED <<bought, d1, customer, aliases, mailboxes, services, row, time, snap, seen, todo,
                 outcome, around, faults>>

DeleteDomainRow(r) ==
  /\ At(r, "drop")
  /\ d1' = "none"
  /\ Move(r, "stamp")
  /\ UNCHANGED <<bought, meta, customer, aliases, mailboxes, services, row, time, snap, seen, todo,
                 outcome, around, faults>>

StampDeleted(r) ==
  /\ At(r, "stamp")
  /\ Stamp({"deleted"})
  /\ Move(r, "resume")
  /\ UNCHANGED <<bought, hosting, services, time, snap, seen, todo, outcome, around, faults>>

\* 6. Auto-renewal goes off where the registration is ours; without a record the operators are
\* told.  Then the row says so.
ReleaseRegistrar(r) ==
  /\ At(r, "registrar")
  /\ IF Has(snap[r], "released")
       THEN UNCHANGED <<renews, told>> /\ Move(r, "zone")
       ELSE /\ renews' = (renews /\ snap[r].kept # "ours")
            /\ told' = told \cup IF snap[r].kept = "unknown" THEN {"registration"} ELSE {}
            /\ Move(r, "record released")
  /\ UNCHANGED <<bought, hosting, paying, registered, zone, row, time, snap, seen, todo, outcome,
                 deliveries, late, rearmed, faults>>

RecordReleased(r) ==
  /\ At(r, "record released")
  /\ Stamp({"released"})
  /\ Move(r, "zone")
  /\ UNCHANGED <<bought, hosting, services, time, snap, seen, todo, outcome, around, faults>>

\* 7. The zone stays while the registrar holds the domain for us, and goes at once otherwise.
ZoneLeft(r) == ~Has(snap[r], "unzoned") /\ snap[r].waits # "later"
KeepsZone(r) == snap[r].kept = "ours" /\ registered

ChooseZone(r) ==
  /\ At(r, "zone")
  /\ IF ZoneLeft(r)
       THEN Move(r, IF KeepsZone(r) THEN "defer" ELSE "unzone") /\ UNCHANGED outcome
       ELSE /\ Move(r, "finish")
            /\ IF Has(snap[r], "unzoned") THEN UNCHANGED outcome
                                          ELSE outcome' = [outcome EXCEPT ![r] = "later"]
  /\ UNCHANGED <<bought, hosting, services, row, time, snap, seen, todo, around, faults>>

DeferZone(r) ==
  /\ At(r, "defer")
  /\ row' = [row EXCEPT !.waits = "later"]
  /\ outcome' = [outcome EXCEPT ![r] = "later"]
  /\ Move(r, "finish")
  /\ UNCHANGED <<bought, hosting, services, time, snap, seen, todo, around, faults>>

\* Without a recorded zone the operators are told.
DeleteZone(r) ==
  /\ At(r, "unzone")
  /\ zone' = (zone /\ snap[r].kept = "unknown")
  /\ told' = told \cup IF snap[r].kept = "unknown" THEN {"zone"} ELSE {}
  /\ Move(r, "record unzoned")
  /\ UNCHANGED <<bought, hosting, paying, renews, registered, row, time, snap, seen, todo, outcome,
                 deliveries, late, rearmed, faults>>

RecordUnzoned(r) ==
  /\ At(r, "record unzoned")
  /\ Stamp({"unzoned"})
  /\ Move(r, "finish")
  /\ UNCHANGED <<bought, hosting, services, time, snap, seen, todo, outcome, around, faults>>

\* A call of one of the two steps fails; the other step is still taken.
RegistrarFails(r) ==
  /\ \/ At(r, "registrar") /\ ~Has(snap[r], "released") /\ snap[r].kept = "ours"
     \/ At(r, "record released")
  /\ Move(r, "zone")

ZoneFails(r) ==
  /\ \/ At(r, "zone") /\ ZoneLeft(r) /\ snap[r].kept = "ours"
     \/ At(r, "unzone") /\ snap[r].kept # "unknown"
     \/ pc[r] \in {"defer", "record unzoned"}
  /\ Move(r, "finish")

CloudflareFails(r) ==
  /\ Fault
  /\ RegistrarFails(r) \/ ZoneFails(r)
  /\ outcome' = [outcome EXCEPT ![r] = "later"]
  /\ UNCHANGED <<bought, hosting, services, row, time, snap, seen, todo, around>>

Finish(r) ==
  /\ At(r, "finish")
  /\ row' = [row EXCEPT !.stamps = (@ \ {"lease"}) \cup
               (IF outcome[r] = "done" THEN {"finalized"} ELSE {})]
  /\ Ends(r)
  /\ UNCHANGED <<bought, hosting, services, time, around, faults>>

-----------------------------------------------------------------------------
(* Failures.                                                               *)

\* A step throws, and the catch gives up the lease, whoever has it now.
StepThrows(r) ==
  /\ pc[r] \in HoldPcs \ CloudflarePcs
  /\ Fault
  /\ DropLease
  /\ Ends(r)
  /\ UNCHANGED <<bought, hosting, services, time, around>>

\* The invocation ends: nothing more of it runs, and its lease stays until it lapses.
Dies(r) ==
  /\ ~At(r, "idle")
  /\ Fault
  /\ Ends(r)
  /\ UNCHANGED <<bought, hosting, services, row, time, around>>

\* Fourteen minutes have passed: the lease is neither renewed nor checked by who holds it.
LeaseLapses ==
  /\ Has(row, "lease")
  /\ IF Holding = {} THEN UNCHANGED faults ELSE Fault
  /\ DropLease
  /\ UNCHANGED <<bought, hosting, services, time, local, around>>

-----------------------------------------------------------------------------
(* The surroundings.                                                       *)

\* Counted until the finalize starts: nothing looks at the dates after that.
DayPasses ==
  /\ Has(row, "tracked") /\ ~Has(row, "started")
  /\ left > 0 \/ age < Grace \/ notice < Warning
  /\ left' = IF left > 0 THEN left - 1 ELSE 0
  /\ age' = IF age < Grace THEN age + 1 ELSE age
  /\ notice' = IF notice < Warning THEN notice + 1 ELSE notice
  /\ UNCHANGED <<bought, hosting, services, row, local, around, faults>>

\* The date of the deferred zone comes; the registration lapses or is transferred out.
ZoneDateComes ==
  /\ row.waits = "later"
  /\ row' = [row EXCEPT !.waits = "due"]
  /\ UNCHANGED <<bought, hosting, services, time, local, around, faults>>

RegistrationEnds ==
  /\ registered /\ ~renews
  /\ registered' = FALSE
  /\ UNCHANGED <<bought, hosting, paying, renews, zone, row, time, local, around, faults>>

\* applyLifecycleEvent: the metadata is found by the customer, read, changed and written back.
\* On the way the renewal goes on for a payment, a resumed or a restored service, off for a
\* failed payment or a service that runs out.
HookReads(h) ==
  /\ held[h] = "none" /\ asks[h] = "nothing"
  /\ customer /\ meta # "none"
  /\ held' = [held EXCEPT ![h] = meta]
  /\ \E change \in {"nothing", "on", "off", "end"} : asks' = [asks EXCEPT ![h] = change]
  /\ UNCHANGED <<bought, hosting, services, row, time, local, history, faults>>

\* setAutoRenewBestEffort: no call when the metadata says it is so, and a failure is swallowed; a
\* registration that ended cannot be renewed.
HookRenews(h) ==
  /\ held[h] # "none" /\ asks[h] \in {"on", "off"}
  /\ renews' \in {renews, asks[h] = "on" /\ registered}
  /\ rearmed' = (rearmed \/ (Forgotten /\ ~renews /\ renews'))
  /\ asks' = [asks EXCEPT ![h] = "nothing"]
  /\ UNCHANGED <<bought, hosting, paying, registered, zone, row, time, local, held, late, told,
                 faults>>

HookWrites(h) ==
  /\ held[h] # "none" /\ asks[h] \in {"nothing", "end"}
  /\ SetMeta(held[h])
  /\ held' = [held EXCEPT ![h] = "none"]
  /\ UNCHANGED <<bought, d1, customer, aliases, mailboxes, services, row, time, local, asks,
                 faults>>

\* endDomainService reads the metadata again, and leaves a domain alone that is moving out.
HookEnds(h) ==
  /\ held[h] = "none" /\ asks[h] = "end"
  /\ IF meta \in {"none", "offboarding"}
       THEN asks' = [asks EXCEPT ![h] = "nothing"] /\ UNCHANGED held
       ELSE asks' = [asks EXCEPT ![h] = "off"] /\ held' = [held EXCEPT ![h] = meta]
  /\ UNCHANGED <<bought, hosting, services, row, time, local, history, faults>>

-----------------------------------------------------------------------------
Work(r) ==
  \/ Look(r) \/ Check(r) \/ Claim(r) \/ Relook(r) \/ Recheck(r) \/ GiveUp(r) \/ ReadMetadata(r)
  \/ Begin(r) \/ Reload(r) \/ CancelBilling(r) \/ RecordCancelled(r)
  \/ ListMailboxes(r) \/ PurgeMailbox(r) \/ MailboxesPurged(r) \/ DeleteAliases(r)
  \/ DeleteCustomer(r) \/ DeleteMetadata(r) \/ DeleteDomainRow(r) \/ StampDeleted(r)
  \/ Resume(r) \/ ReleaseRegistrar(r) \/ RecordReleased(r)
  \/ ChooseZone(r) \/ DeferZone(r) \/ DeleteZone(r) \/ RecordUnzoned(r) \/ Finish(r)
Owner(q) == Decommission(q) \/ StopMail(q) \/ MarkDecommissioned(q) \/ TrackDecommission(q)
            \/ AskToFinalize(q) \/ RecordRequest(q)
Hourly == SeeZoneActive \/ Activate \/ ConfirmActive \/ TrackUntracked \/ Warn \/ Pick
Failures == LeaseLapses \/ \E r \in Runners : CloudflareFails(r) \/ StepThrows(r) \/ Dies(r)
Delivery(h) == HookReads(h) \/ HookRenews(h) \/ HookWrites(h) \/ HookEnds(h)
Surroundings == DayPasses \/ ZoneDateComes \/ RegistrationEnds \/ \E h \in Hooks : Delivery(h)

Next ==
  \/ \E r \in Runners : Work(r)
  \/ \E q \in Requests : Owner(q)
  \/ Hourly
  \/ Failures
  \/ Surroundings

\* The hourly run comes back and goes on, a runner's calls return, the lease lapses, days pass,
\* and a registration nobody renews ends.
Fairness ==
  /\ WF_vars(Activate \/ ConfirmActive) /\ WF_vars(TrackUntracked) /\ WF_vars(Warn) /\ WF_vars(Pick)
  /\ \A r \in Runners : WF_vars(Work(r))
  /\ WF_vars(LeaseLapses) /\ WF_vars(DayPasses) /\ WF_vars(ZoneDateComes)
  /\ WF_vars(RegistrationEnds)

Spec == Init /\ [][Next]_vars /\ Fairness

-----------------------------------------------------------------------------
\* Every variable has its type.
TypeOK ==
  /\ bought \in BOOLEAN
  /\ d1 \in {"none", "pending", "active", "decommissioned"}
  /\ meta \in Statuses
  /\ customer \in BOOLEAN /\ aliases \in BOOLEAN
  /\ late \in BOOLEAN /\ rearmed \in BOOLEAN /\ told \subseteq {"registration", "zone"}
  /\ paying \in BOOLEAN /\ renews \in BOOLEAN /\ registered \in BOOLEAN /\ zone \in BOOLEAN
  /\ mailboxes \subseteq Mailboxes
  /\ row \in Rows
  /\ left \in 0..AtLeast(Grace, Warning) /\ age \in 0..Grace /\ notice \in 0..Warning
  /\ pc \in [Runners -> Pcs]
  /\ snap \in [Runners -> Rows]
  /\ seen \in [Runners -> Statuses]
  /\ todo \in [Runners -> SUBSET Mailboxes]
  /\ outcome \in [Runners -> {"done", "later"}]
  /\ held \in [Hooks -> Statuses]
  /\ asks \in [Hooks -> {"nothing", "on", "off", "end"}]
  /\ faults \in 0..MaxFaults

\* Nothing of a domain is touched before its finalize was announced: the subscription, a mailbox,
\* the aliases, the lookup, the metadata, the domain's row, the release of the registration and
\* the zone are as they were until the owner asked for it, or the grace period was over and the
\* warning had been out for its full time (finalizeBlocker, line 152).
Touched == \/ mailboxes # Mailboxes \/ paying # bought \/ ~aliases \/ customer # bought
           \/ Forgotten \/ d1 = "none" \/ Has(row, "released") \/ ~zone
Announced == \/ Has(row, "requested")
             \/ Has(row, "warned") /\ age = Grace /\ notice = Warning
NothingUnannounced == (Touched => Has(row, "started")) /\ (Has(row, "started") => Announced)

\* Nobody pays for a domain that is being deleted (step 1 before step 2), whichever runners
\* take turns at it.
BillingFirst == mailboxes # Mailboxes => ~paying

\* A finalized domain is gone, whatever died, failed or overran its lease on the way: nothing
\* bills, resolves or holds mail any more.  A registration still renews only if the operators
\* were asked to look at it or a delivery switched it on again afterwards, and a zone is left
\* only if they were asked to remove it.  The metadata may be back: a delivery of Stripe or a
\* request that read it before writes it again.
FinishedMeansGone ==
  Has(row, "finalized") =>
    /\ mailboxes = {} /\ d1 = "none" /\ Forgotten /\ ~customer /\ ~aliases /\ ~paying
    /\ renews => "registration" \in told \/ rearmed
    /\ zone => "zone" \in told

\* A decommissioned domain does not stay so, and a finalize that started ends, unless the
\* hourly run's stale activation made the domain active again, or a late delivery keeps the
\* registration alive, and with it the zone.
Offboards == /\ d1 = "decommissioned" ~> d1 # "decommissioned"
             /\ Has(row, "started") ~> (Has(row, "finalized") \/ d1 = "active" \/ rearmed)
=============================================================================
