---------------------- MODULE DomainOffboardingProofs ----------------------
(***************************************************************************)
(* Theorems about DomainOffboarding, for any mailboxes, requests,          *)
(* deliveries, periods and faults.                                         *)
(*                                                                         *)
(* RowInv says what each stamp of the row stands for, WorldInv what the    *)
(* metadata and the rest of the domain promise each other, and RunnerInv   *)
(* what a runner may rely on at each step.  The lease keeps no runner      *)
(* apart from another: each invariant is therefore made of facts that no   *)
(* step of anybody undoes, by Shrinks below, and none speaks of the lease. *)
(* What a runner recorded in the row is not such a fact: one that read the *)
(* row before may empty its columns, yet only when the metadata is gone,   *)
(* and then there is nothing left to bill or to purge.                     *)
(***************************************************************************)
EXTENDS DomainOffboarding, TLAPS

Truth == IF bought THEN "ours" ELSE "brought"
DataGone == mailboxes = {} /\ ~aliases /\ ~customer /\ ~paying /\ Forgotten /\ d1 = "none"
\* What the stamps of Cloudflare's part stand for.
Released == ~renews \/ "registration" \in told \/ rearmed
Unzoned == ~zone \/ "zone" \in told

RowInv ==
  /\ ~Has(row, "due")
  /\ row.stamps \ {"lease"} # {} => Has(row, "tracked")
  /\ Has(row, "tracked") => age + left >= Grace
  /\ Has(row, "warned") => notice + left >= Warning
  /\ row.kept \in {"unknown", Truth}
  /\ Has(row, "started") => Announced /\ (row.kept = Truth \/ Forgotten)
  /\ Has(row, "unbilled") => ~paying
  /\ Has(row, "deleted") => Has(row, "started") /\ DataGone
  /\ Has(row, "released") => Has(row, "deleted") /\ Released
  /\ Has(row, "unzoned") => Has(row, "deleted") /\ Unzoned
  /\ Has(row, "finalized") => {"deleted", "released", "unzoned"} \subseteq row.stamps

WorldInv ==
  /\ ~bought => ~customer /\ ~paying /\ ~renews /\ ~registered
  /\ Forgotten => mailboxes = {} /\ ~aliases /\ ~customer /\ ~paying
  /\ Touched => Has(row, "started")
  /\ BillingFirst

AfterRecheck == HoldPcs \ {"relook", "recheck", "give up"}
AfterBegin == AfterRecheck \ {"metadata", "begin"}
AfterReload == AfterBegin \ {"reload"}
AfterBilling == AfterReload \ {"billing"}
AfterPurge == AfterBilling \ {"record", "list", "purge"}
AfterAliases == AfterPurge \ {"aliases"}
AfterUnlist == AfterAliases \ {"unlist"}
AfterForget == AfterUnlist \ {"forget"}
AfterDrop == AfterForget \ {"drop"}
AfterStamp == AfterDrop \ {"stamp"}
AfterRegistrar == {"zone", "defer", "unzone", "record unzoned", "finish"}

\* What a runner once read of the row is still true of it, or of the domain.
SnapInv(r) ==
  /\ snap[r].stamps \ {"due", "lease"} \subseteq row.stamps
  /\ Has(snap[r], "due") => Announced
  /\ snap[r].kept \in {"unknown", Truth}

\* What it may rely on until the data are gone, and from then on.
WorkInv(r) ==
  /\ pc[r] \in AfterRecheck => Announced
  /\ pc[r] = "begin" /\ seen[r] = "none" => Forgotten
  /\ pc[r] \in AfterBegin => Has(row, "started")
  /\ pc[r] \in AfterReload => snap[r].kept = Truth \/ Forgotten
  /\ pc[r] \in AfterBilling => ~paying
  /\ pc[r] = "purge" => mailboxes \subseteq todo[r]
  /\ pc[r] \in AfterPurge => mailboxes = {}
  /\ pc[r] \in AfterAliases => ~aliases
  /\ pc[r] \in AfterUnlist => ~customer
  /\ pc[r] \in AfterForget => Forgotten
  /\ pc[r] \in AfterDrop => d1 = "none"

EndInv(r) ==
  /\ pc[r] \in AfterStamp => Has(row, "deleted")
  /\ pc[r] = "record released" => Released
  /\ pc[r] \in AfterRegistrar /\ outcome[r] = "done" => Has(row, "released")
  /\ pc[r] = "record unzoned" => Unzoned
  /\ pc[r] = "finish" /\ outcome[r] = "done" => Has(row, "unzoned")

RunnerInv(r) == SnapInv(r) /\ WorkInv(r) /\ EndInv(r)

IndInv == TypeOK /\ RowInv /\ WorldInv /\ \A r \in Runners : RunnerInv(r)
-----------------------------------------------------------------------------
(* Types.                                                                  *)

LEMMA FreshType == FreshRow \in Rows
BY DEF FreshRow, Rows

LEMMA InitType == Init => TypeOK
<1> SUFFICES ASSUME Init PROVE TypeOK  OBVIOUS
<1>1. /\ left \in 0..AtLeast(Grace, Warning) /\ age \in 0..Grace /\ notice \in 0..Warning
      /\ faults \in 0..MaxFaults
  BY Periods, FaultBound DEF Init, AtLeast
<1>2. "idle" \in Pcs  BY DEF Pcs
<1>3. /\ d1 \in {"none", "pending", "active", "decommissioned"} /\ meta \in Statuses
      /\ "none" \in Statuses
  BY DEF Init, Statuses
<1> QED BY <1>1, <1>2, <1>3, FreshType DEF Init, TypeOK

LEMMA RowType ==
  ASSUME TypeOK, NEW stamps \in SUBSET Stamps, Stamp(stamps) PROVE row' \in Rows
BY DEF TypeOK, Stamp, Rows

LEMMA DropType == ASSUME TypeOK, DropLease PROVE row' \in Rows
BY DEF TypeOK, DropLease, Rows

\* The variables of the runners.
LocalOK ==
  /\ pc \in [Runners -> Pcs]
  /\ snap \in [Runners -> Rows]
  /\ seen \in [Runners -> Statuses]
  /\ todo \in [Runners -> SUBSET Mailboxes]
  /\ outcome \in [Runners -> {"done", "later"}]

LEMMA LocalType ==
  ASSUME TypeOK, LocalOK', row' \in Rows,
         UNCHANGED <<bought, hosting, services, time, around, faults>>
  PROVE  TypeOK'
BY DEF LocalOK, TypeOK, hosting, services, time, around

LEMMA EndsType == ASSUME TypeOK, NEW r \in Runners, Ends(r) PROVE LocalOK'
<1>1. "idle" \in Pcs /\ "none" \in Statuses  BY DEF Pcs, Statuses
<1> QED BY <1>1, FreshType DEF TypeOK, LocalOK, Ends, Move

LEMMA RecordType ==
  ASSUME TypeOK, NEW stamps \in SUBSET Stamps, RecordDecommission(stamps)
  PROVE  /\ row' \in Rows
         /\ left' \in 0..AtLeast(Grace, Warning) /\ age' \in 0..Grace /\ notice' \in 0..Warning
<1>1. row' \in Rows
  <2>1. {"tracked"} \cup stamps \in SUBSET Stamps  BY DEF Stamps
  <2> QED BY <2>1, RowType DEF RecordDecommission
<1> QED BY <1>1, Periods DEF TypeOK, RecordDecommission, AtLeast, time

\* Most steps move one runner and change the row at most.
LEMMA MovesType ==
  ASSUME TypeOK, NEW r \in Runners, NEW there \in Pcs, Move(r, there), row' \in Rows,
         UNCHANGED <<bought, hosting, services, time, snap, seen, todo, outcome, around, faults>>
  PROVE  TypeOK'
<1>1. LocalOK'  BY DEF LocalOK, TypeOK, Move
<1> QED BY <1>1, LocalType

LEMMA OwnerType ==
  ASSUME TypeOK, NEW q \in Requests, Owner(q) PROVE TypeOK'
<1>0. /\ q \in Runners /\ {"stopping", "marking", "tracking", "asking", "look"} \subseteq Pcs
      /\ "offboarding" \in Statuses /\ row \in Rows
  BY DEF Runners, Pcs, Statuses, TypeOK
<1>1. CASE Decommission(q)  BY <1>0, <1>1, MovesType DEF Decommission
<1>2. CASE StopMail(q)
  <2>1. pc' \in [Runners -> Pcs]  BY <1>0, <1>2 DEF StopMail, Move, TypeOK
  <2> QED BY <1>0, <1>2, <2>1
          DEF StopMail, SetMeta, TypeOK, Forgotten, services, time, deliveries
<1>3. CASE MarkDecommissioned(q)
  <2>1. pc' \in [Runners -> Pcs]  BY <1>0, <1>3 DEF MarkDecommissioned, Move, TypeOK
  <2> QED BY <1>0, <1>3, <2>1 DEF MarkDecommissioned, TypeOK, services, time, around
<1>4. CASE TrackDecommission(q)
  <2>1. RecordDecommission({}) /\ Ends(q)  BY <1>4 DEF TrackDecommission
  <2> QED BY <1>0, <1>4, <2>1, RecordType, EndsType
          DEF TrackDecommission, LocalOK, TypeOK, hosting, services, around
<1>5. CASE AskToFinalize(q)  BY <1>0, <1>5, MovesType DEF AskToFinalize
<1>6. CASE RecordRequest(q)
  <2>1. RecordDecommission({"requested"}) /\ {"requested"} \in SUBSET Stamps
    BY <1>6 DEF RecordRequest, Stamps
  <2>2. pc' \in [Runners -> Pcs]  BY <1>0, <1>6 DEF RecordRequest, Move, TypeOK
  <2> QED BY <1>0, <1>6, <2>1, <2>2, RecordType
          DEF RecordRequest, TypeOK, hosting, services, around
<1> QED BY <1>1, <1>2, <1>3, <1>4, <1>5, <1>6 DEF Owner

LEMMA HourlyType ==
  ASSUME TypeOK, Hourly PROVE TypeOK'
<1> USE DEF hosting, services, time, local, around, deliveries, history
<1>0. Cron \in Runners /\ {"activating", "confirming", "look"} \subseteq Pcs /\ row \in Rows
  BY DEF Runners, Pcs, TypeOK
<1>1. CASE SeeZoneActive
  <2>1. LocalOK'  BY <1>0, <1>1 DEF SeeZoneActive, Move, TypeOK, LocalOK
  <2> QED BY <1>0, <1>1, <2>1, LocalType DEF SeeZoneActive
<1>2. CASE Activate
  <2>1. pc' \in [Runners -> Pcs]  BY <1>0, <1>2 DEF Activate, Move, TypeOK
  <2> QED BY <1>2, <2>1 DEF Activate, TypeOK
<1>3. CASE ConfirmActive
  <2>1. Ends(Cron)  BY <1>3 DEF ConfirmActive
  <2>2. meta' \in Statuses /\ late' \in BOOLEAN /\ UNCHANGED <<rearmed, told>>
    BY <1>3 DEF ConfirmActive, SetMeta, TypeOK, Statuses, Forgotten
  <2>3. LocalOK'  BY <1>0, <2>1, EndsType
  <2> QED BY <1>3, <2>2, <2>3 DEF ConfirmActive, LocalOK, TypeOK
<1>4. CASE TrackUntracked
  <2>1. RecordDecommission({})  BY <1>4 DEF TrackUntracked
  <2> QED BY <1>4, <2>1, RecordType DEF TrackUntracked, TypeOK
<1>5. CASE Warn
  <2>1. row' \in Rows
    <3>1. {"warned"} \in SUBSET Stamps  BY DEF Stamps
    <3> QED BY <1>5, <3>1, RowType DEF Warn
  <2> QED BY <1>5, <2>1, Periods DEF Warn, TypeOK, AtLeast
<1>6. CASE Pick  BY <1>0, <1>6, MovesType DEF Pick
<1> QED BY <1>1, <1>2, <1>3, <1>4, <1>5, <1>6 DEF Hourly

LEMMA ReadType ==
  ASSUME TypeOK, NEW r \in Runners, NEW here, NEW there \in Pcs, ReadRow(r, here, there)
  PROVE  TypeOK'
<1>1. AsRead \in Rows
  <2>1. (row.stamps \ {"warned", "requested", "lease"}) \cup (IF Due THEN {"due"} ELSE {})
          \in SUBSET Stamps
    BY DEF TypeOK, Rows, Stamps
  <2> QED BY <2>1 DEF AsRead, TypeOK, Rows
<1>2. LocalOK' /\ row' \in Rows  BY <1>1 DEF ReadRow, Move, TypeOK, LocalOK
<1> QED BY <1>2, LocalType DEF ReadRow

LEMMA ToldType ==
  ASSUME TypeOK, pc' \in [Runners -> Pcs], renews' \in BOOLEAN, zone' \in BOOLEAN,
         told' \subseteq {"registration", "zone"},
         UNCHANGED <<bought, hosting, paying, registered, row, time, snap, seen, todo, outcome,
                     deliveries, late, rearmed, faults>>
  PROVE  TypeOK'
BY DEF TypeOK, hosting, time, deliveries

LEMMA CloudflareType ==
  ASSUME TypeOK, NEW r \in Runners,
         \/ ReleaseRegistrar(r) \/ RecordReleased(r) \/ ChooseZone(r) \/ DeferZone(r)
         \/ DeleteZone(r) \/ RecordUnzoned(r)
  PROVE  TypeOK'
<1>0. /\ {"zone", "defer", "unzone", "finish", "record released", "record unzoned"} \subseteq Pcs
      /\ row \in Rows
  BY DEF Pcs, HoldPcs, CloudflarePcs, TypeOK
<1>1. CASE ReleaseRegistrar(r)
  <2>1. /\ pc' \in [Runners -> Pcs] /\ renews' \in BOOLEAN /\ zone' \in BOOLEAN
        /\ told' \subseteq {"registration", "zone"}
    BY <1>0, <1>1 DEF ReleaseRegistrar, Move, TypeOK
  <2> QED BY <1>1, <2>1, ToldType DEF ReleaseRegistrar
<1>2. CASE RecordReleased(r)
  <2>1. row' \in Rows
    <3>1. {"released"} \in SUBSET Stamps  BY DEF Stamps
    <3> QED BY <1>2, <3>1, RowType DEF RecordReleased
  <2> QED BY <1>0, <1>2, <2>1, MovesType DEF RecordReleased
<1>3. CASE ChooseZone(r)
  <2>1. outcome' \in [Runners -> {"done", "later"}]  BY <1>3 DEF ChooseZone, TypeOK
  <2>2. pc' \in [Runners -> Pcs]  BY <1>0, <1>3 DEF ChooseZone, Move, TypeOK
  <2>3. LocalOK'  BY <1>3, <2>1, <2>2 DEF ChooseZone, TypeOK, LocalOK
  <2> QED BY <1>0, <1>3, <2>3, LocalType DEF ChooseZone
<1>4. CASE DeferZone(r)
  <2>1. row' \in Rows  BY <1>4 DEF DeferZone, TypeOK, Rows
  <2>2. LocalOK'  BY <1>0, <1>4 DEF DeferZone, Move, TypeOK, LocalOK
  <2> QED BY <1>4, <2>1, <2>2, LocalType DEF DeferZone
<1>5. CASE DeleteZone(r)
  <2>1. /\ pc' \in [Runners -> Pcs] /\ renews' \in BOOLEAN /\ zone' \in BOOLEAN
        /\ told' \subseteq {"registration", "zone"}
    BY <1>0, <1>5 DEF DeleteZone, Move, TypeOK
  <2> QED BY <1>5, <2>1, ToldType DEF DeleteZone
<1>6. CASE RecordUnzoned(r)
  <2>1. row' \in Rows
    <3>1. {"unzoned"} \in SUBSET Stamps  BY DEF Stamps
    <3> QED BY <1>6, <3>1, RowType DEF RecordUnzoned
  <2> QED BY <1>0, <1>6, <2>1, MovesType DEF RecordUnzoned
<1> QED BY <1>1, <1>2, <1>3, <1>4, <1>5, <1>6

LEMMA RegistryType ==
  ASSUME TypeOK, NEW r \in Runners,
         DeleteAliases(r) \/ DeleteCustomer(r) \/ DeleteMetadata(r) \/ DeleteDomainRow(r)
  PROVE  TypeOK'
<1>1. {"unlist", "forget", "drop", "stamp"} \subseteq Pcs  BY DEF Pcs, HoldPcs
<1>2. /\ pc' \in [Runners -> Pcs] /\ aliases' \in BOOLEAN /\ customer' \in BOOLEAN
      /\ meta' \in Statuses /\ d1' \in {"none", "pending", "active", "decommissioned"}
  <2>1. CASE DeleteAliases(r)  BY <1>1, <2>1 DEF DeleteAliases, Move, TypeOK
  <2>2. CASE DeleteCustomer(r)  BY <1>1, <2>2 DEF DeleteCustomer, Move, TypeOK
  <2>3. CASE DeleteMetadata(r)  BY <1>1, <2>3 DEF DeleteMetadata, Move, TypeOK, Statuses
  <2>4. CASE DeleteDomainRow(r)  BY <1>1, <2>4 DEF DeleteDomainRow, Move, TypeOK
  <2> QED BY <2>1, <2>2, <2>3, <2>4
<1>3. UNCHANGED <<bought, mailboxes, services, row, time, snap, seen, todo, outcome, around, faults>>
  BY DEF DeleteAliases, DeleteCustomer, DeleteMetadata, DeleteDomainRow
<1> QED BY <1>2, <1>3 DEF TypeOK, services, time, around

LEMMA WorkType ==
  ASSUME TypeOK, NEW r \in Runners, Work(r) PROVE TypeOK'
<1> USE DEF hosting, services, time, local, around, deliveries, history
<1>0. HoldPcs \subseteq Pcs /\ {"idle", "check", "claim"} \subseteq Pcs /\ row \in Rows
  BY DEF Pcs, TypeOK
<1>1. CASE Look(r) \/ Relook(r) \/ Reload(r) \/ Resume(r)
  BY <1>0, <1>1, ReadType DEF Look, Relook, Reload, Resume, HoldPcs, CloudflarePcs
<1>2. CASE Check(r)  BY <1>0, <1>2, MovesType DEF Check
<1>3. CASE Claim(r)
  <2>1. row' \in Rows
    <3>1. {"lease"} \in SUBSET Stamps  BY DEF Stamps
    <3> QED BY <1>3, <3>1, RowType DEF Claim, TypeOK
  <2> QED BY <1>0, <1>3, <2>1, MovesType DEF Claim, HoldPcs
<1>4. CASE Recheck(r)
  <2>1. {"give up", "resume", "metadata"} \subseteq Pcs  BY <1>0 DEF HoldPcs
  <2>2. \E there \in {"give up", "resume", "metadata"} : Move(r, there)  BY <1>4 DEF Recheck
  <2> QED BY <1>0, <1>4, <2>1, <2>2, MovesType DEF Recheck
<1>5. CASE GiveUp(r)
  <2>1. DropLease /\ Ends(r)  BY <1>5 DEF GiveUp
  <2>2. row' \in Rows  BY <2>1, DropType
  <2> QED BY <1>5, <2>1, <2>2, EndsType, LocalType DEF GiveUp
<1>6. CASE ReadMetadata(r)
  <2>1. LocalOK'  BY <1>0, <1>6 DEF ReadMetadata, Move, TypeOK, LocalOK, HoldPcs
  <2> QED BY <1>0, <1>6, <2>1, LocalType DEF ReadMetadata
<1>7. CASE Begin(r)
  <2>1. row' \in Rows
    <3>1. {"started"} \in SUBSET Stamps  BY DEF Stamps
    <3>2. Kept(snap[r].kept, seen[r]) \in {"unknown", "ours", "brought"}
      BY DEF Kept, TypeOK, Rows
    <3> QED BY <1>7, <3>1, <3>2 DEF Begin, TypeOK, Rows
  <2>2. LocalOK'  BY <1>0, <1>7 DEF Begin, Move, TypeOK, LocalOK, HoldPcs, Statuses
  <2> QED BY <1>7, <2>1, <2>2, LocalType DEF Begin
<1>8. CASE CancelBilling(r)
  <2>1. pc' \in [Runners -> Pcs] /\ paying' \in BOOLEAN
    BY <1>0, <1>8 DEF CancelBilling, Move, TypeOK, HoldPcs
  <2> QED BY <1>8, <2>1 DEF CancelBilling, TypeOK
<1>9. CASE RecordCancelled(r)
  <2>1. row' \in Rows
    <3>1. {"unbilled"} \in SUBSET Stamps  BY DEF Stamps
    <3> QED BY <1>9, <3>1, RowType DEF RecordCancelled
  <2> QED BY <1>0, <1>9, <2>1, MovesType DEF RecordCancelled, HoldPcs
<1>10. CASE ListMailboxes(r)
  <2>1. LocalOK'  BY <1>0, <1>10 DEF ListMailboxes, Move, TypeOK, LocalOK, HoldPcs
  <2> QED BY <1>0, <1>10, <2>1, LocalType DEF ListMailboxes
<1>11. CASE PurgeMailbox(r)
  <2>1. mailboxes' \subseteq Mailboxes /\ todo' \in [Runners -> SUBSET Mailboxes]
    BY <1>11 DEF PurgeMailbox, TypeOK
  <2> QED BY <1>11, <2>1 DEF PurgeMailbox, TypeOK
<1>12. CASE MailboxesPurged(r)  BY <1>0, <1>12, MovesType DEF MailboxesPurged, HoldPcs
<1>13. CASE DeleteAliases(r) \/ DeleteCustomer(r) \/ DeleteMetadata(r) \/ DeleteDomainRow(r)
  BY <1>13, RegistryType
<1>14. CASE StampDeleted(r)
  <2>1. row' \in Rows
    <3>1. {"deleted"} \in SUBSET Stamps  BY DEF Stamps
    <3> QED BY <1>14, <3>1, RowType DEF StampDeleted
  <2> QED BY <1>0, <1>14, <2>1, MovesType DEF StampDeleted, HoldPcs
<1>15. CASE \/ ReleaseRegistrar(r) \/ RecordReleased(r) \/ ChooseZone(r) \/ DeferZone(r)
            \/ DeleteZone(r) \/ RecordUnzoned(r)
  BY <1>15, CloudflareType
<1>16. CASE Finish(r)
  <2>1. Ends(r)  BY <1>16 DEF Finish
  <2>2. row' \in Rows  BY <1>16 DEF Finish, TypeOK, Rows, Stamps
  <2> QED BY <1>16, <2>1, <2>2, EndsType, LocalType DEF Finish
<1> QED BY <1>1, <1>2, <1>3, <1>4, <1>5, <1>6, <1>7, <1>8, <1>9, <1>10, <1>11, <1>12, <1>13,
           <1>14, <1>15, <1>16 DEF Work

LEMMA FailuresType ==
  ASSUME TypeOK, Failures PROVE TypeOK'
<1> USE DEF hosting, services, time, local, around, deliveries, history
<1>1. CASE LeaseLapses
  BY <1>1, DropType, FaultBound DEF LeaseLapses, TypeOK, Fault
<1>2. ASSUME NEW r \in Runners, CloudflareFails(r) PROVE TypeOK'
  <2>1. pc' \in [Runners -> Pcs]
    <3>1. "zone" \in Pcs /\ "finish" \in Pcs  BY DEF Pcs, HoldPcs, CloudflarePcs
    <3> QED BY <1>2, <3>1 DEF CloudflareFails, RegistrarFails, ZoneFails, TypeOK, Move
  <2>2. faults' \in 0..MaxFaults  BY <1>2, FaultBound DEF CloudflareFails, TypeOK, Fault
  <2>3. outcome' \in [Runners -> {"done", "later"}]  BY <1>2 DEF CloudflareFails, TypeOK
  <2> QED BY <1>2, <2>1, <2>2, <2>3 DEF CloudflareFails, TypeOK
<1>3. ASSUME NEW r \in Runners, StepThrows(r) PROVE TypeOK'
  <2>1. DropLease /\ Ends(r)  BY <1>3 DEF StepThrows
  <2>2. row' \in Rows /\ LocalOK' /\ faults' \in 0..MaxFaults
    BY <1>3, <2>1, DropType, EndsType, FaultBound DEF StepThrows, TypeOK, Fault
  <2> QED BY <1>3, <2>2 DEF StepThrows, LocalOK, TypeOK
<1>4. ASSUME NEW r \in Runners, Dies(r) PROVE TypeOK'
  <2>1. Ends(r)  BY <1>4 DEF Dies
  <2>2. LocalOK' /\ faults' \in 0..MaxFaults
    BY <1>4, <2>1, EndsType, FaultBound DEF Dies, TypeOK, Fault
  <2> QED BY <1>4, <2>2 DEF Dies, LocalOK, TypeOK
<1> QED BY <1>1, <1>2, <1>3, <1>4 DEF Failures

LEMMA SurroundingsType ==
  ASSUME TypeOK, Surroundings PROVE TypeOK'
<1> USE DEF hosting, services, time, local, around, deliveries, history
<1>1. CASE DayPasses  BY <1>1, Periods DEF DayPasses, TypeOK, AtLeast
<1>2. CASE ZoneDateComes  BY <1>2 DEF ZoneDateComes, TypeOK, Rows
<1>3. CASE RegistrationEnds  BY <1>3 DEF RegistrationEnds, TypeOK
<1>4. ASSUME NEW h \in Hooks, HookReads(h) PROVE TypeOK'
  BY <1>4 DEF HookReads, TypeOK
<1>5. ASSUME NEW h \in Hooks, HookRenews(h) PROVE TypeOK'
  <2>1. renews' \in BOOLEAN /\ rearmed' \in BOOLEAN
    BY <1>5 DEF HookRenews, TypeOK, Forgotten
  <2> QED BY <1>5, <2>1 DEF HookRenews, TypeOK
<1>6. ASSUME NEW h \in Hooks, HookWrites(h) PROVE TypeOK'
  BY <1>6 DEF HookWrites, SetMeta, TypeOK, Statuses, Forgotten
<1>7. ASSUME NEW h \in Hooks, HookEnds(h) PROVE TypeOK'
  BY <1>7 DEF HookEnds, TypeOK
<1> QED BY <1>1, <1>2, <1>3, <1>4, <1>5, <1>6, <1>7 DEF Surroundings, Delivery

LEMMA TypeStep == TypeOK /\ [Next]_vars => TypeOK'
<1> SUFFICES ASSUME TypeOK, [Next]_vars PROVE TypeOK'  OBVIOUS
<1>1. CASE UNCHANGED vars
  BY <1>1 DEF vars, hosting, services, time, local, around, deliveries, history, TypeOK
<1>2. CASE Next
  BY <1>2, OwnerType, HourlyType, WorkType, FailuresType, SurroundingsType DEF Next
<1> QED BY <1>1, <1>2

\* Every variable keeps its type (the state of DomainOffboarding).
THEOREM TypeCorrect == Spec => []TypeOK
<1> QED BY InitType, TypeStep, PTL DEF Spec
-----------------------------------------------------------------------------
(* The frame.                                                              *)

\* What no step undoes: stamps but the lease stay, what is gone stays gone, and a renewal comes
\* back only by a delivery, marked as such once the metadata is gone.
Shrinks ==
  /\ row.stamps \ {"lease"} \subseteq row'.stamps
  /\ Announced => Announced'
  /\ bought' = bought
  /\ paying' => paying
  /\ mailboxes' \subseteq mailboxes
  /\ aliases' => aliases
  /\ customer' => customer
  /\ Forgotten => Forgotten'
  /\ d1 = "none" => d1' = "none"
  /\ Forgotten /\ Released => Released'
  /\ Unzoned => Unzoned'

Shared == Shrinks /\ RowInv' /\ WorldInv'

Rests(r) == /\ pc'[r] = pc[r] /\ snap'[r] = snap[r] /\ seen'[r] = seen[r]
            /\ todo'[r] = todo[r] /\ outcome'[r] = outcome[r]
OnlyMoves(r) == \A s \in Runners \ {r} : Rests(s)

\* The places of a runner, each with those after it.
LEMMA Places ==
  /\ AfterRecheck = AfterBegin \cup {"metadata", "begin"}
  /\ AfterBegin = AfterReload \cup {"reload"}
  /\ AfterReload = AfterBilling \cup {"billing"}
  /\ AfterBilling = AfterPurge \cup {"record", "list", "purge"}
  /\ AfterPurge = AfterAliases \cup {"aliases"}
  /\ AfterAliases = AfterUnlist \cup {"unlist"}
  /\ AfterUnlist = AfterForget \cup {"forget"}
  /\ AfterForget = AfterDrop \cup {"drop"}
  /\ AfterDrop = AfterStamp \cup {"stamp"}
  /\ AfterStamp = {"resume", "finish"} \cup CloudflarePcs
<1> DEFINE Late == {"resume", "finish"} \cup CloudflarePcs
<1>1. AfterPurge = Late \cup {"stamp", "drop", "forget", "unlist", "aliases"}
  BY DEF AfterRecheck, AfterBegin, AfterReload, AfterBilling, AfterPurge, HoldPcs, CloudflarePcs
<1>2. AfterRecheck = AfterPurge \cup {"purge", "list", "record", "billing", "reload", "begin",
                                      "metadata"}
  BY <1>1 DEF AfterRecheck, HoldPcs, CloudflarePcs
<1>3. Late \cap {"stamp", "drop", "forget", "unlist", "aliases"} = {}  BY DEF CloudflarePcs
<1> HIDE DEF Late
<1>4. /\ AfterRecheck = AfterBegin \cup {"metadata", "begin"}
      /\ AfterBegin = AfterReload \cup {"reload"}
  BY <1>2 DEF AfterBegin, AfterReload
<1>5. /\ AfterReload = AfterBilling \cup {"billing"}
      /\ AfterBilling = AfterPurge \cup {"record", "list", "purge"}
  BY <1>2, <1>4 DEF AfterBegin, AfterReload, AfterBilling, AfterPurge
<1>6. /\ AfterPurge = AfterAliases \cup {"aliases"}
      /\ AfterAliases = AfterUnlist \cup {"unlist"}
      /\ AfterUnlist = AfterForget \cup {"forget"}
  BY <1>1 DEF AfterAliases, AfterUnlist, AfterForget
<1>7. /\ AfterForget = AfterDrop \cup {"drop"}
      /\ AfterDrop = AfterStamp \cup {"stamp"}
  BY <1>1 DEF AfterAliases, AfterUnlist, AfterForget, AfterDrop, AfterStamp
<1>8. AfterStamp = Late
  BY <1>1, <1>3 DEF AfterAliases, AfterUnlist, AfterForget, AfterDrop, AfterStamp
<1> QED BY <1>4, <1>5, <1>6, <1>7, <1>8 DEF Late

LEMMA SnapStays ==
  ASSUME Shrinks, NEW r \in Runners, SnapInv(r), snap'[r] = snap[r] PROVE SnapInv(r)'
BY DEF Shrinks, SnapInv, Has, Truth

LEMMA WorkStays ==
  ASSUME Shrinks, NEW r \in Runners, WorkInv(r), Rests(r) PROVE WorkInv(r)'
<1>1. Has(row, "started") => Has(row, "started")'  BY DEF Shrinks, Has
<1>2. Truth' = Truth  BY DEF Shrinks, Truth
<1> QED BY <1>1, <1>2 DEF Shrinks, WorkInv, Rests

LEMMA EndStays ==
  ASSUME Shrinks, NEW r \in Runners, WorkInv(r), EndInv(r), Rests(r) PROVE EndInv(r)'
<1>1. pc[r] = "record released" => Forgotten
  BY Places DEF WorkInv, CloudflarePcs
<1>2. \A s \in {"deleted", "released", "unzoned"} : Has(row, s) => Has(row, s)'
  BY DEF Shrinks, Has
<1> QED BY <1>1, <1>2 DEF Shrinks, EndInv, Rests

LEMMA Steady ==
  ASSUME Shrinks, NEW r \in Runners, RunnerInv(r), Rests(r) PROVE RunnerInv(r)'
BY SnapStays, WorkStays, EndStays DEF RunnerInv, Rests

\* A runner outside relies on nothing but what it has read.
LEMMA OutsideInv ==
  ASSUME IndInv, Shrinks, NEW r \in Runners,
         pc'[r] \notin AfterRecheck, snap'[r] = snap[r] \/ snap'[r] = FreshRow
  PROVE  RunnerInv(r)'
<1>1. SnapInv(r)'
  <2>1. CASE snap'[r] = snap[r]  BY <2>1, SnapStays DEF IndInv, RunnerInv
  <2>2. CASE snap'[r] = FreshRow  BY <2>2 DEF FreshRow, SnapInv, Has
  <2> QED BY <2>1, <2>2
<1>2. WorkInv(r)'  BY Places DEF WorkInv
<1>3. EndInv(r)'  BY Places DEF EndInv, AfterRegistrar, CloudflarePcs
<1> QED BY <1>1, <1>2, <1>3 DEF RunnerInv

LEMMA Outside ==
  {"idle", "stopping", "marking", "tracking", "asking", "activating", "confirming", "look",
   "check", "claim", "relook", "recheck", "give up"} \cap AfterRecheck = {}
BY DEF AfterRecheck, HoldPcs, CloudflarePcs

LEMMA Alone ==
  ASSUME IndInv, TypeOK', Shared, NEW r \in Runners, OnlyMoves(r), RunnerInv(r)'
  PROVE  IndInv'
<1>1. ASSUME NEW s \in Runners \ {r} PROVE RunnerInv(s)'
  BY Steady DEF IndInv, Shared, OnlyMoves
<1>2. \A s \in Runners : RunnerInv(s)'  BY <1>1
<1> QED BY <1>2 DEF IndInv, Shared

LEMMA Nobody ==
  ASSUME IndInv, TypeOK', Shared, UNCHANGED local PROVE IndInv'
<1>1. ASSUME NEW s \in Runners PROVE RunnerInv(s)'
  BY Steady DEF IndInv, Shared, Rests, local
<1> QED BY <1>1 DEF IndInv, Shared

LEMMA Quiet ==
  ASSUME IndInv, UNCHANGED <<bought, hosting, services, row, time, history>> PROVE Shared
<1>1. Shrinks
  BY DEF IndInv, Shrinks, Announced, Forgotten, Released, Unzoned, Has, hosting, services, time,
         history
<1>2. RowInv'
  BY DEF IndInv, RowInv, Announced, Forgotten, Released, Unzoned, DataGone, Truth, Has, hosting,
         services, time, history
<1>3. WorldInv'
  BY DEF IndInv, WorldInv, Forgotten, Touched, BillingFirst, Has, hosting, services, history
<1> QED BY <1>1, <1>2, <1>3 DEF Shared

\* The row stays, and so does what it says.
LEMMA RowStays ==
  ASSUME RowInv, Shrinks, UNCHANGED <<row, time>> PROVE RowInv'
BY DEF Shrinks, RowInv, DataGone, Truth, Has, time

\* The same for stamps that stand for something.
LEMMA StampRow ==
  ASSUME RowInv, Shrinks, NEW S, row'.stamps = row.stamps \cup S, row'.kept = row.kept,
         Has(row, "started"), S \subseteq {"unbilled", "deleted", "released", "unzoned"},
         "unbilled" \in S => ~paying,
         "deleted" \in S => DataGone,
         "released" \in S => Has(row, "deleted") /\ Released,
         "unzoned" \in S => Has(row, "deleted") /\ Unzoned,
         UNCHANGED time
  PROVE  RowInv'
<1>1. DataGone => DataGone'  BY DEF Shrinks, DataGone
<1>2. Has(row, "deleted") => DataGone /\ Forgotten  BY DEF RowInv, DataGone
<1> QED BY <1>1, <1>2 DEF Shrinks, RowInv, Truth, Has, time

LEMMA EndsOutside ==
  ASSUME IndInv, Shrinks, NEW r \in Runners, Ends(r) PROVE RunnerInv(r)' /\ OnlyMoves(r)
<1>0. TypeOK  BY DEF IndInv
<1>1. pc'[r] = "idle" /\ snap'[r] = FreshRow  BY <1>0 DEF TypeOK, Ends, Move
<1>2. RunnerInv(r)'  BY <1>1, OutsideInv, Outside
<1>3. OnlyMoves(r)  BY <1>0 DEF TypeOK, Ends, Move, OnlyMoves, Rests
<1> QED BY <1>2, <1>3

\* A runner outside that only moves, by a step that changes nothing else.
LEMMA MovesOutside ==
  ASSUME IndInv, TypeOK', Shared, NEW r \in Runners, NEW there, there \notin AfterRecheck,
         Move(r, there), UNCHANGED <<snap, seen, todo, outcome>>
  PROVE  IndInv'
<1>0. TypeOK  BY DEF IndInv
<1>1. pc'[r] = there /\ snap'[r] = snap[r] /\ OnlyMoves(r)
  BY <1>0 DEF TypeOK, Move, OnlyMoves, Rests
<1>2. RunnerInv(r)'  BY <1>1, OutsideInv DEF Shared
<1> QED BY <1>1, <1>2, Alone

\* Nothing relies on the lease, or on the date of the zone.
LEMMA SameStamps ==
  ASSUME IndInv, UNCHANGED <<bought, hosting, services, time, history>>,
         row.stamps \ {"lease"} = row'.stamps \ {"lease"}, row'.kept = row.kept
  PROVE  Shared
<1>1. \A s \in {"due", "tracked", "warned", "requested", "started", "unbilled", "deleted",
                "released", "unzoned", "finalized"} : Has(row, s)' <=> Has(row, s)
  BY DEF Has
<1>2. Shrinks
  BY <1>1 DEF Shrinks, Announced, Forgotten, Released, Unzoned, hosting, services, time, history
<1>3. RowInv'
  <2>1. /\ row'.stamps \ {"lease"} # {} <=> row.stamps \ {"lease"} # {}
        /\ {"deleted", "released", "unzoned"} \subseteq row'.stamps
             <=> {"deleted", "released", "unzoned"} \subseteq row.stamps
    OBVIOUS
  <2>2. UNCHANGED <<Forgotten, DataGone, Released, Unzoned, Truth, age, left, notice, paying>>
    BY DEF Forgotten, DataGone, Released, Unzoned, Truth, hosting, services, time, history
  <2>3. Announced' <=> Announced  BY <1>1, <2>2 DEF Announced
  <2> QED BY <1>1, <2>1, <2>2, <2>3 DEF IndInv, RowInv
<1>4. WorldInv'
  BY <1>1 DEF IndInv, WorldInv, Forgotten, Touched, BillingFirst, hosting, services, history
<1> QED BY <1>2, <1>3, <1>4 DEF Shared

\* A stamp of a runner that has begun, when nothing but the row changes.
LEMMA StampShared ==
  ASSUME IndInv, NEW S, row'.stamps = row.stamps \cup S, row'.kept = row.kept,
         Has(row, "started"), S \subseteq {"unbilled", "deleted", "released", "unzoned"},
         "unbilled" \in S => ~paying,
         "deleted" \in S => DataGone,
         "released" \in S => Has(row, "deleted") /\ Released,
         "unzoned" \in S => Has(row, "deleted") /\ Unzoned,
         UNCHANGED <<bought, hosting, services, time, history>>
  PROVE  Shared
<1>1. UNCHANGED <<Forgotten, Released, Unzoned>>
  BY DEF Forgotten, Released, Unzoned, hosting, services, history
<1>2. Announced => Announced'  BY DEF Announced, Has, time
<1>3. Shrinks  BY <1>1, <1>2 DEF Shrinks, hosting, services
<1>4. RowInv'  BY <1>3, StampRow DEF IndInv
<1>5. WorldInv'
  BY <1>1 DEF IndInv, WorldInv, Touched, BillingFirst, Has, hosting, services
<1> QED BY <1>3, <1>4, <1>5 DEF Shared

LEMMA InitInv == Init => IndInv
<1> SUFFICES ASSUME Init PROVE IndInv  OBVIOUS
<1>1. TypeOK  BY InitType
<1>2. RowInv  BY Periods DEF Init, RowInv, FreshRow, Has
<1>3. ~Forgotten
  BY DEF Init, Forgotten
<1>4. WorldInv  BY <1>3 DEF Init, WorldInv, Touched, BillingFirst, FreshRow, Has
<1>5. ASSUME NEW r \in Runners PROVE RunnerInv(r)
  <2>1. pc[r] = "idle" /\ snap[r] = FreshRow  BY DEF Init
  <2>2. SnapInv(r)  BY <2>1 DEF FreshRow, SnapInv, Has
  <2>3. pc[r] \notin AfterRecheck  BY <2>1, Outside
  <2>4. WorkInv(r)  BY <2>3, Places DEF WorkInv
  <2>5. EndInv(r)  BY <2>3, Places DEF EndInv, AfterRegistrar, CloudflarePcs
  <2> QED BY <2>2, <2>4, <2>5 DEF RunnerInv
<1> QED BY <1>1, <1>2, <1>4, <1>5 DEF IndInv

-----------------------------------------------------------------------------
(* The owner and the hourly run.                                           *)

\* A row is made only where there was none, so it takes no notice back.
LEMMA RecordShared ==
  ASSUME IndInv, NEW stamps \in SUBSET {"requested"}, RecordDecommission(stamps),
         UNCHANGED <<bought, hosting, services, history>>
  PROVE  Shared
<1>1. row'.stamps = row.stamps \cup {"tracked"} \cup stamps /\ row'.kept = row.kept
  BY DEF RecordDecommission, Stamp, IndInv, TypeOK, Rows
<1>2. UNCHANGED <<Forgotten, DataGone, Released, Unzoned, Truth, paying>>
  BY DEF Forgotten, DataGone, Released, Unzoned, Truth, hosting, services, history
<1>3. /\ \A s \in {"due", "warned", "started", "unbilled", "deleted", "released", "unzoned",
                   "finalized"} : Has(row, s)' <=> Has(row, s)
      /\ Has(row, "requested") => Has(row, "requested")'
      /\ Has(row, "tracked")'
      /\ {"deleted", "released", "unzoned"} \subseteq row.stamps
           => {"deleted", "released", "unzoned"} \subseteq row'.stamps
  BY <1>1 DEF Has
<1>4. Announced => Announced'
  <2>1. CASE Has(row, "tracked")
    BY <1>3, <2>1 DEF RecordDecommission, Announced, time
  <2>2. CASE ~Has(row, "tracked")  BY <1>3, <2>2 DEF Announced, IndInv, RowInv, Has
  <2> QED BY <2>1, <2>2
<1>5. Shrinks
  BY <1>1, <1>2, <1>4 DEF Shrinks, hosting, services
<1>6. RowInv'
  <2>1. (Has(row, "tracked") => age + left >= Grace)'
    BY <1>3, Periods DEF RecordDecommission, IndInv, RowInv, time
  <2>2. (Has(row, "warned") => notice + left >= Warning)'
    <3>1. Has(row, "warned") => Has(row, "tracked")  BY DEF IndInv, RowInv, Has
    <3> QED BY <1>3, <3>1 DEF RecordDecommission, IndInv, RowInv, time
  <2> QED BY <1>1, <1>2, <1>3, <1>4, <2>1, <2>2 DEF IndInv, RowInv
<1>7. WorldInv'
  BY <1>2, <1>3 DEF IndInv, WorldInv, Touched, BillingFirst, hosting, services
<1> QED BY <1>5, <1>6, <1>7 DEF Shared

\* The metadata and the row of the domain may be written, never made again unnoticed.
LEMMA StatusShared ==
  ASSUME IndInv,
         UNCHANGED <<bought, customer, aliases, mailboxes, services, row, time>>,
         d1 = "none" => d1' = "none", d1' = "none" => d1 = "none",
         \/ UNCHANGED <<meta, history>>
         \/ \E s \in Statuses \ {"none"} : SetMeta(s)
  PROVE  Shared
<1>1. (Forgotten <=> Forgotten') /\ UNCHANGED <<rearmed, told>>
  <2>1. CASE UNCHANGED <<meta, history>>  BY <2>1 DEF Forgotten, history
  <2>2. CASE \E s \in Statuses \ {"none"} : SetMeta(s)  BY <2>2 DEF Forgotten, SetMeta
  <2> QED BY <2>1, <2>2
<1>2. UNCHANGED <<Released, Unzoned, Announced>>
  BY <1>1 DEF Released, Unzoned, Announced, services, time, Has
<1>3. Shrinks  BY <1>1, <1>2 DEF Shrinks, services
<1>4. RowInv'  BY <1>3, RowStays DEF IndInv
<1>5. WorldInv'
  BY <1>1 DEF IndInv, WorldInv, Touched, BillingFirst, Has, services
<1> QED BY <1>3, <1>4, <1>5 DEF Shared

LEMMA OwnerInv ==
  ASSUME IndInv, TypeOK', NEW q \in Requests, Owner(q) PROVE IndInv'
<1>0. q \in Runners  BY DEF Runners
<1>1. CASE Decommission(q)
  <2>1. Shared  BY <1>1, Quiet DEF Decommission, around, history
  <2> QED BY <1>0, <1>1, <2>1, MovesOutside, Outside DEF Decommission
<1>2. CASE StopMail(q)
  <2>1. Shared  BY <1>2, StatusShared DEF StopMail, Statuses
  <2> QED BY <1>0, <1>2, <2>1, MovesOutside, Outside DEF StopMail
<1>3. CASE MarkDecommissioned(q)
  <2>1. Shared  BY <1>3, StatusShared DEF MarkDecommissioned, around, history
  <2> QED BY <1>0, <1>3, <2>1, MovesOutside, Outside DEF MarkDecommissioned
<1>4. CASE TrackDecommission(q)
  <2>1. Shared  BY <1>4, RecordShared DEF TrackDecommission, around, history
  <2> QED BY <1>0, <1>4, <2>1, EndsOutside, Alone DEF TrackDecommission, Shared
<1>5. CASE AskToFinalize(q)
  <2>1. Shared  BY <1>5, Quiet DEF AskToFinalize, around, history
  <2> QED BY <1>0, <1>5, <2>1, MovesOutside, Outside DEF AskToFinalize
<1>6. CASE RecordRequest(q)
  <2>1. Shared  BY <1>6, RecordShared DEF RecordRequest, around, history
  <2> QED BY <1>0, <1>6, <2>1, MovesOutside, Outside DEF RecordRequest
<1> QED BY <1>1, <1>2, <1>3, <1>4, <1>5, <1>6 DEF Owner

LEMMA WarnShared == ASSUME IndInv, Warn PROVE Shared
<1>1. /\ row'.stamps = row.stamps \cup {"warned"} /\ row'.kept = row.kept
      /\ Has(row, "tracked") /\ row.stamps \cap {"finalized", "warned", "started"} = {}
  BY DEF Warn, WarningDue, Stamp, IndInv, TypeOK, Rows, Has
<1>2. /\ left' = AtLeast(left, Warning) /\ notice' = 0 /\ age' = age
      /\ UNCHANGED <<bought, hosting, services, history>>
  BY DEF Warn, around, history
<1>3. UNCHANGED <<Forgotten, DataGone, Released, Unzoned, Truth, paying>>
  BY <1>2 DEF Forgotten, DataGone, Released, Unzoned, Truth, hosting, services, history
<1>4. /\ \A s \in {"due", "tracked", "requested", "started", "unbilled", "deleted", "released",
                   "unzoned", "finalized"} : Has(row, s)' <=> Has(row, s)
      /\ ~Has(row, "warned") /\ ~Has(row, "started") /\ ~Has(row, "finalized")
  BY <1>1 DEF Has
<1>5. Announced => Announced'
  <2>1. Has(row, "requested") => Has(row, "requested")'  BY <1>1 DEF Has
  <2> QED BY <1>4, <2>1 DEF Announced
<1>6. Shrinks  BY <1>1, <1>2, <1>3, <1>5 DEF Shrinks, hosting, services
<1>7. RowInv'
  <2>1. left' >= left /\ notice' + left' >= Warning
    BY <1>2, Periods DEF AtLeast, IndInv, TypeOK
  <2>2. age' + left' >= Grace
    <3>1. age + left >= Grace  BY <1>1 DEF IndInv, RowInv
    <3>2. age \in Int /\ left \in Int /\ left' \in Int
      BY <1>2, Periods DEF IndInv, TypeOK, AtLeast
    <3> QED BY <1>2, <2>1, <3>1, <3>2, Periods
  <2> QED BY <1>1, <1>3, <1>4, <1>5, <2>1, <2>2 DEF IndInv, RowInv
<1>8. WorldInv'
  BY <1>2, <1>3, <1>4 DEF IndInv, WorldInv, Touched, BillingFirst, hosting, services
<1> QED BY <1>6, <1>7, <1>8 DEF Shared

LEMMA HourlyInv ==
  ASSUME IndInv, TypeOK', Hourly PROVE IndInv'
<1>0. Cron \in Runners /\ TypeOK  BY DEF Runners, IndInv
<1>1. CASE SeeZoneActive
  <2>1. Shared  BY <1>1, Quiet DEF SeeZoneActive, around, history
  <2>2. pc'[Cron] = "activating" /\ snap'[Cron] = snap[Cron] /\ OnlyMoves(Cron)
    BY <1>0, <1>1 DEF SeeZoneActive, Move, TypeOK, OnlyMoves, Rests
  <2> QED BY <1>0, <2>1, <2>2, OutsideInv, Outside, Alone DEF Shared
<1>2. CASE Activate
  <2>1. Shared  BY <1>2, StatusShared DEF Activate, around, history
  <2> QED BY <1>0, <1>2, <2>1, MovesOutside, Outside DEF Activate
<1>3. CASE ConfirmActive
  <2>1. Shared  BY <1>3, StatusShared DEF ConfirmActive, Statuses
  <2> QED BY <1>0, <1>3, <2>1, EndsOutside, Alone DEF ConfirmActive, Shared
<1>4. CASE TrackUntracked
  <2>1. Shared  BY <1>4, RecordShared DEF TrackUntracked, around, history
  <2> QED BY <1>4, <2>1, Nobody DEF TrackUntracked
<1>5. CASE Warn  BY <1>5, WarnShared, Nobody DEF Warn
<1>6. CASE Pick
  <2>1. Shared  BY <1>6, Quiet DEF Pick, around, history
  <2> QED BY <1>0, <1>6, <2>1, MovesOutside, Outside DEF Pick
<1> QED BY <1>1, <1>2, <1>3, <1>4, <1>5, <1>6 DEF Hourly
-----------------------------------------------------------------------------
(* A runner at work.                                                       *)

\* What is due has been announced: the days to finalizeAfter ran down in the grace period and
\* after the warning.
LEMMA DueAnnounced == ASSUME IndInv, Due PROVE Announced
<1>1. CASE Has(row, "started") \/ Has(row, "requested")
  BY <1>1 DEF IndInv, RowInv, Announced
<1>2. CASE Has(row, "warned") /\ left = 0
  <2>1. Has(row, "tracked")  BY <1>2 DEF IndInv, RowInv, Has
  <2>2. age + left >= Grace /\ notice + left >= Warning
    BY <1>2, <2>1 DEF IndInv, RowInv
  <2>3. age \in 0..Grace /\ notice \in 0..Warning  BY DEF IndInv, TypeOK
  <2> QED BY <1>2, <2>2, <2>3, Periods DEF Announced
<1> QED BY <1>1, <1>2 DEF Due

LEMMA ReadKnown ==
  ASSUME IndInv, NEW r \in Runners, NEW here, NEW there, ReadRow(r, here, there)
  PROVE  /\ Shared /\ OnlyMoves(r) /\ pc[r] = here /\ pc'[r] = there
         /\ seen'[r] = seen[r] /\ todo'[r] = todo[r] /\ outcome'[r] = outcome[r]
         /\ UNCHANGED <<bought, hosting, services, row, time, history>>
         /\ snap'[r] = AsRead /\ AsRead.kept = row.kept
         /\ AsRead.stamps \ {"due"} \subseteq row.stamps
         /\ SnapInv(r)'
<1>0. TypeOK  BY DEF IndInv
<1>1. UNCHANGED <<bought, hosting, services, row, time, history>>
  BY DEF ReadRow, around, history
<1>2. Shared  BY <1>1, Quiet
<1>3. /\ OnlyMoves(r) /\ pc[r] = here /\ pc'[r] = there /\ snap'[r] = AsRead
      /\ seen'[r] = seen[r] /\ todo'[r] = todo[r] /\ outcome'[r] = outcome[r]
  BY <1>0 DEF ReadRow, At, Move, TypeOK, OnlyMoves, Rests
<1>4. /\ AsRead.kept = row.kept
      /\ AsRead.stamps \ {"due"} \subseteq row.stamps
      /\ "due" \in AsRead.stamps => Due
  BY <1>0 DEF AsRead, TypeOK, Rows, IndInv, RowInv, Has
<1>5. Announced' <=> Announced  BY <1>1 DEF Announced, time
<1>6. SnapInv(r)'
  BY <1>1, <1>3, <1>4, <1>5, DueAnnounced DEF SnapInv, IndInv, RowInv, Truth, Has
<1> QED BY <1>1, <1>2, <1>3, <1>4, <1>6

\* What a runner that reads the row anew must know of the domain.
LEMMA ReadInv ==
  ASSUME IndInv, TypeOK', NEW r \in Runners, Look(r) \/ Relook(r) \/ Reload(r) \/ Resume(r)
  PROVE  IndInv'
<1>1. CASE Look(r)
  <2>1. Shared /\ OnlyMoves(r) /\ pc'[r] = "check" /\ SnapInv(r)'
    BY <1>1, ReadKnown DEF Look
  <2>2. pc'[r] \notin AfterRecheck  BY <2>1, Outside
  <2>3. RunnerInv(r)'
    BY <2>1, <2>2, Places DEF RunnerInv, WorkInv, EndInv, AfterRegistrar, CloudflarePcs
  <2> QED BY <2>1, <2>3, Alone
<1>2. CASE Relook(r)
  <2>1. Shared /\ OnlyMoves(r) /\ pc'[r] = "recheck" /\ SnapInv(r)'
    BY <1>2, ReadKnown DEF Relook
  <2>2. pc'[r] \notin AfterRecheck  BY <2>1, Outside
  <2>3. RunnerInv(r)'
    BY <2>1, <2>2, Places DEF RunnerInv, WorkInv, EndInv, AfterRegistrar, CloudflarePcs
  <2> QED BY <2>1, <2>3, Alone
<1>3. CASE Reload(r)
  <2>1. /\ Shared /\ OnlyMoves(r) /\ pc[r] = "reload" /\ pc'[r] = "billing" /\ SnapInv(r)'
        /\ snap'[r].kept = row.kept /\ UNCHANGED <<bought, hosting, row, time, history>>
    BY <1>3, ReadKnown DEF Reload
  <2>2. Has(row, "started") /\ Announced
    BY <2>1, Places DEF IndInv, RunnerInv, WorkInv
  <2>3. row.kept = Truth \/ Forgotten  BY <2>2 DEF IndInv, RowInv
  <2>4. WorkInv(r)'
    <3>1. /\ Announced' /\ Has(row, "started")'
          /\ (snap[r].kept = Truth \/ Forgotten)'
      BY <2>1, <2>2, <2>3 DEF Announced, Truth, Forgotten, Has, hosting, time, history
    <3>2. pc'[r] \notin AfterBilling
      BY <2>1, Places DEF AfterBilling, AfterReload, AfterBegin, AfterRecheck, HoldPcs
    <3> QED BY <2>1, <3>1, <3>2, Places DEF WorkInv
  <2>5. EndInv(r)'
    BY <2>1, Places DEF EndInv, AfterRegistrar, CloudflarePcs
  <2> QED BY <2>1, <2>4, <2>5, Alone DEF RunnerInv
<1>4. CASE Resume(r)
  <2>1. /\ Shared /\ OnlyMoves(r) /\ pc[r] = "resume" /\ pc'[r] = "registrar" /\ SnapInv(r)'
        /\ UNCHANGED <<bought, hosting, services, row, time, history>>
    BY <1>4, ReadKnown DEF Resume
  <2>2. Has(row, "deleted")  BY <2>1, Places DEF IndInv, RunnerInv, EndInv
  <2>3. Has(row, "started") /\ DataGone /\ Announced
    BY <2>2 DEF IndInv, RowInv
  <2>4. Has(row, "started")' /\ DataGone' /\ Announced' /\ Has(row, "deleted")'
    BY <2>1, <2>2, <2>3
       DEF DataGone, Announced, Forgotten, Has, hosting, services, time, history
  <2>5. WorkInv(r)'  BY <2>1, <2>4 DEF WorkInv, DataGone
  <2>6. EndInv(r)'  BY <2>1, <2>4 DEF EndInv, AfterRegistrar
  <2> QED BY <2>1, <2>5, <2>6, Alone DEF RunnerInv
<1> QED BY <1>1, <1>2, <1>3, <1>4

\* What a runner knows once its data are gone, or the row says so.
LEMMA EndKnown ==
  ASSUME IndInv, NEW r \in Runners, Has(row, "deleted")
  PROVE  Has(row, "started") /\ DataGone /\ Announced /\ Forgotten
BY DEF IndInv, RowInv, DataGone

LEMMA ClaimInv ==
  ASSUME IndInv, TypeOK', NEW r \in Runners, Check(r) \/ Claim(r) \/ Recheck(r) \/ GiveUp(r)
  PROVE  IndInv'
<1>0. TypeOK  BY DEF IndInv
<1>1. CASE Check(r)
  <2>1. Shared  BY <1>1, Quiet DEF Check, around, history
  <2>2. \E there \in {"claim", "idle"} : Move(r, there)  BY <1>1 DEF Check
  <2> QED BY <1>1, <2>1, <2>2, MovesOutside, Outside DEF Check
<1>2. CASE Claim(r)
  <2>1. row'.stamps \ {"lease"} = row.stamps \ {"lease"} /\ row'.kept = row.kept
    BY <1>0, <1>2 DEF Claim, Stamp, TypeOK, Rows
  <2>2. Shared  BY <1>2, <2>1, SameStamps DEF Claim, around, history
  <2>3. \E there \in {"relook", "idle"} : Move(r, there)  BY <1>2 DEF Claim
  <2> QED BY <1>2, <2>2, <2>3, MovesOutside, Outside DEF Claim
<1>3. CASE Recheck(r)
  <2>1. Shared  BY <1>3, Quiet DEF Recheck, around, history
  <2>2. /\ UNCHANGED <<bought, hosting, services, row, time, history>>
        /\ snap'[r] = snap[r] /\ OnlyMoves(r)
    BY <1>0, <1>3 DEF Recheck, TypeOK, OnlyMoves, Rests, Move, around, history
  <2>3. SnapInv(r) /\ SnapInv(r)'  BY <2>1, <2>2, SnapStays DEF IndInv, RunnerInv, Shared
  <2>4. CASE ~MayFinalize(snap[r])
    <3>1. Move(r, "give up")  BY <1>3, <2>4 DEF Recheck
    <3> QED BY <1>3, <2>1, <3>1, MovesOutside, Outside DEF Recheck
  <2>5. CASE MayFinalize(snap[r]) /\ Has(snap[r], "deleted")
    <3>1. pc'[r] = "resume"  BY <1>0, <1>3, <2>5 DEF Recheck, Move, TypeOK
    <3>2. Has(row, "deleted")  BY <2>3, <2>5 DEF SnapInv, Has
    <3>3. Has(row, "started")' /\ DataGone' /\ Announced' /\ Has(row, "deleted")'
      BY <2>2, <3>2, EndKnown
         DEF DataGone, Announced, Forgotten, Has, hosting, services, time, history
    <3>4. WorkInv(r)'  BY <3>1, <3>3 DEF WorkInv, DataGone
    <3>5. EndInv(r)'  BY <3>1, <3>3 DEF EndInv, AfterRegistrar
    <3> QED BY <2>1, <2>2, <2>3, <3>4, <3>5, Alone DEF RunnerInv
  <2>6. CASE MayFinalize(snap[r]) /\ ~Has(snap[r], "deleted")
    <3>1. pc'[r] = "metadata"  BY <1>0, <1>3, <2>6 DEF Recheck, Move, TypeOK
    <3>2. Announced
      <4>1. CASE Has(snap[r], "due")  BY <2>3, <4>1 DEF SnapInv
      <4>2. CASE Has(snap[r], "started")
        BY <2>3, <4>2 DEF SnapInv, IndInv, RowInv, Has
      <4> QED BY <2>6, <4>1, <4>2 DEF MayFinalize
    <3>3. Announced'  BY <2>1, <3>2 DEF Shared, Shrinks
    <3>4. pc'[r] \notin AfterBegin  BY <3>1 DEF AfterBegin, AfterRecheck, HoldPcs
    <3>5. WorkInv(r)'  BY <3>1, <3>3, <3>4, Places DEF WorkInv
    <3>6. EndInv(r)'  BY <3>1, <3>4, Places DEF EndInv, AfterRegistrar, CloudflarePcs
    <3> QED BY <2>1, <2>2, <2>3, <3>5, <3>6, Alone DEF RunnerInv
  <2> QED BY <2>4, <2>5, <2>6
<1>4. CASE GiveUp(r)
  <2>1. row'.stamps \ {"lease"} = row.stamps \ {"lease"} /\ row'.kept = row.kept
    BY <1>0, <1>4 DEF GiveUp, DropLease, TypeOK, Rows
  <2>2. Shared  BY <1>4, <2>1, SameStamps DEF GiveUp, around, history
  <2> QED BY <1>4, <2>2, EndsOutside, Alone DEF GiveUp, Shared
<1> QED BY <1>1, <1>2, <1>3, <1>4

LEMMA MetadataInv ==
  ASSUME IndInv, TypeOK', NEW r \in Runners, ReadMetadata(r) PROVE IndInv'
<1>0. TypeOK  BY DEF IndInv
<1>1. Shared  BY Quiet DEF ReadMetadata, around, history
<1>2. /\ pc[r] = "metadata" /\ pc'[r] = "begin" /\ snap'[r] = snap[r] /\ seen'[r] = meta
      /\ OnlyMoves(r) /\ UNCHANGED <<meta, late>>
  BY <1>0 DEF ReadMetadata, At, Move, TypeOK, OnlyMoves, Rests, hosting, around
<1>3. SnapInv(r)'  BY <1>1, <1>2, SnapStays DEF IndInv, RunnerInv, Shared
<1>4. Announced'  BY <1>1, <1>2, Places DEF IndInv, RunnerInv, WorkInv, Shared, Shrinks
<1>5. pc'[r] \notin AfterBegin  BY <1>2 DEF AfterBegin, AfterRecheck, HoldPcs
<1>6. WorkInv(r)'  BY <1>2, <1>4, <1>5, Places DEF WorkInv, Forgotten
<1>7. EndInv(r)'  BY <1>2, <1>5, Places DEF EndInv, AfterRegistrar, CloudflarePcs
<1> QED BY <1>1, <1>2, <1>3, <1>6, <1>7, Alone DEF RunnerInv

\* What was recorded may be emptied again, by a runner that read neither the record nor the
\* metadata: then the metadata is gone.
LEMMA BeginInv ==
  ASSUME IndInv, TypeOK', NEW r \in Runners, Begin(r) PROVE IndInv'
<1>0. TypeOK  BY DEF IndInv
<1>1. /\ pc[r] = "begin" /\ pc'[r] = "reload" /\ snap'[r] = snap[r] /\ OnlyMoves(r)
      /\ row'.stamps = row.stamps \cup {"started"}
      /\ row'.kept = Kept(snap[r].kept, seen[r])
      /\ UNCHANGED <<bought, hosting, services, time, history>>
  BY <1>0 DEF Begin, At, Move, TypeOK, Rows, OnlyMoves, Rests, around, history
<1>2. /\ Announced /\ snap[r].kept \in {"unknown", Truth}
      /\ seen[r] = "none" => Forgotten
  BY <1>1, Places DEF IndInv, RunnerInv, WorkInv, SnapInv
<1>3. row'.kept = Truth \/ (row'.kept = "unknown" /\ Forgotten)
  <2>1. CASE snap[r].kept = Truth  BY <1>1, <2>1 DEF Kept, Truth
  <2>2. CASE snap[r].kept = "unknown" /\ seen[r] = "none"  BY <1>1, <1>2, <2>2 DEF Kept
  <2>3. CASE snap[r].kept = "unknown" /\ seen[r] # "none"  BY <1>1, <2>3 DEF Kept, Truth
  <2> QED BY <1>2, <2>1, <2>2, <2>3
<1>4. UNCHANGED <<Forgotten, DataGone, Released, Unzoned, Truth, paying>>
  BY <1>1 DEF Forgotten, DataGone, Released, Unzoned, Truth, hosting, services, history
<1>5. /\ \A s \in {"due", "tracked", "warned", "requested", "unbilled", "deleted", "released",
                   "unzoned", "finalized"} : Has(row, s)' <=> Has(row, s)
      /\ Has(row, "started")'
      /\ {"deleted", "released", "unzoned"} \subseteq row.stamps
           => {"deleted", "released", "unzoned"} \subseteq row'.stamps
  BY <1>1 DEF Has
<1>6. Announced'  BY <1>1, <1>2, <1>5 DEF Announced, time
<1>7. Shrinks  BY <1>1, <1>4, <1>6 DEF Shrinks, hosting, services
<1>8. RowInv'
  <2>1. Has(row, "tracked")  BY <1>2 DEF IndInv, RowInv, Announced, Has
  <2> QED BY <1>1, <1>3, <1>4, <1>5, <1>6, <2>1 DEF IndInv, RowInv, time
<1>9. WorldInv'
  BY <1>1, <1>4, <1>5 DEF IndInv, WorldInv, Touched, BillingFirst, hosting, services
<1>10. SnapInv(r)'  BY <1>1, <1>7, SnapStays DEF IndInv, RunnerInv
<1>11. pc'[r] \notin AfterReload  BY <1>1 DEF AfterReload, AfterBegin, AfterRecheck, HoldPcs
<1>12. WorkInv(r)'  BY <1>1, <1>5, <1>6, <1>11, Places DEF WorkInv
<1>13. EndInv(r)'  BY <1>1, <1>11, Places DEF EndInv, AfterRegistrar, CloudflarePcs
<1> QED BY <1>1, <1>7, <1>8, <1>9, <1>10, <1>12, <1>13, Alone DEF Shared, RunnerInv

\* What a runner that knows the row carries with it to its next step.
LEMMA Carries ==
  ASSUME IndInv, Shrinks, NEW r \in Runners, pc[r] \in AfterReload, snap'[r] = snap[r]
  PROVE  /\ Has(row, "started") /\ (snap[r].kept = Truth \/ Forgotten)
         /\ SnapInv(r)' /\ Announced' /\ Has(row, "started")'
         /\ (snap[r].kept = Truth \/ Forgotten)'
<1>1. /\ SnapInv(r) /\ Announced /\ Has(row, "started")
      /\ (snap[r].kept = Truth \/ Forgotten)
  BY Places DEF IndInv, RunnerInv, WorkInv
<1>2. SnapInv(r)'  BY <1>1, SnapStays
<1> QED BY <1>1, <1>2 DEF Shrinks, Has, Truth

\* Before the data are gone nothing is said of Cloudflare's part.
LEMMA NotYet ==
  ASSUME NEW r \in Runners, pc'[r] \notin AfterStamp PROVE EndInv(r)'
BY Places DEF EndInv, AfterRegistrar, CloudflarePcs

LEMMA BillingInv ==
  ASSUME IndInv, TypeOK', NEW r \in Runners, CancelBilling(r) PROVE IndInv'
<1>0. TypeOK  BY DEF IndInv
<1>1. /\ pc[r] = "billing" /\ pc'[r] \in {"record", "list"}
      /\ snap'[r] = snap[r] /\ OnlyMoves(r)
      /\ UNCHANGED <<bought, hosting, renews, registered, zone, row, time, history>>
  BY <1>0 DEF CancelBilling, At, Move, TypeOK, OnlyMoves, Rests, around, history
<1>2. /\ Has(row, "started") /\ SnapInv(r)
      /\ (snap[r].kept = Truth \/ Forgotten)
  BY <1>1, Places DEF IndInv, RunnerInv, WorkInv
<1>3. ~paying'
  <2>1. CASE NeedsCancel(r)  BY <2>1 DEF CancelBilling
  <2>2. CASE ~NeedsCancel(r)
    <3>1. Has(snap[r], "unbilled") => ~paying
      BY <1>2 DEF SnapInv, IndInv, RowInv, Has
    <3>2. snap[r].kept # "ours" => ~paying
      BY <1>2 DEF IndInv, WorldInv, Truth
    <3> QED BY <2>2, <3>1, <3>2 DEF CancelBilling, NeedsCancel
  <2> QED BY <2>1, <2>2
<1>4. UNCHANGED <<Forgotten, Released, Unzoned, Announced>>
  BY <1>1 DEF Forgotten, Released, Unzoned, Announced, Has, hosting, time, history
<1>5. Shrinks  BY <1>1, <1>3, <1>4 DEF Shrinks, hosting
<1>6. RowInv'  BY <1>1, <1>5, RowStays DEF IndInv
<1>7. WorldInv'
  BY <1>1, <1>2, <1>3, <1>4 DEF IndInv, WorldInv, Touched, BillingFirst, Has, hosting
<1>8. /\ SnapInv(r)' /\ Announced' /\ Has(row, "started")'
      /\ (snap[r].kept = Truth \/ Forgotten)'
  BY <1>1, <1>5, Carries, Places
<1>9. pc'[r] \notin AfterPurge
  BY <1>1 DEF AfterPurge, AfterBilling, AfterReload, AfterBegin, AfterRecheck, HoldPcs
<1>10. WorkInv(r)'  BY <1>1, <1>3, <1>8, <1>9, Places DEF WorkInv
<1>11. EndInv(r)'  BY <1>9, NotYet, Places
<1> QED BY <1>1, <1>5, <1>6, <1>7, <1>8, <1>10, <1>11, Alone DEF Shared, RunnerInv

LEMMA CancelledInv ==
  ASSUME IndInv, TypeOK', NEW r \in Runners, RecordCancelled(r) PROVE IndInv'
<1>0. TypeOK  BY DEF IndInv
<1>1. /\ pc[r] = "record" /\ pc'[r] = "list" /\ snap'[r] = snap[r] /\ OnlyMoves(r)
      /\ UNCHANGED <<bought, hosting, services, time, history>>
      /\ row'.stamps = row.stamps \cup {"unbilled"} /\ row'.kept = row.kept
  BY <1>0 DEF RecordCancelled, At, Move, TypeOK, OnlyMoves, Rests, Stamp, Rows, around, history
<1>2. Has(row, "started") /\ ~paying
  BY <1>1, Places DEF IndInv, RunnerInv, WorkInv
<1>3. Shared  BY <1>1, <1>2, StampShared
<1>4. /\ SnapInv(r)' /\ Announced' /\ Has(row, "started")'
      /\ (snap[r].kept = Truth \/ Forgotten)'
  BY <1>1, <1>3, Carries, Places DEF Shared
<1>5. pc'[r] \notin AfterPurge
  BY <1>1 DEF AfterPurge, AfterBilling, AfterReload, AfterBegin, AfterRecheck, HoldPcs
<1>6. WorkInv(r)'
  BY <1>1, <1>2, <1>4, <1>5, Places DEF WorkInv, services
<1>7. EndInv(r)'  BY <1>5, NotYet, Places
<1> QED BY <1>1, <1>3, <1>4, <1>6, <1>7, Alone DEF RunnerInv

LEMMA MailboxInv ==
  ASSUME IndInv, TypeOK', NEW r \in Runners,
         ListMailboxes(r) \/ PurgeMailbox(r) \/ MailboxesPurged(r)
  PROVE  IndInv'
<1>0. TypeOK  BY DEF IndInv
<1>1. CASE ListMailboxes(r)
  <2>1. /\ pc[r] = "list" /\ pc'[r] = "purge" /\ snap'[r] = snap[r] /\ OnlyMoves(r)
        /\ todo'[r] = mailboxes /\ mailboxes' = mailboxes
    BY <1>0, <1>1 DEF ListMailboxes, At, Move, TypeOK, OnlyMoves, Rests, hosting
  <2>2. Shared  BY <1>1, Quiet DEF ListMailboxes, around, history
  <2>3. /\ SnapInv(r)' /\ Announced' /\ Has(row, "started")' /\ ~paying
        /\ (snap[r].kept = Truth \/ Forgotten)'
    BY <2>1, <2>2, Carries, Places DEF Shared, IndInv, RunnerInv, WorkInv
  <2>4. pc'[r] \notin AfterPurge
    BY <2>1 DEF AfterPurge, AfterBilling, AfterReload, AfterBegin, AfterRecheck, HoldPcs
  <2>5. WorkInv(r)'
    BY <2>1, <2>2, <2>3, <2>4, Places DEF WorkInv, Shared, Shrinks
  <2> QED BY <2>1, <2>2, <2>3, <2>4, <2>5, NotYet, Places, Alone DEF RunnerInv
<1>2. CASE PurgeMailbox(r)
  <2>1. /\ pc[r] = "purge" /\ pc' = pc /\ snap' = snap /\ OnlyMoves(r)
        /\ UNCHANGED <<bought, d1, meta, customer, aliases, services, row, time, history>>
    BY <1>0, <1>2 DEF PurgeMailbox, At, TypeOK, OnlyMoves, Rests, around, history
  <2>2. PICK m \in todo[r] : mailboxes' = mailboxes \ {m} /\ todo'[r] = todo[r] \ {m}
    BY <1>0, <1>2 DEF PurgeMailbox, TypeOK
  <2>3. Has(row, "started") /\ ~paying /\ mailboxes \subseteq todo[r]
    BY <2>1, Places DEF IndInv, RunnerInv, WorkInv
  <2>4. UNCHANGED <<Forgotten, Released, Unzoned, Announced>>
    BY <2>1 DEF Forgotten, Released, Unzoned, Announced, Has, services, time, history
  <2>5. Shrinks  BY <2>1, <2>2, <2>4 DEF Shrinks, services
  <2>6. RowInv'  BY <2>1, <2>5, RowStays DEF IndInv
  <2>7. WorldInv'
    BY <2>1, <2>2, <2>3, <2>4 DEF IndInv, WorldInv, Touched, BillingFirst, Has, services
  <2>8. /\ SnapInv(r)' /\ Announced' /\ Has(row, "started")'
        /\ (snap[r].kept = Truth \/ Forgotten)'
    BY <2>1, <2>5, Carries, Places
  <2>9. pc'[r] \notin AfterPurge
    BY <2>1 DEF AfterPurge, AfterBilling, AfterReload, AfterBegin, AfterRecheck, HoldPcs
  <2>10. ~paying'  BY <2>3, <2>5 DEF Shrinks
  <2>11. (mailboxes \subseteq todo[r])'  BY <2>2, <2>3
  <2>12. WorkInv(r)'  BY <2>1, <2>8, <2>9, <2>10, <2>11, Places DEF WorkInv
  <2> QED BY <2>1, <2>5, <2>6, <2>7, <2>8, <2>9, <2>12, NotYet, Places, Alone
          DEF RunnerInv, Shared
<1>3. CASE MailboxesPurged(r)
  <2>1. /\ pc[r] = "purge" /\ pc'[r] = "aliases" /\ snap'[r] = snap[r] /\ OnlyMoves(r)
        /\ todo[r] = {} /\ mailboxes' = mailboxes
    BY <1>0, <1>3 DEF MailboxesPurged, At, Move, TypeOK, OnlyMoves, Rests, hosting
  <2>2. Shared  BY <1>3, Quiet DEF MailboxesPurged, around, history
  <2>3. ~paying /\ mailboxes = {}  BY <2>1, Places DEF IndInv, RunnerInv, WorkInv
  <2>4. /\ SnapInv(r)' /\ Announced' /\ Has(row, "started")' /\ ~paying'
        /\ (snap[r].kept = Truth \/ Forgotten)'
    BY <2>1, <2>2, <2>3, Carries, Places DEF Shared, Shrinks
  <2>5. pc'[r] \notin AfterAliases
    BY <2>1 DEF AfterAliases, AfterPurge, AfterBilling, AfterReload, AfterBegin, AfterRecheck,
                HoldPcs
  <2>6. WorkInv(r)'  BY <2>1, <2>3, <2>4, <2>5, Places DEF WorkInv
  <2> QED BY <2>1, <2>2, <2>4, <2>5, <2>6, NotYet, Places, Alone DEF RunnerInv
<1> QED BY <1>1, <1>2, <1>3

\* The aliases are listed by the metadata, the lookup is found by the record: either is gone
\* with what it stands for.
LEMMA RegistryInv ==
  ASSUME IndInv, TypeOK', NEW r \in Runners,
         DeleteAliases(r) \/ DeleteCustomer(r) \/ DeleteMetadata(r) \/ DeleteDomainRow(r)
  PROVE  IndInv'
<1>0. TypeOK  BY DEF IndInv
<1>1. pc[r] \in {"aliases", "unlist", "forget", "drop"}
  BY DEF DeleteAliases, DeleteCustomer, DeleteMetadata, DeleteDomainRow, At
<1>2. /\ Has(row, "started") /\ Announced /\ (snap[r].kept = Truth \/ Forgotten)
      /\ ~paying /\ mailboxes = {}
      /\ pc[r] # "aliases" => ~aliases
      /\ pc[r] \in {"forget", "drop"} => ~customer
      /\ pc[r] = "drop" => Forgotten
  BY <1>1, Places DEF IndInv, RunnerInv, WorkInv
<1>3. /\ UNCHANGED <<bought, mailboxes, services, row, time, history>>
      /\ snap'[r] = snap[r] /\ OnlyMoves(r)
  BY <1>0 DEF DeleteAliases, DeleteCustomer, DeleteMetadata, DeleteDomainRow, TypeOK, OnlyMoves,
              Rests, Move, around, history
<1>4. \/ /\ pc[r] = "aliases" /\ pc'[r] = "unlist" /\ ~aliases'
         /\ UNCHANGED <<d1, meta, customer>>
      \/ /\ pc[r] = "unlist" /\ pc'[r] = "forget" /\ ~customer'
         /\ UNCHANGED <<d1, meta, aliases>>
      \/ /\ pc[r] = "forget" /\ pc'[r] = "drop" /\ meta' = "none"
         /\ UNCHANGED <<d1, customer, aliases>>
      \/ /\ pc[r] = "drop" /\ pc'[r] = "stamp" /\ d1' = "none"
         /\ UNCHANGED <<meta, customer, aliases>>
  <2>1. CASE DeleteAliases(r)
    <3>1. ~aliases'  BY <2>1 DEF DeleteAliases, IndInv, WorldInv, Forgotten
    <3> QED BY <1>0, <2>1, <3>1 DEF DeleteAliases, At, Move, TypeOK
  <2>2. CASE DeleteCustomer(r)
    <3>1. snap[r].kept # "ours" => ~customer
      BY <1>2 DEF IndInv, WorldInv, Truth
    <3>2. ~customer'  BY <2>2, <3>1 DEF DeleteCustomer
    <3> QED BY <1>0, <2>2, <3>2 DEF DeleteCustomer, At, Move, TypeOK
  <2>3. CASE DeleteMetadata(r)  BY <1>0, <2>3 DEF DeleteMetadata, At, Move, TypeOK
  <2>4. CASE DeleteDomainRow(r)  BY <1>0, <2>4 DEF DeleteDomainRow, At, Move, TypeOK
  <2> QED BY <2>1, <2>2, <2>3, <2>4
<1>5. /\ Forgotten => Forgotten'
      /\ pc[r] \notin {"forget"} => (Forgotten' => Forgotten)
      /\ pc[r] = "forget" => Forgotten'
      /\ UNCHANGED <<Released, Unzoned, Announced>>
  BY <1>3, <1>4 DEF Forgotten, Released, Unzoned, Announced, Has, services, time, history
<1>6. Shrinks  BY <1>3, <1>4, <1>5 DEF Shrinks, services
<1>7. RowInv'  BY <1>3, <1>6, RowStays DEF IndInv
<1>8. WorldInv'
  <2>1. (Forgotten => mailboxes = {} /\ ~aliases /\ ~customer /\ ~paying)'
    BY <1>2, <1>3, <1>4, <1>5 DEF IndInv, WorldInv, services
  <2>2. (~bought => ~customer /\ ~paying /\ ~renews /\ ~registered)'
    BY <1>3, <1>4 DEF IndInv, WorldInv, services
  <2>3. Has(row, "started")' /\ ~paying'  BY <1>2, <1>3 DEF Has, services
  <2> QED BY <2>1, <2>2, <2>3 DEF WorldInv, BillingFirst
<1>9. /\ SnapInv(r)' /\ Announced' /\ Has(row, "started")' /\ (snap[r].kept = Truth \/ Forgotten)'
      /\ ~paying' /\ mailboxes' = {}
  BY <1>1, <1>2, <1>3, <1>6, Carries, Places DEF services
<1>10. pc'[r] \notin AfterStamp
  BY <1>4 DEF AfterStamp, AfterDrop, AfterForget, AfterUnlist, AfterAliases, AfterPurge,
              AfterBilling, AfterReload, AfterBegin, AfterRecheck, HoldPcs
<1>11. WorkInv(r)'
  <2>1. CASE pc[r] = "aliases"
    BY <1>4, <1>9, <2>1, <1>10, Places DEF WorkInv
  <2>2. CASE pc[r] = "unlist"
    BY <1>2, <1>4, <1>9, <2>2, <1>10, Places DEF WorkInv
  <2>3. CASE pc[r] = "forget"
    BY <1>2, <1>4, <1>5, <1>9, <2>3, <1>10, Places DEF WorkInv
  <2>4. CASE pc[r] = "drop"
    BY <1>2, <1>4, <1>5, <1>9, <2>4, <1>10, Places DEF WorkInv
  <2> QED BY <1>1, <2>1, <2>2, <2>3, <2>4
<1>12. EndInv(r)'  BY <1>10, NotYet
<1> QED BY <1>3, <1>6, <1>7, <1>8, <1>9, <1>11, <1>12, Alone DEF Shared, RunnerInv

LEMMA StampInv ==
  ASSUME IndInv, TypeOK', NEW r \in Runners, StampDeleted(r) PROVE IndInv'
<1>0. TypeOK  BY DEF IndInv
<1>1. /\ pc[r] = "stamp" /\ pc'[r] = "resume" /\ snap'[r] = snap[r] /\ OnlyMoves(r)
      /\ UNCHANGED <<bought, hosting, services, time, history>>
      /\ row'.stamps = row.stamps \cup {"deleted"} /\ row'.kept = row.kept
  BY <1>0 DEF StampDeleted, At, Move, TypeOK, OnlyMoves, Rests, Stamp, Rows, around, history
<1>2. Has(row, "started") /\ DataGone
  BY <1>1, Places DEF DataGone, IndInv, RunnerInv, WorkInv
<1>3. Shared  BY <1>1, <1>2, StampShared
<1>4. /\ SnapInv(r)' /\ Announced' /\ Has(row, "started")' /\ (snap[r].kept = Truth \/ Forgotten)'
  BY <1>1, <1>3, Carries, Places DEF Shared
<1>5. DataGone' /\ Has(row, "deleted")'
  BY <1>1, <1>2, <1>3 DEF DataGone, Shared, Shrinks, Has, services
<1>6. WorkInv(r)'  BY <1>1, <1>4, <1>5 DEF WorkInv, DataGone
<1>7. EndInv(r)'  BY <1>1, <1>5 DEF EndInv, AfterRegistrar
<1> QED BY <1>1, <1>3, <1>4, <1>6, <1>7, Alone DEF RunnerInv

-----------------------------------------------------------------------------
(* Cloudflare's part.                                                      *)

\* In Cloudflare's part the data are gone and stay so.
LEMMA CloudflareKnown ==
  ASSUME IndInv, NEW r \in Runners, pc[r] \in CloudflarePcs \cup {"finish"}
  PROVE  /\ Has(row, "started") /\ Has(row, "deleted") /\ DataGone /\ Forgotten
         /\ SnapInv(r) /\ pc[r] \in AfterReload
<1>1. pc[r] \in AfterStamp /\ pc[r] \in AfterReload  BY Places
<1>2. Has(row, "deleted") /\ SnapInv(r)  BY <1>1 DEF IndInv, RunnerInv, EndInv
<1> QED BY <1>1, <1>2, EndKnown

LEMMA CloudflareRunner ==
  ASSUME IndInv, Shrinks, NEW r \in Runners, pc[r] \in CloudflarePcs \cup {"finish"},
         snap'[r] = snap[r], pc'[r] \in CloudflarePcs \cup {"finish"}, EndInv(r)'
  PROVE  RunnerInv(r)'
<1>1. DataGone /\ pc[r] \in AfterReload  BY CloudflareKnown
<1>2. DataGone'  BY <1>1 DEF DataGone, Shrinks
<1>3. /\ SnapInv(r)' /\ Announced' /\ Has(row, "started")' /\ (snap[r].kept = Truth \/ Forgotten)'
  BY <1>1, Carries
<1>4. pc'[r] \notin {"begin", "purge"}  BY DEF CloudflarePcs
<1>5. WorkInv(r)'  BY <1>2, <1>3, <1>4 DEF WorkInv, DataGone
<1> QED BY <1>3, <1>5 DEF RunnerInv

\* A step that only says to the registrar, the zone or the operators what they shall do.
LEMMA ReleaseShared ==
  ASSUME IndInv, Has(row, "started"), UNCHANGED <<bought, hosting, paying, registered, row, time>>,
         UNCHANGED <<late, rearmed>>, told \subseteq told', renews' => renews, zone' => zone
  PROVE  Shared
<1>1. UNCHANGED <<Forgotten, Announced>>  BY DEF Forgotten, Announced, Has, hosting, time
<1>2. (Released => Released') /\ (Unzoned => Unzoned')  BY DEF Released, Unzoned
<1>3. Shrinks  BY <1>1, <1>2 DEF Shrinks, hosting
<1>4. RowInv'  BY <1>3, RowStays DEF IndInv
<1>5. WorldInv'
  BY <1>1 DEF IndInv, WorldInv, Touched, BillingFirst, Has, hosting
<1> QED BY <1>3, <1>4, <1>5 DEF Shared

LEMMA RegistrarInv ==
  ASSUME IndInv, TypeOK', NEW r \in Runners, ReleaseRegistrar(r) PROVE IndInv'
<1>0. TypeOK  BY DEF IndInv
<1>1. /\ pc[r] = "registrar" /\ pc'[r] \in {"zone", "record released"} /\ snap'[r] = snap[r]
      /\ OnlyMoves(r) /\ UNCHANGED <<bought, hosting, paying, registered, row, time, late, rearmed>>
      /\ zone' = zone /\ told \subseteq told'
  BY <1>0 DEF ReleaseRegistrar, At, Move, TypeOK, OnlyMoves, Rests
<1>2. Has(row, "started") /\ Has(row, "deleted") /\ SnapInv(r)
  BY <1>1, CloudflareKnown DEF CloudflarePcs
<1>3. renews' => renews
  <2>1. CASE Has(snap[r], "released")  BY <2>1 DEF ReleaseRegistrar
  <2>2. CASE ~Has(snap[r], "released")  BY <2>2 DEF ReleaseRegistrar
  <2> QED BY <2>1, <2>2
<1>4. Shared  BY <1>1, <1>2, <1>3, ReleaseShared
<1>5. EndInv(r)'
  <2>1. CASE Has(snap[r], "released")
    <3>1. pc'[r] = "zone"  BY <1>0, <2>1 DEF ReleaseRegistrar, Move, TypeOK
    <3>2. Has(row, "released")  BY <1>2, <2>1 DEF SnapInv, Has
    <3> QED BY <1>1, <1>2, <3>1, <3>2 DEF EndInv, Has
  <2>2. CASE ~Has(snap[r], "released")
    <3>1. pc'[r] = "record released"  BY <1>0, <2>2 DEF ReleaseRegistrar, Move, TypeOK
    <3>2. Released'
      <4>1. CASE snap[r].kept = "unknown"  BY <2>2, <4>1 DEF ReleaseRegistrar, Released
      <4>2. CASE snap[r].kept = "ours"  BY <2>2, <4>2 DEF ReleaseRegistrar, Released
      <4>3. CASE snap[r].kept \notin {"unknown", "ours"}
        <5>1. ~renews  BY <1>2, <4>3 DEF SnapInv, Truth, IndInv, WorldInv
        <5> QED BY <1>3, <5>1 DEF Released
      <4> QED BY <4>1, <4>2, <4>3
    <3> QED BY <1>1, <1>2, <3>1, <3>2 DEF EndInv, Has, AfterRegistrar
  <2> QED BY <2>1, <2>2
<1>6. RunnerInv(r)'  BY <1>1, <1>4, <1>5, CloudflareRunner DEF Shared, CloudflarePcs
<1> QED BY <1>1, <1>4, <1>6, Alone

LEMMA ReleasedInv ==
  ASSUME IndInv, TypeOK', NEW r \in Runners, RecordReleased(r) PROVE IndInv'
<1>0. TypeOK  BY DEF IndInv
<1>1. /\ pc[r] = "record released" /\ pc'[r] = "zone" /\ snap'[r] = snap[r] /\ OnlyMoves(r)
      /\ UNCHANGED <<bought, hosting, services, time, history>>
      /\ row'.stamps = row.stamps \cup {"released"} /\ row'.kept = row.kept
  BY <1>0 DEF RecordReleased, At, Move, TypeOK, OnlyMoves, Rests, Stamp, Rows, around, history
<1>2. Has(row, "started") /\ Has(row, "deleted") /\ Released
  BY <1>1, CloudflareKnown DEF CloudflarePcs, IndInv, RunnerInv, EndInv
<1>3. Shared  BY <1>1, <1>2, StampShared
<1>4. EndInv(r)'  BY <1>1, <1>2 DEF EndInv, Has
<1>5. RunnerInv(r)'  BY <1>1, <1>3, <1>4, CloudflareRunner DEF Shared, CloudflarePcs
<1> QED BY <1>1, <1>3, <1>5, Alone

LEMMA ChooseInv ==
  ASSUME IndInv, TypeOK', NEW r \in Runners, ChooseZone(r) PROVE IndInv'
<1>0. TypeOK  BY DEF IndInv
<1>1. Shared  BY Quiet DEF ChooseZone, around, history
<1>2. /\ pc[r] = "zone" /\ pc'[r] \in {"defer", "unzone", "finish"} /\ snap'[r] = snap[r]
      /\ row' = row
  BY <1>0 DEF ChooseZone, At, Move, TypeOK
<1>3. OnlyMoves(r)
  <2>1. \A s \in Runners \ {r} : outcome'[s] = outcome[s]  BY <1>0 DEF ChooseZone, TypeOK
  <2> QED BY <1>0, <2>1 DEF ChooseZone, TypeOK, OnlyMoves, Rests, Move
<1>4. Has(row, "deleted") /\ SnapInv(r)  BY <1>2, CloudflareKnown DEF CloudflarePcs
<1>5. outcome[r] = "done" => Has(row, "released")
  BY <1>2 DEF IndInv, RunnerInv, EndInv, AfterRegistrar
<1>6. /\ outcome'[r] = "done" => outcome[r] = "done"
      /\ pc'[r] = "finish" /\ outcome'[r] = "done" => Has(snap[r], "unzoned")
  BY <1>0 DEF ChooseZone, ZoneLeft, TypeOK, Move
<1>7. EndInv(r)'
  BY <1>2, <1>4, <1>5, <1>6 DEF EndInv, SnapInv, Has, AfterRegistrar
<1>8. RunnerInv(r)'  BY <1>1, <1>2, <1>7, CloudflareRunner DEF Shared, CloudflarePcs
<1> QED BY <1>1, <1>3, <1>8, Alone

LEMMA ZoneInv ==
  ASSUME IndInv, TypeOK', NEW r \in Runners, DeferZone(r) \/ DeleteZone(r) \/ RecordUnzoned(r)
  PROVE  IndInv'
<1>0. TypeOK  BY DEF IndInv
<1>1. CASE DeferZone(r)
  <2>1. /\ pc[r] = "defer" /\ pc'[r] = "finish" /\ snap'[r] = snap[r] /\ outcome'[r] = "later"
        /\ UNCHANGED <<bought, hosting, services, time, history>>
        /\ row'.stamps = row.stamps /\ row'.kept = row.kept
    BY <1>0, <1>1 DEF DeferZone, At, Move, TypeOK, Rows, around, history
  <2>2. OnlyMoves(r)  BY <1>0, <1>1 DEF DeferZone, Move, TypeOK, OnlyMoves, Rests
  <2>3. Shared  BY <2>1, SameStamps
  <2>4. Has(row, "deleted")  BY <2>1, CloudflareKnown DEF CloudflarePcs
  <2>5. EndInv(r)'  BY <2>1, <2>4 DEF EndInv, Has
  <2>6. RunnerInv(r)'  BY <2>1, <2>3, <2>5, CloudflareRunner DEF Shared, CloudflarePcs
  <2> QED BY <2>2, <2>3, <2>6, Alone
<1>2. CASE DeleteZone(r)
  <2>1. /\ pc[r] = "unzone" /\ pc'[r] = "record unzoned" /\ snap'[r] = snap[r]
        /\ outcome'[r] = outcome[r] /\ OnlyMoves(r)
        /\ UNCHANGED <<bought, hosting, paying, registered, row, time, late, rearmed>>
        /\ renews' = renews /\ told \subseteq told'
    BY <1>0, <1>2 DEF DeleteZone, At, Move, TypeOK, OnlyMoves, Rests
  <2>2. Has(row, "started") /\ Has(row, "deleted")
    BY <2>1, CloudflareKnown DEF CloudflarePcs
  <2>3. (zone' => zone) /\ Unzoned'
    <3>1. CASE snap[r].kept = "unknown"  BY <1>2, <3>1 DEF DeleteZone, Unzoned
    <3>2. CASE snap[r].kept # "unknown"  BY <1>2, <3>2 DEF DeleteZone, Unzoned
    <3> QED BY <3>1, <3>2
  <2>4. Shared  BY <2>1, <2>2, <2>3, ReleaseShared
  <2>5. outcome[r] = "done" => Has(row, "released")
    BY <2>1 DEF IndInv, RunnerInv, EndInv, AfterRegistrar
  <2>6. EndInv(r)'  BY <2>1, <2>2, <2>3, <2>5 DEF EndInv, Has
  <2>7. RunnerInv(r)'  BY <2>1, <2>4, <2>6, CloudflareRunner DEF Shared, CloudflarePcs
  <2> QED BY <2>1, <2>4, <2>7, Alone
<1>3. CASE RecordUnzoned(r)
  <2>1. /\ pc[r] = "record unzoned" /\ pc'[r] = "finish" /\ snap'[r] = snap[r] /\ OnlyMoves(r)
        /\ UNCHANGED <<bought, hosting, services, time, history>> /\ outcome'[r] = outcome[r]
        /\ row'.stamps = row.stamps \cup {"unzoned"} /\ row'.kept = row.kept
    BY <1>0, <1>3 DEF RecordUnzoned, At, Move, TypeOK, OnlyMoves, Rests, Stamp, Rows, around,
                      history
  <2>2. Has(row, "started") /\ Has(row, "deleted") /\ Unzoned
    BY <2>1, CloudflareKnown DEF CloudflarePcs, IndInv, RunnerInv, EndInv
  <2>3. Shared  BY <2>1, <2>2, StampShared
  <2>4. outcome[r] = "done" => Has(row, "released")
    BY <2>1 DEF IndInv, RunnerInv, EndInv, AfterRegistrar
  <2>5. EndInv(r)'  BY <2>1, <2>2, <2>4 DEF EndInv, Has
  <2>6. RunnerInv(r)'  BY <2>1, <2>3, <2>5, CloudflareRunner DEF Shared, CloudflarePcs
  <2> QED BY <2>1, <2>3, <2>6, Alone
<1> QED BY <1>1, <1>2, <1>3

LEMMA FinishInv ==
  ASSUME IndInv, TypeOK', NEW r \in Runners, Finish(r) PROVE IndInv'
<1>0. TypeOK  BY DEF IndInv
<1>1. /\ Ends(r) /\ pc[r] = "finish"
      /\ UNCHANGED <<bought, hosting, services, time, history>>
  BY DEF Finish, At, around, history
<1>2. /\ row'.stamps = (row.stamps \ {"lease"}) \cup
                         (IF outcome[r] = "done" THEN {"finalized"} ELSE {})
      /\ row'.kept = row.kept
  BY <1>0 DEF Finish, TypeOK, Rows
<1>3. /\ Has(row, "started") /\ Has(row, "deleted")
      /\ outcome[r] = "done" => {"deleted", "released", "unzoned"} \subseteq row.stamps
  BY <1>1, CloudflareKnown DEF IndInv, RunnerInv, EndInv, AfterRegistrar, Has
<1>4. CASE outcome[r] # "done"
  <2>1. row'.stamps \ {"lease"} = row.stamps \ {"lease"}  BY <1>2, <1>4
  <2>2. Shared  BY <1>1, <1>2, <2>1, SameStamps
  <2> QED BY <1>1, <2>2, EndsOutside, Alone DEF Shared
<1>5. CASE outcome[r] = "done"
  <2>1. \A s \in {"due", "tracked", "warned", "requested", "started", "unbilled", "deleted",
                  "released", "unzoned"} : Has(row, s)' <=> Has(row, s)
    BY <1>2 DEF Has
  <2>2. UNCHANGED <<Forgotten, DataGone, Released, Unzoned, Truth, paying>>
    BY <1>1 DEF Forgotten, DataGone, Released, Unzoned, Truth, hosting, services, history
  <2>3. Announced' <=> Announced  BY <1>1, <2>1 DEF Announced, time
  <2>4. Shrinks  BY <1>1, <1>2, <2>2, <2>3 DEF Shrinks, hosting, services
  <2>5. RowInv'
    <3>1. Has(row, "tracked")  BY <1>3 DEF IndInv, RowInv, Has
    <3>2. {"deleted", "released", "unzoned"} \subseteq row'.stamps  BY <1>2, <1>3, <1>5
    <3> QED BY <1>1, <1>2, <2>1, <2>2, <2>3, <3>1, <3>2 DEF IndInv, RowInv, time
  <2>6. WorldInv'
    BY <1>1, <2>1, <2>2 DEF IndInv, WorldInv, Touched, BillingFirst, hosting, services
  <2> QED BY <1>1, <2>4, <2>5, <2>6, EndsOutside, Alone DEF Shared
<1> QED BY <1>4, <1>5

-----------------------------------------------------------------------------
(* Failures and surroundings.                                              *)

LEMMA FailuresInv ==
  ASSUME IndInv, TypeOK', Failures PROVE IndInv'
<1>0. TypeOK  BY DEF IndInv
<1>1. CASE LeaseLapses
  <2>1. row'.stamps \ {"lease"} = row.stamps \ {"lease"} /\ row'.kept = row.kept
    BY <1>0, <1>1 DEF LeaseLapses, DropLease, TypeOK, Rows
  <2>2. Shared  BY <1>1, <2>1, SameStamps DEF LeaseLapses, around, history
  <2> QED BY <1>1, <2>2, Nobody DEF LeaseLapses
<1>2. ASSUME NEW r \in Runners, CloudflareFails(r) PROVE IndInv'
  <2>1. Shared  BY <1>2, Quiet DEF CloudflareFails, around, history
  <2>2. /\ pc[r] \in CloudflarePcs /\ pc'[r] \in {"zone", "finish"}
        /\ snap'[r] = snap[r] /\ outcome'[r] = "later" /\ row' = row
    BY <1>0, <1>2 DEF CloudflareFails, RegistrarFails, ZoneFails, TypeOK, At, Move, CloudflarePcs
  <2>3. OnlyMoves(r)
    <3>1. \E there \in {"zone", "finish"} : Move(r, there)
      BY <1>2 DEF CloudflareFails, RegistrarFails, ZoneFails
    <3> QED BY <1>0, <1>2, <3>1 DEF CloudflareFails, TypeOK, OnlyMoves, Rests, Move
  <2>4. Has(row, "deleted")  BY <2>2, CloudflareKnown
  <2>5. EndInv(r)'  BY <2>2, <2>4 DEF EndInv
  <2>6. RunnerInv(r)'  BY <2>1, <2>2, <2>5, CloudflareRunner DEF Shared, CloudflarePcs
  <2> QED BY <2>1, <2>3, <2>6, Alone
<1>3. ASSUME NEW r \in Runners, StepThrows(r) PROVE IndInv'
  <2>1. row'.stamps \ {"lease"} = row.stamps \ {"lease"} /\ row'.kept = row.kept
    BY <1>0, <1>3 DEF StepThrows, DropLease, TypeOK, Rows
  <2>2. Shared  BY <1>3, <2>1, SameStamps DEF StepThrows, around, history
  <2> QED BY <1>3, <2>2, EndsOutside, Alone DEF StepThrows, Shared
<1>4. ASSUME NEW r \in Runners, Dies(r) PROVE IndInv'
  <2>1. Shared  BY <1>4, Quiet DEF Dies, around, history
  <2> QED BY <1>4, <2>1, EndsOutside, Alone DEF Dies, Shared
<1> QED BY <1>1, <1>2, <1>3, <1>4 DEF Failures

LEMMA DayShared == ASSUME IndInv, DayPasses PROVE Shared
<1>1. /\ UNCHANGED <<bought, hosting, services, row, history>>
      /\ left' = IF left > 0 THEN left - 1 ELSE 0
      /\ age' = IF age < Grace THEN age + 1 ELSE age
      /\ notice' = IF notice < Warning THEN notice + 1 ELSE notice
  BY DEF DayPasses, around, history
<1>2. /\ age = Grace => age' = Grace
      /\ notice = Warning => notice' = Warning
      /\ age + left >= Grace => age' + left' >= Grace
      /\ notice + left >= Warning => notice' + left' >= Warning
  BY <1>1, Periods DEF IndInv, TypeOK, AtLeast
<1>3. /\ UNCHANGED <<Forgotten, DataGone, Released, Unzoned, Truth>>
      /\ Announced => Announced'
  BY <1>1, <1>2 DEF Forgotten, DataGone, Released, Unzoned, Truth, Announced, Has, hosting,
                    services, history
<1>4. Shrinks  BY <1>1, <1>3 DEF Shrinks, hosting, services
<1>5. RowInv'
  BY <1>1, <1>2, <1>3 DEF IndInv, RowInv, Has, services
<1>6. WorldInv'
  BY <1>1, <1>3 DEF IndInv, WorldInv, Touched, BillingFirst, Has, hosting, services
<1> QED BY <1>4, <1>5, <1>6 DEF Shared

\* The one step that switches the renewal on again.
LEMMA RenewShared == ASSUME IndInv, NEW h \in Hooks, HookRenews(h) PROVE Shared
<1>1. /\ UNCHANGED <<bought, hosting, paying, registered, zone, row, time, late, told>>
      /\ renews' => renews \/ registered
      /\ rearmed' = (rearmed \/ (Forgotten /\ ~renews /\ renews'))
  BY DEF HookRenews
<1>2. UNCHANGED <<Forgotten, Unzoned, Announced>>
  BY <1>1 DEF Forgotten, Unzoned, Announced, Has, hosting, time
<1>3. Forgotten /\ Released => Released'  BY <1>1 DEF Released
<1>4. Shrinks  BY <1>1, <1>2, <1>3 DEF Shrinks, hosting
<1>5. RowInv'  BY <1>1, <1>4, RowStays DEF IndInv
<1>6. WorldInv'
  BY <1>1, <1>2 DEF IndInv, WorldInv, Touched, BillingFirst, Has, hosting
<1> QED BY <1>4, <1>5, <1>6 DEF Shared

LEMMA SurroundingsInv ==
  ASSUME IndInv, TypeOK', Surroundings PROVE IndInv'
<1>0. TypeOK  BY DEF IndInv
<1>1. CASE DayPasses  BY <1>1, DayShared, Nobody DEF DayPasses
<1>2. CASE ZoneDateComes
  <2>1. row'.stamps = row.stamps /\ row'.kept = row.kept
    BY <1>0, <1>2 DEF ZoneDateComes, TypeOK, Rows
  <2>2. Shared  BY <1>2, <2>1, SameStamps DEF ZoneDateComes, around, history
  <2> QED BY <1>2, <2>2, Nobody DEF ZoneDateComes
<1>3. CASE RegistrationEnds
  <2>1. /\ UNCHANGED <<bought, hosting, paying, renews, zone, row, time, history>>
        /\ ~registered'
    BY <1>3 DEF RegistrationEnds, around, history
  <2>2. UNCHANGED <<Forgotten, Released, Unzoned, Announced>>
    BY <2>1 DEF Forgotten, Released, Unzoned, Announced, Has, hosting, time, history
  <2>3. Shrinks  BY <2>1, <2>2 DEF Shrinks, hosting
  <2>4. RowInv'  BY <2>1, <2>3, RowStays DEF IndInv
  <2>5. WorldInv'
    BY <2>1, <2>2 DEF IndInv, WorldInv, Touched, BillingFirst, Has, hosting
  <2> QED BY <1>3, <2>3, <2>4, <2>5, Nobody DEF RegistrationEnds, Shared
<1>4. ASSUME NEW h \in Hooks, Delivery(h) PROVE IndInv'
  <2>1. CASE HookReads(h)  BY <2>1, Quiet, Nobody DEF HookReads
  <2>2. CASE HookRenews(h)  BY <2>2, RenewShared, Nobody DEF HookRenews
  <2>3. CASE HookWrites(h)
    <3>1. held[h] \in Statuses \ {"none"}  BY <1>0, <2>3 DEF HookWrites, TypeOK
    <3>2. Shared  BY <2>3, <3>1, StatusShared DEF HookWrites
    <3> QED BY <2>3, <3>2, Nobody DEF HookWrites
  <2>4. CASE HookEnds(h)  BY <2>4, Quiet, Nobody DEF HookEnds
  <2> QED BY <1>4, <2>1, <2>2, <2>3, <2>4 DEF Delivery
<1> QED BY <1>1, <1>2, <1>3, <1>4 DEF Surroundings

LEMMA InvStep == IndInv /\ [Next]_vars => IndInv'
<1> SUFFICES ASSUME IndInv, [Next]_vars PROVE IndInv'  OBVIOUS
<1>1. TypeOK'  BY TypeStep DEF IndInv
<1>2. CASE UNCHANGED vars
  <2>1. Shared  BY <1>2, Quiet DEF vars, around, history
  <2> QED BY <1>1, <1>2, <2>1, Nobody DEF vars
<1>3. ASSUME NEW r \in Runners, Work(r) PROVE IndInv'
  BY <1>1, <1>3, ReadInv, ClaimInv, MetadataInv, BeginInv, BillingInv, CancelledInv, MailboxInv,
     RegistryInv, StampInv, RegistrarInv, ReleasedInv, ChooseInv, ZoneInv, FinishInv DEF Work
<1>4. CASE Next
  BY <1>1, <1>3, <1>4, OwnerInv, HourlyInv, FailuresInv, SurroundingsInv DEF Next
<1> QED BY <1>2, <1>4

LEMMA AlwaysInv == Spec => []IndInv
<1> QED BY InitInv, InvStep, PTL DEF Spec

-----------------------------------------------------------------------------
\* Nothing of a domain is touched before its finalize was announced, however often runners
\* overtake each other and warnings come late (finalizeBlocker, sendFinalizeWarning).
THEOREM Noticed == Spec => []NothingUnannounced
<1>1. IndInv => NothingUnannounced  BY DEF IndInv, RowInv, WorldInv, NothingUnannounced
<1> QED BY AlwaysInv, <1>1, PTL

\* The subscription is cancelled before the first mailbox goes (finalizeDomainOffboarding's
\* steps 1 and 2), for any number of runners that overran their lease.
THEOREM BilledFirst == Spec => []BillingFirst
<1>1. IndInv => BillingFirst  BY DEF IndInv, WorldInv
<1> QED BY AlwaysInv, <1>1, PTL

\* A row that says finalized says so of a domain without mailboxes, aliases, lookup and
\* subscription, although runners that overran their lease may have emptied what was recorded:
\* where the renewal or the zone is left, the operators were told, or a delivery of Stripe
\* switched the renewal on after the metadata was gone (the stamps of
\* finalizeDomainOffboarding; setAutoRenewBestEffort).
THEOREM Gone == Spec => []FinishedMeansGone
<1>1. IndInv => FinishedMeansGone
  <2> SUFFICES ASSUME IndInv, Has(row, "finalized")
               PROVE  /\ mailboxes = {} /\ d1 = "none" /\ Forgotten /\ ~customer /\ ~aliases
                      /\ ~paying
                      /\ renews => "registration" \in told \/ rearmed
                      /\ zone => "zone" \in told
    BY DEF FinishedMeansGone
  <2>1. Has(row, "deleted") /\ Has(row, "released") /\ Has(row, "unzoned")
    BY DEF IndInv, RowInv, Has
  <2>2. DataGone /\ Released /\ Unzoned  BY <2>1 DEF IndInv, RowInv
  <2> QED BY <2>2 DEF DataGone, Released, Unzoned
<1> QED BY AlwaysInv, <1>1, PTL
=============================================================================
