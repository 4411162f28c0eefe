------------------------------ MODULE ExportJob ------------------------------
(***************************************************************************)
(* One export of a mailbox, or of a domain's mailboxes, to an archive in   *)
(* R2.  The route saves a job record and hands the work to a Durable       *)
(* Object of the job's own, whose alarm works in slices: it copies mail    *)
(* into parts of a multipart upload, and when its time is up it puts the   *)
(* part it has begun into a scratch object and persists where it was.  A   *)
(* slice that fails, or dies, is tried again from there.  The client polls *)
(* and may re-arm the alarm; the hourly maintenance deletes expired jobs.  *)
(*                                                                         *)
(* A place is a row id; the mailboxes' places follow one another, so the   *)
(* cursor <mailboxIndex, afterRowId> is one place.  A part is a sequence   *)
(* of places, and its etag is the part itself.  An upload that no state    *)
(* names is out of reach, so there is one upload at a time.  A call that   *)
(* throws has taken effect or never will.  A definition that stands unused *)
(* before the one it is named after is a mutant of it.                     *)
(***************************************************************************)
EXTENDS Integers, Sequences, FiniteSets

CONSTANTS
  Last,        \* the last place
  Ends,        \* the last place of each mailbox
  Gaps,        \* places that may hold no mail at first
  Moving,      \* places whose mail may come and go
  PageSize,    \* of getExportPage
  PartSize,    \* mails that fill a part
  MaxAttempts, \* slices in a row that may fail
  MaxTimeouts, \* slices that run out of time
  MaxFaults    \* failures that no attempt is counted for

ASSUME Positions == /\ Last \in Nat /\ Ends \subseteq 1..Last
                    /\ Gaps \subseteq 1..Last /\ Moving \subseteq 1..Last
                    /\ Last > 0 => Last \in Ends
ASSUME Sizes == PageSize \in Nat \ {0} /\ PartSize \in Nat \ {0}
ASSUME Bounds == MaxAttempts \in Nat \ {0} /\ MaxTimeouts \in Nat /\ MaxFaults \in Nat

VARIABLES
  rows,     \* places that hold a mail
  kept,     \* ghost: mail that was there when the export was asked for, and still is
  job,      \* status of the job record in R2
  expired,  \* the record's expiresAt has passed
  archive,  \* the archive in R2: its parts, or <<>>
  upload,   \* the multipart upload in R2
  scratch,  \* the scratch object of each slice, or <<>>
  live,     \* the Durable Object has a state
  store,    \* that state
  alarm,    \* its alarm is set
  pc,       \* where the route, the runner and the maintenance are
  work,     \* the runner's copy of the state
  page,     \* mails of the page that the runner has not written yet
  buffer,   \* the part the runner has begun
  obsolete, \* the scratch object the persisted state has superseded; 0 if none
  held,     \* the job's status as the maintenance has read it
  timeouts, \* slices that ran out of time
  faults,   \* failures so far
  slips     \* ghost: what a failure has made impossible

mail == <<rows, kept>>
record == <<job, expired>>
objects == <<archive, upload, scratch>>
durable == <<live, store, alarm>>
local == <<work, page, buffer, obsolete>>
bounds == <<timeouts, faults, slips>>
vars == <<mail, record, objects, durable, pc, local, held, bounds>>

-----------------------------------------------------------------------------
Places == 1..Last
Carries == 1..MaxTimeouts
Parts == Seq(Places)
States == [cursor : 0..Last, counted : BOOLEAN, upload : BOOLEAN, parts : Seq(Parts),
           carry : 0..MaxTimeouts, slice : 0..MaxTimeouts, attempts : 0..MaxAttempts]
Fresh == [cursor |-> 0, counted |-> FALSE, upload |-> FALSE, parts |-> <<>>, carry |-> 0,
          slice |-> 0, attempts |-> 0]

\* The runner's calls within the try of alarm(), those of failExportJob, and the rest.
Working == {"count", "pages", "flush", "finish", "record", "save", "report",
            "persist"}
Trying == Working \cup {"load", "clear"}
Failing == {"abort", "tidyup", "read", "fail"}
Pcs == Trying \cup Failing \cup {"idle", "tidy", "sweep", "new", "start", "drop", "forget"}

Route == "route"
Runner == "runner"
Cron == "cron"
Parties == {Route, Runner, Cron}
At(x, here) == pc[x] = here
Move(x, there) == pc' = [pc EXCEPT ![x] = there]
Slip(s) == slips' = slips \cup s
Fault == faults < MaxFaults /\ faults' = faults + 1
NoUpload == [open |-> FALSE, parts |-> <<>>]
NoScratch == [k \in Carries |-> <<>>]
Running == job \in {"pending", "processing"}
Wipe == live' = FALSE /\ alarm' = FALSE /\ store' = Fresh

\* The invocation's variables go with it.
Forget == work' = Fresh /\ page' = {} /\ buffer' = <<>> /\ obsolete' = 0

Init ==
  /\ rows \in {R \in SUBSET Places : Places \ Gaps \subseteq R} /\ kept = {}
  /\ job = "none" /\ expired = FALSE
  /\ archive = <<>> /\ upload = NoUpload /\ scratch = NoScratch
  /\ live = FALSE /\ store = Fresh /\ alarm = FALSE
  /\ pc = [x \in Parties |-> IF x = Route THEN "new" ELSE "idle"]
  /\ work = Fresh /\ page = {} /\ buffer = <<>> /\ obsolete = 0
  /\ held = "none"
  /\ timeouts = 0 /\ faults = 0 /\ slips = {}

-----------------------------------------------------------------------------
(* The route, and the client that polls.                                   *)

\* createExportJob saves the record.
Ask ==
  /\ At(Route, "new")
  /\ job' = "pending" /\ kept' = rows
  /\ Move(Route, "start")
  /\ UNCHANGED <<rows, expired, objects, durable, local, held, bounds>>

\* ExportJobDO.start: a state that is there is left alone.
Begin == IF live THEN UNCHANGED durable
                 ELSE live' = TRUE /\ store' = Fresh /\ alarm' = TRUE

Start ==
  /\ At(Route, "start")
  /\ Begin
  /\ Move(Route, "idle")
  /\ UNCHANGED <<mail, record, objects, local, held, bounds>>

\* The call fails, with or without its effect, and the route gives the job up.
StartFails ==
  /\ At(Route, "start")
  /\ Fault
  /\ \/ Begin /\ Slip({"unheard"})
     \/ UNCHANGED <<durable, slips>>
  /\ Move(Route, "abort")
  /\ UNCHANGED <<mail, record, objects, local, held, timeouts>>

\* kickIfStale: only a job that has a state is armed again.  A runner at work sets or clears the
\* alarm when it stops, so that a kick meanwhile is as if there were none.
Kick ==
  /\ At(Runner, "idle")
  /\ Running /\ ~expired
  /\ live /\ ~alarm
  /\ alarm' = TRUE
  /\ UNCHANGED <<mail, record, objects, live, store, pc, local, held, bounds>>

\* A poll or download of an expired export deletes what the record names.
RefuseExpired ==
  /\ expired /\ job = "completed"
  /\ archive' = <<>>
  /\ UNCHANGED <<mail, record, upload, scratch, durable, pc, local, held, bounds>>

-----------------------------------------------------------------------------
(* The runner: ExportJobDO.alarm and runExportSlice.                       *)

\* The attempt is counted before the work; one too many fails the job.
FireUnbounded ==
  /\ alarm /\ At(Runner, "idle")
  /\ alarm' = FALSE
  /\ IF ~live
       THEN UNCHANGED <<live, store, pc, work>>
       ELSE /\ store' = [store EXCEPT !.attempts = @ + 1]
            /\ work' = store' /\ Move(Runner, "load")
            /\ UNCHANGED live
  /\ UNCHANGED <<mail, record, objects, page, buffer, obsolete, held, bounds>>

FireUncounted ==
  /\ alarm /\ At(Runner, "idle")
  /\ alarm' = FALSE
  /\ IF live THEN work' = store /\ Move(Runner, "load") ELSE UNCHANGED <<pc, work>>
  /\ UNCHANGED <<mail, record, objects, live, store, page, buffer, obsolete, held, bounds>>

Fire ==
  /\ alarm /\ At(Runner, "idle")
  /\ alarm' = FALSE
  /\ CASE ~live -> UNCHANGED <<store, pc, work>>
       [] live /\ store.attempts >= MaxAttempts ->
            Move(Runner, "abort") /\ UNCHANGED <<store, work>>
       [] live /\ store.attempts < MaxAttempts ->
            /\ store' = [store EXCEPT !.attempts = @ + 1]
            /\ work' = store'
            /\ Move(Runner, "load")
  /\ UNCHANGED <<mail, record, objects, live, page, buffer, obsolete, held, bounds>>

\* A job that ended has nothing left to do; one whose record is gone throws (SliceThrows).
LoadAnyJob ==
  /\ At(Runner, "load")
  /\ job # "none"
  /\ Move(Runner, IF job # "failed" THEN "count" ELSE "clear")
  /\ UNCHANGED <<mail, record, objects, durable, local, held, bounds>>

LoadJob ==
  /\ At(Runner, "load")
  /\ job # "none"
  /\ Move(Runner, IF Running THEN "count" ELSE "clear")
  /\ UNCHANGED <<mail, record, objects, durable, local, held, bounds>>

\* Out of time among the mailboxes: reported, and persisted by the alarm handler.
CountTimesOut ==
  /\ At(Runner, "count")
  /\ ~work.counted
  /\ timeouts < MaxTimeouts /\ timeouts' = timeouts + 1
  /\ Move(Runner, "report")
  /\ UNCHANGED <<mail, record, objects, durable, local, held, faults, slips>>

\* Every mailbox is counted, and the part the last slice had begun is read back.
LoadCarry ==
  /\ At(Runner, "count")
  /\ work.carry # 0 => scratch[work.carry] # <<>>
  /\ buffer' = IF work.carry = 0 THEN <<>> ELSE scratch[work.carry]
  /\ work' = [work EXCEPT !.counted = TRUE]
  /\ Move(Runner, "pages")
  /\ UNCHANGED <<mail, record, objects, durable, page, obsolete, held, bounds>>

\* e is the end of the mailbox the cursor is in; the rows after the cursor up to it.
EndOfBox(c, e) == c < e /\ \A f \in Ends : c < f => e <= f
After(c, e) == {p \in rows : c < p /\ p <= e}
FirstRows(S) == {p \in S : Cardinality({q \in S : q < p}) < PageSize}

\* An empty page is the end of a mailbox.
ReadPageAhead ==
  /\ At(Runner, "pages")
  /\ page = {}
  /\ \E e \in Ends :
       /\ EndOfBox(work.cursor, e)
       /\ page' = FirstRows(After(work.cursor, e))
       /\ work' = [work EXCEPT !.cursor =
                     IF page' = {} THEN e ELSE CHOOSE p \in page' : \A q \in page' : q <= p]
  /\ UNCHANGED <<mail, record, objects, durable, pc, buffer, obsolete, held, bounds>>

ReadPage ==
  /\ At(Runner, "pages")
  /\ page = {}
  /\ \E e \in Ends :
       /\ EndOfBox(work.cursor, e)
       /\ page' = FirstRows(After(work.cursor, e))
       /\ work' = [work EXCEPT !.cursor = IF After(@, e) = {} THEN e ELSE @]
  /\ UNCHANGED <<mail, record, objects, durable, pc, buffer, obsolete, held, bounds>>

\* One mail of the page, there or deleted since; a full part is uploaded at once.
WriteMail ==
  /\ At(Runner, "pages")
  /\ \E p \in page :
       /\ \A q \in page : p <= q
       /\ page' = page \ {p}
       /\ buffer' = Append(buffer, p)
       /\ work' = [work EXCEPT !.cursor = p]
  /\ Move(Runner, IF Len(buffer') >= PartSize THEN "flush" ELSE "pages")
  /\ UNCHANGED <<mail, record, objects, durable, obsolete, held, bounds>>

\* Between two pages the progress is recorded, from the record as it was read.
SaveProgress ==
  /\ At(Runner, "pages")
  /\ page = {}
  /\ job # "processing" /\ job' = "processing"
  /\ UNCHANGED <<mail, expired, objects, durable, pc, local, held, bounds>>

CreateUpload ==
  /\ At(Runner, "flush")
  /\ ~work.upload
  /\ upload' = [open |-> TRUE, parts |-> <<>>]
  /\ work' = [work EXCEPT !.upload = TRUE]
  /\ UNCHANGED <<mail, record, archive, scratch, durable, pc, page, buffer, obsolete, held, bounds>>

\* The part number is that of the next part, whatever a slice that failed has uploaded under it.
PartsWith(parts, n, part) == IF n <= Len(parts) THEN [parts EXCEPT ![n] = part]
                                                ELSE Append(parts, part)
UploadPart ==
  /\ At(Runner, "flush")
  /\ work.upload /\ upload.open
  /\ upload' = [upload EXCEPT !.parts = PartsWith(@, Len(work.parts) + 1, buffer)]
  /\ work' = [work EXCEPT !.parts = Append(@, buffer)]
  /\ buffer' = <<>>
  /\ Move(Runner, "pages")
  /\ UNCHANGED <<mail, record, archive, scratch, durable, page, obsolete, held, bounds>>

\* Every mailbox is done.  What fits in one part is put; else the rest is the last part.
AllRead ==
  /\ At(Runner, "pages")
  /\ page = {} /\ work.cursor = Last
  /\ Move(Runner, IF work.upload /\ buffer # <<>> THEN "flush" ELSE "finish")
  /\ UNCHANGED <<mail, record, objects, durable, local, held, bounds>>

PutArchive ==
  /\ At(Runner, "finish")
  /\ ~work.upload
  /\ archive' = <<buffer>>
  /\ Move(Runner, "record")
  /\ UNCHANGED <<mail, record, upload, scratch, durable, local, held, bounds>>

\* The upload puts its parts together if it is open and the etags are theirs.
Etags(parts) == /\ Len(parts) <= Len(upload.parts)
                /\ \A i \in DOMAIN parts : upload.parts[i] = parts[i]
CompleteUpload ==
  /\ At(Runner, "finish")
  /\ work.upload /\ upload.open
  /\ Etags(work.parts)
  /\ archive' = work.parts
  /\ upload' = NoUpload
  /\ Move(Runner, "record")
  /\ UNCHANGED <<mail, record, scratch, durable, local, held, bounds>>

\* The download window starts now.
RecordCompleted ==
  /\ At(Runner, "record")
  /\ job' = "completed" /\ expired' = FALSE
  /\ Move(Runner, "clear")
  /\ UNCHANGED <<mail, objects, durable, local, held, bounds>>

\* The job ended: state and alarm go, then whatever scratch objects there are.
Clear ==
  /\ At(Runner, "clear")
  /\ Wipe
  /\ Move(Runner, "sweep")
  /\ UNCHANGED <<mail, record, objects, local, held, bounds>>

SweepCurrent ==
  /\ At(Runner, "sweep")
  /\ scratch' = [k \in Carries |-> IF k = work.carry THEN <<>> ELSE scratch[k]]
  /\ Move(Runner, "idle") /\ Forget
  /\ UNCHANGED <<mail, record, archive, upload, durable, held, bounds>>

Sweep ==
  /\ At(Runner, "sweep")
  /\ scratch' = NoScratch
  /\ Move(Runner, "idle") /\ Forget
  /\ UNCHANGED <<mail, record, archive, upload, durable, held, bounds>>

TimesOut ==
  /\ At(Runner, "pages")
  /\ page # {} \/ work.cursor < Last
  /\ timeouts < MaxTimeouts /\ timeouts' = timeouts + 1
  /\ page' = {}
  /\ Move(Runner, "save")
  /\ UNCHANGED <<mail, record, objects, durable, work, buffer, obsolete, held, faults, slips>>

\* The tail goes under a key of the next slice's own.
SaveCarry ==
  /\ At(Runner, "save")
  /\ LET next == work.slice + 1 IN
       IF buffer = <<>>
         THEN /\ work' = [work EXCEPT !.carry = 0, !.slice = next]
              /\ UNCHANGED scratch
         ELSE /\ work' = [work EXCEPT !.carry = next, !.slice = next]
              /\ scratch' = [scratch EXCEPT ![next] = buffer]
  /\ Move(Runner, "report")
  /\ UNCHANGED <<mail, record, archive, upload, durable, page, buffer, obsolete, held, bounds>>

Report ==
  /\ At(Runner, "report")
  /\ job' = "processing"
  /\ Move(Runner, "persist")
  /\ UNCHANGED <<mail, expired, objects, durable, local, held, bounds>>

\* State and alarm are written together.
Persist ==
  /\ At(Runner, "persist")
  /\ obsolete' = IF store.carry # work.carry THEN store.carry ELSE 0
  /\ store' = [work EXCEPT !.attempts = 0]
  /\ alarm' = TRUE
  /\ Move(Runner, "tidy")
  /\ UNCHANGED <<mail, record, objects, live, work, page, buffer, held, bounds>>

\* Best effort: what stays is swept when the job ends.
Tidy ==
  /\ At(Runner, "tidy")
  /\ scratch' \in {scratch, [k \in Carries |-> IF k = obsolete THEN <<>> ELSE scratch[k]]}
  /\ Move(Runner, "idle") /\ Forget
  /\ UNCHANGED <<mail, record, archive, upload, durable, held, bounds>>

-----------------------------------------------------------------------------
(* Failures of the runner, and failExportJob, which the route calls too.   *)

\* The handler is over.
Ended(x) == /\ Move(x, "idle")
            /\ IF x = Runner THEN Wipe /\ Forget ELSE UNCHANGED <<durable, local>>

\* alarm()'s catch: retried with a backoff, until the attempts are used up.
SliceThrows ==
  /\ pc[Runner] \in Trying
  /\ IF store.attempts >= MaxAttempts
       THEN Move(Runner, "abort") /\ UNCHANGED alarm
       ELSE Move(Runner, "idle") /\ alarm' = TRUE
  /\ Forget
  /\ Slip(IF At(Runner, "record") THEN {"cut"} ELSE {})
  /\ UNCHANGED <<mail, record, objects, live, store, held, timeouts, faults>>

\* The isolate dies.  The runtime runs the alarm again, or has given up on it.
Dies ==
  /\ ~At(Runner, "idle")
  /\ IF pc[Runner] \in Failing \cup {"sweep"} THEN Fault ELSE UNCHANGED faults
  /\ Slip(CASE At(Runner, "record") -> {"cut"} [] At(Runner, "sweep") -> {"spilled"} [] OTHER -> {})
  /\ alarm' \in {alarm, TRUE}
  /\ Move(Runner, "idle") /\ Forget
  /\ UNCHANGED <<mail, record, objects, live, store, held, timeouts>>

\* Only the runner's state names an upload.
AbortUpload(x) ==
  /\ At(x, "abort")
  /\ IF x = Runner /\ store.upload
       THEN upload' \in {upload, NoUpload}
       ELSE UNCHANGED upload
  /\ Move(x, "tidyup")
  /\ UNCHANGED <<mail, record, archive, scratch, durable, local, held, bounds>>

DropScratch(x) ==
  /\ At(x, "tidyup")
  /\ scratch' = NoScratch
  /\ Move(x, "read")
  /\ UNCHANGED <<mail, record, archive, upload, durable, local, held, bounds>>

\* A job that was completed after all stays so.
ReadJob(x) ==
  /\ At(x, "read")
  /\ IF job \in {"none", "completed"}
       THEN Ended(x)
       ELSE Move(x, "fail") /\ UNCHANGED <<durable, local>>
  /\ UNCHANGED <<mail, record, objects, held, bounds>>

SaveFailed(x) ==
  /\ At(x, "fail")
  /\ job' = "failed"
  /\ Ended(x)
  /\ UNCHANGED <<mail, expired, objects, held, bounds>>

\* Best effort: the maintenance sweeps what is left of a failed job.
SweepFails(x) ==
  /\ pc[x] \in {"tidyup", "sweep"}
  /\ Fault
  /\ Slip({"spilled"})
  /\ IF At(x, "tidyup") THEN Move(x, "read") /\ UNCHANGED local
                        ELSE Move(x, "idle") /\ Forget
  /\ UNCHANGED <<mail, record, objects, durable, held, timeouts>>

\* The failure is not recorded; the runner's state goes nevertheless.
FailureLost(x) ==
  /\ pc[x] \in {"read", "fail"}
  /\ Fault
  /\ Slip({"dropped"})
  /\ Ended(x)
  /\ UNCHANGED <<mail, record, objects, held, timeouts>>

RouteDies ==
  /\ pc[Route] \in Failing \cup {"start"}
  /\ Fault
  /\ Slip({"dropped"})
  /\ Move(Route, "idle")
  /\ UNCHANGED <<mail, record, objects, durable, local, held, timeouts>>

-----------------------------------------------------------------------------
(* The hourly maintenance, the clock and the mailboxes.                    *)

SeeExpired ==
  /\ At(Cron, "idle")
  /\ expired /\ job # "none"
  /\ held' = job
  /\ Move(Cron, "drop")
  /\ UNCHANGED <<mail, record, objects, durable, local, bounds>>

\* Only a completed record names an archive; only others may have scratch objects.
DropFiles ==
  /\ At(Cron, "drop")
  /\ IF held = "completed" THEN archive' = <<>> /\ UNCHANGED scratch
                                 ELSE scratch' = NoScratch /\ UNCHANGED archive
  /\ Move(Cron, "forget")
  /\ UNCHANGED <<mail, record, upload, durable, local, held, bounds>>

DropRecord ==
  /\ At(Cron, "forget")
  /\ job' = "none"
  /\ Move(Cron, "idle")
  /\ held' = "none"
  /\ UNCHANGED <<mail, expired, objects, durable, local, bounds>>

CronFails ==
  /\ ~At(Cron, "idle")
  /\ Fault
  /\ Move(Cron, "idle")
  /\ held' = "none"
  /\ UNCHANGED <<mail, record, objects, durable, local, timeouts, slips>>

\* Seven days after the request, or after the completion.  A job that takes as long is a failure.
Expire ==
  /\ job # "none" /\ ~expired
  /\ expired' = TRUE
  /\ IF Running \/ (live /\ job = "failed") THEN Fault /\ Slip({"early"})
                                           ELSE UNCHANGED <<faults, slips>>
  /\ UNCHANGED <<mail, job, objects, durable, pc, local, held, timeouts>>

\* A new row follows the last one of its mailbox.
Box(p) == {q \in Places : \A e \in Ends : q <= e <=> p <= e}
Arrive(p) ==
  /\ p \in Moving \ rows
  /\ \A q \in Box(p) : q < p <=> \E r \in rows \cap Box(p) : q <= r
  /\ rows' = rows \cup {p}
  /\ UNCHANGED <<kept, record, objects, durable, pc, local, held, bounds>>

Delete(p) ==
  /\ p \in Moving \cap rows
  /\ rows' = rows \ {p} /\ kept' = kept \ {p}
  /\ UNCHANGED <<record, objects, durable, pc, local, held, bounds>>

-----------------------------------------------------------------------------
Slice ==
  \/ LoadJob \/ CountTimesOut \/ LoadCarry \/ ReadPage \/ WriteMail \/ SaveProgress
  \/ CreateUpload \/ UploadPart \/ AllRead \/ PutArchive \/ CompleteUpload \/ RecordCompleted
  \/ Clear \/ Sweep \/ TimesOut \/ SaveCarry \/ Report \/ Persist \/ Tidy
GiveUp(x) == AbortUpload(x) \/ DropScratch(x) \/ ReadJob(x) \/ SaveFailed(x)
Failures == \/ StartFails \/ SliceThrows \/ Dies \/ RouteDies \/ CronFails
            \/ \E x \in {Route, Runner} : SweepFails(x) \/ FailureLost(x)
Maintenance == SeeExpired \/ DropFiles \/ DropRecord
Surroundings == Expire \/ \E p \in Places : Arrive(p) \/ Delete(p)

Next ==
  \/ Ask \/ Start \/ Kick \/ RefuseExpired
  \/ Fire \/ Slice
  \/ \E x \in {Route, Runner} : GiveUp(x)
  \/ Failures \/ Maintenance \/ Surroundings

\* The alarm fires, a slice goes on or throws, a route goes on, and the client polls.
Fairness ==
  /\ WF_vars(Fire \/ Slice \/ SliceThrows \/ GiveUp(Runner))
  /\ WF_vars(Start \/ GiveUp(Route))
  /\ WF_vars(Kick)

Spec == Init /\ [][Next]_vars /\ Fairness

-----------------------------------------------------------------------------
Statuses == {"none", "pending", "processing", "completed", "failed"}

\* Every variable has its type.
TypeOK ==
  /\ rows \subseteq Places /\ kept \subseteq rows
  /\ job \in Statuses /\ expired \in BOOLEAN
  /\ archive \in Seq(Parts)
  /\ upload \in [open : BOOLEAN, parts : Seq(Parts)]
  /\ scratch \in [Carries -> Parts]
  /\ live \in BOOLEAN /\ alarm \in BOOLEAN
  /\ store \in States /\ work \in States
  /\ pc \in [Parties -> Pcs]
  /\ page \subseteq Places /\ buffer \in Parts
  /\ obsolete \in 0..MaxTimeouts
  /\ held \in Statuses
  /\ timeouts \in 0..MaxTimeouts /\ faults \in 0..MaxFaults
  /\ slips \subseteq {"unheard", "cut", "spilled", "dropped", "early"}

\* An archive holds its mails in order, none twice, and every mail that was there when it was asked
\* for and still is.
InOrder(parts) ==
  \A i, j \in DOMAIN parts : \A a \in DOMAIN parts[i], b \in DOMAIN parts[j] :
    i < j \/ (i = j /\ a < b) => parts[i][a] < parts[j][b]
Holds(parts, p) == \E i \in DOMAIN parts : \E a \in DOMAIN parts[i] : parts[i][a] = p
Whole(parts) == InOrder(parts) /\ \A p \in kept : Holds(parts, p)

\* A completed export is whole, whatever slices failed, died or were cut off on the way and whatever
\* mail came and went meanwhile (getExportPage's comment, durableObject/index.ts:1168), and it is
\* there until it expires.
CompletedIsWhole ==
  job = "completed" => /\ archive # <<>> => Whole(archive)
                       /\ ~expired => archive # <<>>

\* However slices fail and whoever acts on the record meanwhile, the export keeps its promise: the
\* route, the runner and the maintenance each act on the record as they read it, and yet a job ends
\* once (what runExportSlice and failExportJob look at the record for, email-exporter.ts:635 and
\* :733), on a whole archive if it completes, and what it completed on stays until it expires.
Copy == IF archive = <<>> THEN "none" ELSE IF Whole(archive) THEN "whole" ELSE "partial"
Loose == slips \cap {"unheard", "early"} # {}
Promise == INSTANCE ExportPromise WITH asked <- ~At(Route, "new"), copy <- Copy, loose <- Loose
KeepsExport == Promise!Spec

\* A job that is over leaves no scratch object, unless a best-effort sweep failed; and no archive
\* without the record that serves and expires it, unless the failure fell between the two, the
\* route took a job that had started for one that had not, or the job took seven days.
NothingLeft ==
  /\ ~live /\ ~At(Runner, "sweep") => scratch = NoScratch \/ "spilled" \in slips
  /\ archive # <<>> => live \/ job = "completed" \/ slips \cap {"cut", "unheard", "early"} # {}

\* An export that was asked for completes or fails, unless the failure itself could not be recorded
\* or the record expired first: the attempts are counted before the work.
EventuallyEnds ==
  Running ~> job \in {"completed", "failed"} \/ slips \cap {"dropped", "early"} # {}
=============================================================================
