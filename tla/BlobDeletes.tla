---------------------------- MODULE BlobDeletes ----------------------------
(***************************************************************************)
(* Rows of a mailbox Durable Object (DO), their R2 objects, and the queue  *)
(* of deletes between the two: saving and deleting drafts, purging and     *)
(* reviving the mailbox, and the alarm that works off the queue.           *)
(*                                                                         *)
(* The DO is single threaded; a method gives way to others only while it   *)
(* waits for R2.  So one action is one turn of one call (a method under    *)
(* way), or the moment R2 executes what a call waits for.  The objects of  *)
(* a mail (body and raw MIME) are written and deleted together and count   *)
(* as one.  A failed put may have landed, a failed delete may have landed  *)
(* for some of its keys.  Each failure costs one unit of MaxFaults.        *)
(*                                                                         *)
(* A definition that stands unused before the one it is named after is a   *)
(* mutant of it.                                                           *)
(***************************************************************************)
EXTENDS Naturals

CONSTANTS
  Mails,       \* ids of drafts
  Calls,       \* requests the DO can be working on at once
  Alarm,       \* the alarm's handler, a call of its own
  NoMail,
  FaultKinds,  \* what may go wrong in this instance
  MaxFaults    \* how often, in total

ASSUME Names == Alarm \notin Calls /\ NoMail \notin Mails
ASSUME FaultBound == MaxFaults \in Nat

Slots == Calls \cup {Alarm}

VARIABLES
  deleted,  \* MAILBOX_DELETED_KEY is set
  row,      \* the emails row of each id, "unused" until the id is drawn
  pending,  \* keys in pending_blob_deletes
  alarm,    \* the DO alarm is set
  blob,     \* objects in R2
  call,     \* what each call is waiting for
  faults,   \* faults so far
  strays    \* ghost: ids deleted while being saved, or whose put was cut short

doVars == <<deleted, row, pending, alarm>>
vars == <<doVars, blob, call, faults, strays>>

-----------------------------------------------------------------------------
\* "create" and "update" wait for the put of a mail, "sweep" (some keys) and
\* "drain" (the whole queue) for the delete of a batch; landed: R2 has done it.
Idle == [op |-> "idle", mail |-> NoMail, batch |-> {}, landed |-> FALSE]
Saving(op, m) == [op |-> op, mail |-> m, batch |-> {}, landed |-> FALSE]
Deleting(op, b) == [op |-> op, mail |-> NoMail, batch |-> b, landed |-> FALSE]

Saves(c) == call[c].op \in {"create", "update"}
Deletes(c) == call[c].op \in {"sweep", "drain"}
Stored == {m \in Mails : row[m] = "stored"}
InFlight(op) == {m \in Mails : \E c \in Slots : call[c].op = op /\ call[c].mail = m}

NoFault == UNCHANGED faults
Fault(kind) == kind \in FaultKinds /\ faults < MaxFaults /\ faults' = faults + 1
Becomes(c, what) == call' = [call EXCEPT ![c] = what]

Init ==
  /\ deleted = FALSE
  /\ row = [m \in Mails |-> "unused"]
  /\ pending = {} /\ alarm = FALSE /\ blob = {}
  /\ call = [c \in Slots |-> Idle]
  /\ faults = 0
  /\ strays = {}

-----------------------------------------------------------------------------
(* The queue of deletes.                                                   *)

\* drainPendingBlobDeletes: the next batch (the oldest keys, up to the batch
\* size) of the keys now queued; with none left the call ends.
NextBatch(c, queued) ==
  \/ \E b \in SUBSET queued : b # {} /\ Becomes(c, Deleting("drain", b))
  \/ queued = {} /\ Becomes(c, Idle)

\* R2 executes the delete a call waits for.
DeleteLands(c) ==
  /\ Deletes(c) /\ ~call[c].landed
  /\ blob' = blob \ call[c].batch
  /\ call' = [call EXCEPT ![c].landed = TRUE]
  /\ UNCHANGED <<doVars, faults, strays>>

\* forgetPendingBlobDeletes, and for the whole queue the next batch.
SweepDone(c) ==
  /\ Deletes(c) /\ call[c].landed
  /\ pending' = pending \ call[c].batch
  /\ \/ call[c].op = "sweep" /\ Becomes(c, Idle)
     \/ call[c].op = "drain" /\ NextBatch(c, pending')
  /\ NoFault
  /\ UNCHANGED <<deleted, row, alarm, blob, strays>>

\* The delete throws: its keys stay queued, and the alarm is set for them.
SweepFailsQuietly(c) ==
  /\ Deletes(c) /\ Fault("delete")
  /\ \E b \in SUBSET call[c].batch : blob' = blob \ b
  /\ Becomes(c, Idle)
  /\ UNCHANGED <<doVars, strays>>
SweepFails(c) ==
  /\ Deletes(c) /\ Fault("delete")
  /\ \E b \in SUBSET call[c].batch : blob' = blob \ b
  /\ alarm' = (alarm \/ pending # {})
  /\ Becomes(c, Idle)
  /\ UNCHANGED <<deleted, row, pending, strays>>

\* The alarm fires and drains the queue (its other jobs: OutboundSend).
AlarmFires ==
  /\ alarm /\ call[Alarm] = Idle
  /\ alarm' = FALSE
  /\ NextBatch(Alarm, pending)
  /\ UNCHANGED <<deleted, row, pending, blob, faults, strays>>

-----------------------------------------------------------------------------
(* Saving and deleting drafts.                                             *)

\* createEmail of a draft with its body: up to the put of the body.
StartCreateRowFirst(c, m) ==
  /\ call[c] = Idle /\ ~deleted /\ row[m] = "unused"
  /\ row' = [row EXCEPT ![m] = "stored"]
  /\ Becomes(c, Saving("create", m))
  /\ UNCHANGED <<deleted, pending, alarm, blob, faults, strays>>
StartCreate(c, m) ==
  /\ call[c] = Idle /\ ~deleted /\ row[m] = "unused"
  /\ row' = [row EXCEPT ![m] = "absent"]
  /\ Becomes(c, Saving("create", m))
  /\ UNCHANGED <<deleted, pending, alarm, blob, faults, strays>>

\* updateDraft: up to the put of the body.
StartUpdate(c, m) ==
  /\ call[c] = Idle /\ ~deleted /\ row[m] = "stored"
  /\ Becomes(c, Saving("update", m))
  /\ UNCHANGED <<doVars, blob, faults, strays>>

PutLands(c) ==
  /\ Saves(c) /\ ~call[c].landed
  /\ blob' = blob \cup {call[c].mail}
  /\ call' = [call EXCEPT ![c].landed = TRUE]
  /\ UNCHANGED <<doVars, faults, strays>>

\* The call goes on: with the flag set meanwhile it queues the keys it wrote,
\* sweeps them and throws (#assertStillWritableAfterBlobWrite); else it inserts
\* the row, or updates the row if it is still there.
WriteRow(c) ==
  row' = IF call[c].op = "create" THEN [row EXCEPT ![call[c].mail] = "stored"] ELSE row
ResumeUnchecked(c) ==
  /\ Saves(c) /\ call[c].landed
  /\ WriteRow(c) /\ UNCHANGED pending /\ Becomes(c, Idle)
  /\ UNCHANGED <<deleted, alarm, blob, faults, strays>>
ResumeThrows(c) ==
  /\ Saves(c) /\ call[c].landed
  /\ \/ ~deleted /\ WriteRow(c) /\ UNCHANGED pending /\ Becomes(c, Idle)
     \/ deleted /\ UNCHANGED <<row, pending>> /\ Becomes(c, Idle)
  /\ UNCHANGED <<deleted, alarm, blob, faults, strays>>
Resume(c) ==
  /\ Saves(c) /\ call[c].landed
  /\ \/ ~deleted /\ WriteRow(c) /\ UNCHANGED pending /\ Becomes(c, Idle)
     \/ /\ deleted /\ UNCHANGED row
        /\ pending' = pending \cup {call[c].mail}
        /\ Becomes(c, Deleting("sweep", {call[c].mail}))
  /\ UNCHANGED <<deleted, alarm, blob, faults, strays>>

\* The put throws, and the call with it; one of its two writes may have landed.
PutFails(c) ==
  /\ Saves(c) /\ Fault("put")
  /\ blob' \in {blob, blob \cup {call[c].mail}}
  /\ strays' = strays \cup {call[c].mail}
  /\ Becomes(c, Idle)
  /\ UNCHANGED <<doVars>>

\* deleteEmail: the row goes and its keys are queued in one transaction, then
\* those keys are swept.
DeleteEmailSoftly(c, m) ==
  /\ call[c] = Idle /\ row[m] = "stored"
  /\ row' = [row EXCEPT ![m] = "trashed"]
  /\ pending' = pending \cup {m}
  /\ Becomes(c, Deleting("sweep", {m}))
  /\ strays' = strays \cup ({m} \cap InFlight("update"))
  /\ UNCHANGED <<deleted, alarm, blob, faults>>
DeleteEmail(c, m) ==
  /\ call[c] = Idle /\ row[m] = "stored"
  /\ row' = [row EXCEPT ![m] = "absent"]
  /\ pending' = pending \cup {m}
  /\ Becomes(c, Deleting("sweep", {m}))
  /\ strays' = strays \cup ({m} \cap InFlight("update"))
  /\ UNCHANGED <<deleted, alarm, blob, faults>>

-----------------------------------------------------------------------------
(* Purge, revival, restart.                                                *)

\* wipeMailboxRowsAndQueueBlobs
Wipe ==
  /\ row' = [m \in Mails |-> IF row[m] = "stored" THEN "absent" ELSE row[m]]
  /\ pending' = pending \cup Stored
  /\ strays' = strays \cup (Stored \cap InFlight("update"))

\* purgeMailbox: flag, wipe and the start of the drain; no other call gets in.
\* A purge may be repeated.
Purge(c) ==
  /\ call[c] = Idle
  /\ deleted' = TRUE
  /\ Wipe
  /\ NextBatch(c, pending')
  /\ UNCHANGED <<alarm, blob, faults>>

\* reviveMailbox: the address is given away again.
Revive(c) ==
  /\ call[c] = Idle
  /\ deleted' = FALSE
  /\ NextBatch(c, pending)
  /\ UNCHANGED <<row, pending, alarm, blob, faults, strays>>

\* The isolate ends, perhaps between a purge's flag and its wipe.  The next
\* event builds the DO anew; its constructor sets the alarm if keys are queued.
Restart ==
  /\ Fault("crash")
  /\ deleted' \in {deleted, TRUE}
  /\ \E put \in SUBSET (InFlight("create") \cup InFlight("update")),
        done \in SUBSET UNION {call[c].batch : c \in Slots} :
          blob' = (blob \ done) \cup put
  /\ strays' = strays \cup InFlight("create") \cup InFlight("update")
  /\ call' = [c \in Slots |-> Idle]
  /\ alarm' = (alarm \/ pending # {})
  /\ UNCHANGED <<row, pending>>

-----------------------------------------------------------------------------
Request(c) ==
  \/ \E m \in Mails : StartCreate(c, m) \/ StartUpdate(c, m) \/ DeleteEmail(c, m)
  \/ Purge(c) \/ Revive(c)
Step(c) == DeleteLands(c) \/ SweepDone(c) \/ PutLands(c) \/ Resume(c)
Fail(c) == SweepFails(c) \/ PutFails(c)

Next == \/ \E c \in Calls : Request(c)
        \/ \E c \in Slots : Step(c) \/ Fail(c)
        \/ AlarmFires \/ Restart

Spec == Init /\ [][Next]_vars

\* R2 answers, calls go on, and a set alarm fires.
Fairness == /\ \A c \in Slots : WF_vars(Step(c))
            /\ WF_vars(AlarmFires)
FairSpec == Spec /\ Fairness

-----------------------------------------------------------------------------
(* Properties.                                                             *)

TypeOK ==
  /\ deleted \in BOOLEAN /\ alarm \in BOOLEAN
  /\ row \in [Mails -> {"unused", "absent", "stored"}]
  /\ pending \subseteq Mails /\ blob \subseteq Mails
  /\ call \in [Slots -> [op : {"idle", "create", "update", "sweep", "drain"},
                         mail : Mails \cup {NoMail},
                         batch : SUBSET Mails, landed : BOOLEAN]]
  /\ faults \in 0..MaxFaults
  /\ strays \subseteq Mails

\* A row can be read: no sweep, of whichever call, takes the body of a row that
\* exists, and no row is inserted before its body is there.
RowsReadable == Stored \subseteq blob

\* An object without a row is queued for deletion or still being written, whoever
\* overtook whom and however deletes fail; the only exceptions are drafts deleted
\* while they are being saved and puts that were cut short.
NothingLeaks ==
  \A m \in blob \ strays :
    row[m] = "stored" \/ m \in pending \/ m \in InFlight("create") \cup InFlight("update")

\* Once the deleted flag is set no row appears, although calls that found the
\* mailbox writable are still waiting for R2.
NothingLandsAfter ==
  [][deleted => {m \in Mails : row'[m] = "stored"} \subseteq Stored]_vars

\* What is queued is deleted, though deletes fail and the DO restarts.
EventuallySwept == \A m \in Mails : (m \in pending) ~> (m \notin pending)


=============================================================================
