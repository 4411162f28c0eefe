-------------------------- MODULE InboundDelivery --------------------------
(***************************************************************************)
(* Receiving one message into one mailbox: receiveEmail in the Worker, run *)
(* once per delivery, and the Message-ID claim, createEmail, purge and     *)
(* revival in the mailbox Durable Object (DO).                             *)
(*                                                                         *)
(* The message arrives for one or more envelopes (recipients that route to *)
(* the mailbox, such as hello@ and hello+tag@); the sending side repeats   *)
(* an envelope until it hears an answer.  Every delivery is an invocation  *)
(* of its own, with the fresh email id its row and its claim would carry.  *)
(* Different Message-IDs share nothing here, so one message is modelled;   *)
(* mail without a Message-ID is never deduplicated and is left out.        *)
(*                                                                         *)
(* One action is one DO turn or one await in the Worker.  A failure, or a  *)
(* purge, costs one unit of MaxFaults.  A definition that stands unused    *)
(* before the one it is named after is a mutant of it.                     *)
(***************************************************************************)
EXTENDS Naturals

CONSTANTS
  Envelopes,   \* recipients of the message that route to the mailbox
  Deliveries,  \* invocations of receiveEmail, named by the email id each drew
  NoOne,       \* no delivery, no envelope
  FaultKinds,  \* what may go wrong in this instance
  MaxFaults    \* how often, in total

ASSUME Names == NoOne \notin Deliveries \cup Envelopes
ASSUME FaultBound == MaxFaults \in Nat

VARIABLES
  mailbox,   \* "live", or "deleted" (MAILBOX_DELETED_KEY in DO storage)
  row,       \* emails row of each delivery; "gone" once deleted
  claim,     \* the inbound_message_claims row of the Message-ID
  blobs,     \* R2 objects under each delivery's id not queued for deletion
  pc,        \* where each delivery is
  envelope,  \* what the sending side knows of each envelope
  sender,    \* the envelope still listening to a delivery's answer
  listed,    \* deliveries whose attachments are in attachmentData
  reports,   \* deliveries taken for a bounce report of a Sent message
  refused,   \* deliveries createEmail told "Mailbox has been deleted"
  faults,    \* faults so far, and whether all of them were mild
  overtaken, \* ghost: deliveries that lost their claim while under way
  slips      \* ghost: times nobody was left to know that a delivery failed

doVars == <<mailbox, row, claim>>
notes  == <<listed, reports, refused>>
ghosts == <<overtaken, slips>>
vars == <<doVars, blobs, pc, envelope, sender, notes, faults, ghosts>>

-----------------------------------------------------------------------------
NoClaim == [by |-> NoOne, state |-> "none"]
\* "pending" turns "stale" after INBOUND_CLAIM_STALE_MS; "done": email_id is set.
Claims == [by : Deliveries, state : {"pending", "stale", "done"}] \cup {NoClaim}

\* Program points from winning the claim to the end of the catch block.
Working == {"attach", "classify", "content", "store", "fallback", "complete",
            "abandon", "erase"}
Under(d) == pc[d] \in Working
Stored == {d \in Deliveries : row[d] = "stored"}
EverStored == \E d \in Deliveries : row[d] # "none"

\* After a mild fault the code still cleans up; the others end a delivery before it
\* has, leave it unsure what to clean up, or are a failure of the cleanup.
Mild == {"timeout", "rpc", "put", "store", "purge"}
Faults == [count : 0..MaxFaults, mild : BOOLEAN]
NoFault == UNCHANGED faults
Fault(kind) ==
  /\ kind \in FaultKinds
  /\ faults.count < MaxFaults
  /\ faults' = [count |-> faults.count + 1, mild |-> faults.mild /\ kind \in Mild]
Slip == slips' = slips + 1

Init ==
  /\ mailbox = "live"
  /\ row = [d \in Deliveries |-> "none"]
  /\ claim = NoClaim
  /\ blobs = [d \in Deliveries |-> {}]
  /\ pc = [d \in Deliveries |-> "idle"]
  /\ envelope = [v \in Envelopes |-> "new"]
  /\ sender = [d \in Deliveries |-> NoOne]
  /\ listed = {} /\ reports = {} /\ refused = {}
  /\ faults = [count |-> 0, mild |-> TRUE]
  /\ overtaken = {} /\ slips = 0

Goto(d, p) == pc' = [pc EXCEPT ![d] = p]

\* The invocation ends.  Returning accepts the envelope, setReject refuses it,
\* a rethrown error asks for a retry; an envelope that gave up hears nothing.
Answer(d, what) ==
  /\ Goto(d, "done")
  /\ envelope' = [v \in Envelopes |-> IF v = sender[d] THEN what ELSE envelope[v]]
  /\ sender' = [sender EXCEPT ![d] = NoOne]

-----------------------------------------------------------------------------
(* The sending side.                                                       *)

Arrive(d, v) ==
  /\ pc[d] = "idle"
  /\ envelope[v] \in {"new", "retry"}
  /\ Goto(d, "check")
  /\ envelope' = [envelope EXCEPT ![v] = "open"]
  /\ sender' = [sender EXCEPT ![d] = v]
  /\ UNCHANGED <<doVars, blobs, notes, faults, ghosts>>

\* The sending side gives up waiting and will try again; the Worker runs on.
TimesOut(d) ==
  /\ sender[d] # NoOne
  /\ Fault("timeout") /\ Slip
  /\ envelope' = [envelope EXCEPT ![sender[d]] = "retry"]
  /\ sender' = [sender EXCEPT ![d] = NoOne]
  /\ UNCHANGED <<doVars, blobs, pc, notes, overtaken>>

-----------------------------------------------------------------------------
(* Turns of the mailbox DO.                                                *)

\* claimInboundMessage: refused while the message is stored or claimed afresh.
MayClaim == Stored = {} /\ claim.state # "pending"
TakeClaim(d) ==
  /\ claim' = [by |-> d, state |-> "pending"]
  /\ overtaken' = overtaken \cup {e \in Deliveries : e = claim.by /\ Under(e)}

\* Only the delivery's own claim moves.
CompleteClaimAny(d) == claim' = [claim EXCEPT !.state = "done"]
CompleteClaim(d) ==
  claim' = IF claim.by = d THEN [claim EXCEPT !.state = "done"] ELSE claim

ReleaseClaimAny(d) == claim' = NoClaim
ReleaseClaimNever(d) == UNCHANGED claim
ReleaseClaim(d) ==
  claim' = IF claim.by = d /\ claim.state # "done" THEN NoClaim ELSE claim

AbandonInDO(d) == IF row[d] = "stored" THEN CompleteClaim(d) ELSE ReleaseClaim(d)

CreateEmail(d) == row' = [row EXCEPT ![d] = "stored"]

\* The user deletes the row for good: its blobs go to pending_blob_deletes.
DeleteRow(d) ==
  /\ row[d] = "stored"
  /\ row' = [row EXCEPT ![d] = "gone"]
  /\ blobs' = [blobs EXCEPT ![d] = {}]
  /\ UNCHANGED <<mailbox, claim, pc, envelope, sender, notes, faults, ghosts>>

\* The flag is set, then rows and claims are wiped and the blobs of the rows
\* queued, before any other request gets in.
Purge ==
  /\ mailbox = "live" /\ Fault("purge")
  /\ mailbox' = "deleted"
  /\ row' = [d \in Deliveries |-> IF row[d] = "stored" THEN "gone" ELSE row[d]]
  /\ blobs' = [d \in Deliveries |-> IF row[d] = "stored" THEN {} ELSE blobs[d]]
  /\ claim' = NoClaim
  /\ overtaken' = overtaken \cup {d \in Deliveries : Under(d)}
  /\ UNCHANGED <<pc, envelope, sender, notes, slips>>

\* The address is given to a mailbox again; it starts empty.
Revive ==
  /\ mailbox = "deleted"
  /\ mailbox' = "live"
  /\ UNCHANGED <<row, claim, blobs, pc, envelope, sender, notes, faults, ghosts>>

\* Fifteen minutes pass.
ClaimGoesStale ==
  /\ claim.state = "pending"
  /\ claim' = [claim EXCEPT !.state = "stale"]
  /\ UNCHANGED <<mailbox, row, blobs, pc, envelope, sender, notes, faults, ghosts>>

-----------------------------------------------------------------------------
(* receiveEmail, before the try block.                                     *)

Check(d) ==
  /\ pc[d] = "check"
  /\ \/ /\ mailbox = "live" /\ Goto(d, "claim") /\ NoFault
        /\ UNCHANGED <<envelope, sender>>
     \/ mailbox = "deleted" /\ Answer(d, "refused") /\ NoFault
     \/ Fault("rpc") /\ Answer(d, "retry")
  /\ UNCHANGED <<doVars, blobs, notes, ghosts>>

\* A duplicate is skipped: the envelope is accepted.
ClaimMessage(d) ==
  /\ pc[d] = "claim"
  /\ \/ /\ MayClaim /\ TakeClaim(d) /\ Goto(d, "attach")
        /\ UNCHANGED <<envelope, sender>>
     \/ ~MayClaim /\ Answer(d, "accepted") /\ UNCHANGED <<claim, overtaken>>
  /\ UNCHANGED <<mailbox, row, blobs, notes, faults, slips>>

\* The RPC throws, with or without having taken the claim; nothing gives the
\* claim back.
ClaimThrows(d) ==
  /\ pc[d] = "claim"
  /\ Fault("claim")
  /\ \/ MayClaim /\ TakeClaim(d) /\ Slip
     \/ UNCHANGED <<claim, ghosts>>
  /\ Answer(d, "retry")
  /\ UNCHANGED <<mailbox, row, blobs, notes>>

-----------------------------------------------------------------------------
(* The try block.                                                          *)

\* An attachment enters attachmentData after its put returned.
Attach(d) ==
  /\ pc[d] = "attach"
  /\ \/ /\ blobs' = [blobs EXCEPT ![d] = @ \cup {"attachment"}]
        /\ \/ listed' = listed \cup {d} /\ Goto(d, "classify") /\ NoFault
           \/ Fault("putUnsure") /\ Goto(d, "abandon") /\ UNCHANGED listed
     \/ Fault("put") /\ Goto(d, "abandon") /\ UNCHANGED <<blobs, listed>>
  /\ UNCHANGED <<doVars, envelope, sender, reports, refused, ghosts>>

\* Thread lookup, then: a bounce report of a Sent message is applied and
\* archived, all other mail is classified.
Classify(d) ==
  /\ pc[d] = "classify"
  /\ \/ reports' = reports \cup {d} /\ Goto(d, "content") /\ NoFault
     \/ UNCHANGED reports /\ Goto(d, "content") /\ NoFault
     \/ UNCHANGED reports /\ Goto(d, "abandon") /\ Fault("rpc")
  /\ UNCHANGED <<doVars, blobs, envelope, sender, listed, refused, ghosts>>

\* storeEmailContent, then the lookups that choose the folder.
StoreContent(d) ==
  /\ pc[d] = "content"
  /\ \/ /\ blobs' = [blobs EXCEPT ![d] = @ \cup {"content"}]
        /\ \/ Goto(d, "store") /\ NoFault
           \/ d \notin reports /\ Goto(d, "abandon") /\ Fault("rpc")
           \/ Goto(d, "abandon") /\ Fault("put")
     \/ UNCHANGED blobs /\ Goto(d, "abandon") /\ Fault("put")
  /\ UNCHANGED <<doVars, envelope, sender, notes, ghosts>>

\* createEmail.  The folder a filter chose may be gone: then once more, into the
\* Inbox.  The catch block of a bounce report does not know why it failed.
StoreRow(d) ==
  /\ pc[d] \in {"store", "fallback"}
  /\ \/ mailbox = "live" /\ CreateEmail(d) /\ Goto(d, "complete") /\ UNCHANGED refused
     \/ /\ mailbox = "live" /\ pc[d] = "store" /\ d \notin reports
        /\ Goto(d, "fallback") /\ UNCHANGED <<row, refused>>
     \/ /\ mailbox = "deleted" /\ Goto(d, "abandon") /\ UNCHANGED row
        /\ refused' = IF d \in reports THEN refused ELSE refused \cup {d}
  /\ NoFault
  /\ UNCHANGED <<mailbox, claim, blobs, envelope, sender, listed, reports, ghosts>>

\* The RPC throws, with or without having stored the row.
StoreThrows(d) ==
  /\ pc[d] \in {"store", "fallback"}
  /\ Fault("store")
  /\ (mailbox = "live" /\ CreateEmail(d)) \/ UNCHANGED row
  /\ Goto(d, "abandon")
  /\ UNCHANGED <<mailbox, claim, blobs, envelope, sender, notes, ghosts>>

\* Best effort; forwarding, auto-reply, auto-draft and push follow, whose errors
\* are caught, and the envelope is accepted.
Complete(d) ==
  /\ pc[d] = "complete"
  /\ \/ CompleteClaim(d) /\ NoFault
     \/ UNCHANGED claim /\ Fault("rpc")
  /\ Answer(d, "accepted")
  /\ UNCHANGED <<mailbox, row, blobs, notes, ghosts>>

-----------------------------------------------------------------------------
(* abandonUnstoredInbound, and what its callers do after it.               *)

GiveUpSwallowed(d) == Answer(d, IF d \in refused THEN "refused" ELSE "accepted")
GiveUp(d) == Answer(d, IF d \in refused THEN "refused" ELSE "retry")

\* "stored" keeps the blobs.
Abandon(d) ==
  /\ pc[d] = "abandon"
  /\ AbandonInDO(d)
  /\ \/ row[d] = "stored" /\ GiveUp(d)
     \/ row[d] # "stored" /\ Goto(d, "erase") /\ UNCHANGED <<envelope, sender>>
  /\ NoFault
  /\ UNCHANGED <<mailbox, row, blobs, notes, ghosts>>

\* The RPC throws; the blobs stay unless the row is known not to be stored.
AbandonThrowsErases(d) ==
  /\ pc[d] = "abandon"
  /\ Fault("abandon")
  /\ \/ AbandonInDO(d) /\ UNCHANGED slips
     \/ UNCHANGED claim /\ Slip
  /\ Goto(d, "erase") /\ UNCHANGED <<envelope, sender>>
  /\ UNCHANGED <<mailbox, row, blobs, notes, overtaken>>
AbandonThrows(d) ==
  /\ pc[d] = "abandon"
  /\ Fault("abandon")
  /\ \/ AbandonInDO(d) /\ UNCHANGED slips
     \/ UNCHANGED claim /\ Slip
  /\ \/ d \in refused /\ Goto(d, "erase") /\ UNCHANGED <<envelope, sender>>
     \/ d \notin refused /\ GiveUp(d)
  /\ UNCHANGED <<mailbox, row, blobs, notes, overtaken>>

\* deleteR2Keys(inboundBlobKeys()), best effort.
ErasableAtStart(d) == {"content"}
Erasable(d) == IF d \in listed THEN {"attachment", "content"} ELSE {"content"}
Erase(d) ==
  /\ pc[d] = "erase"
  /\ \/ blobs' = [blobs EXCEPT ![d] = @ \ Erasable(d)] /\ NoFault
     \/ UNCHANGED blobs /\ Fault("delete")
  /\ GiveUp(d)
  /\ UNCHANGED <<doVars, notes, ghosts>>

\* The isolate ends; the sending side sees an error.
Dies(d) ==
  /\ pc[d] \in Working \cup {"check", "claim"}
  /\ Fault("crash")
  /\ IF claim.by = d /\ claim.state # "done" /\ row[d] = "none" THEN Slip
                                                               ELSE UNCHANGED slips
  /\ Answer(d, "retry")
  /\ UNCHANGED <<doVars, blobs, notes, overtaken>>

-----------------------------------------------------------------------------
Run(d) == \/ Check(d) \/ ClaimMessage(d) \/ Attach(d) \/ Classify(d)
          \/ StoreContent(d) \/ StoreRow(d) \/ Complete(d) \/ Abandon(d) \/ Erase(d)
Fail(d) == ClaimThrows(d) \/ StoreThrows(d) \/ AbandonThrows(d) \/ Dies(d) \/ TimesOut(d)
Next == \/ \E d \in Deliveries : \/ \E v \in Envelopes : Arrive(d, v)
                                 \/ Run(d) \/ Fail(d) \/ DeleteRow(d)
        \/ Purge \/ Revive \/ ClaimGoesStale

Spec == Init /\ [][Next]_vars

\* Invocations run, and the sending side repeats what was not answered.
Fairness == /\ \A d \in Deliveries : WF_vars(Run(d))
            /\ WF_vars(\E d \in Deliveries, v \in Envelopes : Arrive(d, v))
FairSpec == Spec /\ Fairness

-----------------------------------------------------------------------------
(* Properties.                                                             *)

TypeOK ==
  /\ mailbox \in {"live", "deleted"}
  /\ row \in [Deliveries -> {"none", "stored", "gone"}]
  /\ claim \in Claims
  /\ blobs \in [Deliveries -> SUBSET {"attachment", "content"}]
  /\ pc \in [Deliveries -> Working \cup {"idle", "check", "claim", "done"}]
  /\ envelope \in [Envelopes -> {"new", "open", "retry", "accepted", "refused"}]
  /\ sender \in [Deliveries -> Envelopes \cup {NoOne}]
  /\ listed \subseteq Deliveries /\ reports \subseteq Deliveries
  /\ refused \subseteq Deliveries /\ overtaken \subseteq Deliveries
  /\ faults \in Faults /\ slips \in Nat

\* The mailbox shows the message once, whichever copies and retries of it arrive
\* together and whatever fails: of two rows one comes from a delivery that outlived
\* its claim (fifteen minutes in one invocation, or a purge of the mailbox).
OneRow == \A d, e \in Stored : d = e \/ d \in overtaken \/ e \in overtaken

\* A row can be read: no cleanup ever takes the body or an attachment of a row
\* that was stored after all.
RowsKeepBlobs == \A d \in Stored : blobs[d] = {"attachment", "content"}

\* Once a delivery is over, every object it wrote belongs to a row, whichever copy
\* won and whether or not the row was stored before an error (unless a crash, or
\* a call that failed while cleaning up, prevented it: not mild).
NoOrphanBlobs ==
  \A d \in Deliveries :
    faults.mild /\ pc[d] = "done" /\ row[d] # "stored" => blobs[d] = {}

\* Mail that was accepted is kept: it was stored, or a delivery under way will
\* store it, or some envelope will be repeated; or the mailbox was deleted.
Pending == \/ \E d \in Deliveries : Under(d) /\ claim.by = d
           \/ \E v \in Envelopes : envelope[v] \in {"open", "retry"}
AcceptedIsKept ==
  (\E v \in Envelopes : envelope[v] = "accepted") =>
    EverStored \/ Pending \/ \E v \in Envelopes : envelope[v] = "refused"

\* ... as long as no delivery failed behind everybody's back: killed or timed out,
\* or a call about its claim lost.
KeptUnlessSlip == slips = 0 => AcceptedIsKept

\* Copies, retries and failures of the deliveries included, receiving mail keeps the promise.
Promise == INSTANCE MailPromise
KeepsMail == Promise!Spec

\* The message ends up in the mailbox, or its sender is told it did not.
EventuallyKept ==
  <>(EverStored \/ \E v \in Envelopes : envelope[v] = "refused")

=============================================================================
