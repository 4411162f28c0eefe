------------------------------ MODULE SendRoute ------------------------------
(***************************************************************************)
(* The requests that send mail, up to its hand-over to delivery: POST      *)
(* emails, reply and forward with their Idempotency-Key, the slot of the   *)
(* send quota, the attachments and the body in R2 and the Sent row; and    *)
(* the sends that bypass the queue, which are automatic replies with their *)
(* once-per-sender claim and the agent's tools.                            *)
(*                                                                         *)
(* One mailbox within one window of its quota.  One action is one turn of  *)
(* the DO or one call of the Worker; a call that throws has taken effect   *)
(* or never will.  A definition that stands unused before the one it is    *)
(* named after is a mutant of it.                                          *)
(***************************************************************************)
EXTENDS Naturals, Sequences, FiniteSets, Functions

CONSTANTS
  Requests,   \* send requests of clients; each has a message id of its own
  Directs,    \* automatic replies and sends of the agent's tools
  KeyOf,      \* the Idempotency-Key of each request
  NoKey,
  Senders,    \* correspondents who may be answered automatically
  SenderOf,   \* whom each direct send answers
  NoSender,   \* an agent's send answers nobody
  Units,      \* recipients of each message
  Quota,      \* recipients the window has room for
  FaultKinds, \* what may go wrong in this instance
  MaxFaults   \* how often, in total

Parties == Requests \cup Directs

ASSUME PartyNames == Requests \cap Directs = {} /\ Requests \cap {"open", "error"} = {}
ASSUME Keys == DOMAIN KeyOf = Requests
ASSUME Answered == SenderOf \in [Directs -> Senders \cup {NoSender}] /\ NoSender \notin Senders
ASSUME Sizes == Units \in [Parties -> Nat \ {0}] /\ Quota \in Nat
ASSUME FaultBound == MaxFaults \in Nat

VARIABLES
  row,     \* the Sent row under each request's id
  slots,   \* send_log of the window, oldest first: whose recipients each row counts
  bodies,  \* body objects in R2, by message id
  atts,    \* attachment objects in R2, by message id
  pending, \* pending_blob_deletes: bodies the DO still has to delete
  claims,  \* auto_reply_receipts of the window
  pc,      \* where each request or direct send is
  winner,  \* what createEmail reported: the id of the row that has the key
  handed,  \* requests whose message went to enqueueOutboundSend
  answer,  \* what each client was told: an id or an error
  sent,    \* direct sends the Email binding took
  faults,  \* failures so far
  overdrawn, \* ghost: recipients that releases took off the log in excess
  hurt     \* ghost: parties a failure kept from cleaning up

files == <<bodies, atts, pending>>
quota == <<slots, overdrawn>>
vars == <<row, quota, files, claims, pc, winner, handed, answer, sent, faults, hurt>>

-----------------------------------------------------------------------------
RequestPcs == {"lookup", "reserve", "attach", "create", "insert", "sweep", "discard",
               "unattach", "hand", "release", "done"}
DirectPcs == {"claim", "reserve", "send", "release", "unclaim", "done"}

At(p, here) == pc[p] = here
Move(p, there) == pc' = [pc EXCEPT ![p] = there]
Answer(r, a) == /\ answer' = [answer EXCEPT ![r] = a]
                /\ Move(r, "done")
Fault(kind) == /\ kind \in FaultKinds
               /\ faults < MaxFaults
               /\ faults' = faults + 1
Hurts(p) == hurt' = hurt \cup {p}

Init ==
  /\ row = [r \in Requests |-> "none"]
  /\ slots = <<>>
  /\ bodies = {} /\ atts = {} /\ pending = {}
  /\ claims = {}
  /\ pc = [p \in Parties |-> IF p \in Requests THEN "lookup" ELSE "claim"]
  /\ winner = [r \in Requests |-> r]
  /\ handed = {}
  /\ answer = [r \in Requests |-> "open"]
  /\ sent = {}
  /\ faults = 0
  /\ overdrawn = 0 /\ hurt = {}

\* findEmailIdByIdempotencyKey.
Holders(r) == {q \in Requests : /\ row[q] = "stored"
                                /\ KeyOf[q] = KeyOf[r] /\ KeyOf[r] # NoKey}

-----------------------------------------------------------------------------
(* The send quota.                                                         *)

Used == SumFunctionOnSet(Units, {slots[i] : i \in DOMAIN slots})

\* checkSendRateLimit: check and insert in one turn.
Fits(p) == Used + Units[p] <= Quota
Take(p) == slots' = Append(slots, p) /\ UNCHANGED overdrawn

\* The mail that went out or will: the sweeper finds a stored row that was not handed over.
Mailed == {r \in Requests : row[r] # "none"} \cup sent

\* releaseSendSlot deletes the newest row, whoever reserved it.
Excess(p) == LET taken == Units[slots[Len(slots)]]
                 unsent == IF p \in Mailed THEN 0 ELSE Units[p]
             IN  IF taken > unsent THEN taken - unsent ELSE 0
GiveBack(p) ==
  IF slots = <<>>
  THEN UNCHANGED quota
  ELSE /\ slots' = SubSeq(slots, 1, Len(slots) - 1)
       /\ overdrawn' = overdrawn + Excess(p)

-----------------------------------------------------------------------------
(* A request.                                                              *)

\* checkIdempotencyKey: a stored key is answered at once.
LookupGivesBack(r) ==
  /\ At(r, "lookup")
  /\ \/ /\ Holders(r) = {} /\ Move(r, "reserve")
        /\ UNCHANGED <<answer, quota>>
     \/ \E q \in Holders(r) : Answer(r, q) /\ GiveBack(r)
  /\ UNCHANGED <<row, files, claims, winner, handed, sent, faults, hurt>>
Lookup(r) ==
  /\ At(r, "lookup")
  /\ \/ Holders(r) = {} /\ Move(r, "reserve") /\ UNCHANGED answer
     \/ \E q \in Holders(r) : Answer(r, q)
  /\ UNCHANGED <<row, quota, files, claims, winner, handed, sent, faults, hurt>>

\* An invalid sender, a suppressed recipient or a message too large, for free.
Refuse(r) ==
  /\ At(r, "reserve")
  /\ Answer(r, "error")
  /\ UNCHANGED <<row, quota, files, claims, winner, handed, sent, faults, hurt>>

Reserve(r) ==
  /\ At(r, "reserve")
  /\ IF Fits(r) THEN Take(r) /\ Move(r, "attach") /\ UNCHANGED answer
                ELSE Answer(r, "error") /\ UNCHANGED quota
  /\ UNCHANGED <<row, files, claims, winner, handed, sent, faults, hurt>>

Attach(r) ==
  /\ At(r, "attach")
  /\ atts' = atts \cup {r}
  /\ Move(r, "create")
  /\ UNCHANGED <<row, quota, bodies, pending, claims, winner, handed, answer, sent, faults,
                 hurt>>

\* Some attachments may be there when one cannot be put.
AttachFails(r) ==
  /\ At(r, "attach")
  /\ Fault("put")
  /\ atts' \in {atts, atts \cup {r}} /\ Hurts(r)
  /\ Move(r, "release")
  /\ UNCHANGED <<row, quota, bodies, pending, claims, winner, handed, answer, sent>>

\* createEmail up to its first wait: the early look at the key, then the body.
Create(r) ==
  /\ At(r, "create")
  /\ \/ \E q \in Holders(r) : /\ winner' = [winner EXCEPT ![r] = q]
                              /\ Move(r, "discard")
                              /\ UNCHANGED bodies
     \/ /\ Holders(r) = {}
        /\ bodies' = bodies \cup {r}
        /\ Move(r, "insert")
        /\ UNCHANGED winner
  /\ UNCHANGED <<row, quota, atts, pending, claims, handed, answer, sent, faults, hurt>>

\* insertOrReplay: the second look at the key and the insert in one turn; the
\* loser's body is queued for deletion.
InsertUnchecked(r) ==
  /\ At(r, "insert")
  /\ row' = [row EXCEPT ![r] = "stored"]
  /\ Move(r, "hand")
  /\ UNCHANGED <<quota, files, claims, winner, handed, answer, sent, faults, hurt>>
Insert(r) ==
  /\ At(r, "insert")
  /\ \/ \E q \in Holders(r) : /\ winner' = [winner EXCEPT ![r] = q]
                              /\ pending' = pending \cup {r}
                              /\ Move(r, "sweep")
                              /\ UNCHANGED row
     \/ /\ Holders(r) = {}
        /\ row' = [row EXCEPT ![r] = "stored"]
        /\ Move(r, "hand")
        /\ UNCHANGED <<winner, pending>>
  /\ UNCHANGED <<quota, bodies, atts, claims, handed, answer, sent, faults, hurt>>

SweepLoser(r) ==
  /\ At(r, "sweep")
  /\ \/ bodies' = bodies \ {r} /\ pending' = pending \ {r} /\ UNCHANGED faults
     \/ Fault("delete") /\ bodies' \in {bodies, bodies \ {r}} /\ UNCHANGED pending
  /\ Move(r, "discard")
  /\ UNCHANGED <<row, quota, atts, claims, winner, handed, answer, sent, hurt>>

\* The alarm's sweep.
DrainPending ==
  /\ pending # {}
  /\ bodies' = bodies \ pending
  /\ pending' = {}
  /\ UNCHANGED <<row, quota, atts, claims, pc, winner, handed, answer, sent, faults, hurt>>

\* createEmail refuses, fails or has its reply lost: the slot is given back even
\* if the row was stored, and the attachments stay.
CreateThrows(r) ==
  /\ Fault("rpc")
  /\ \E here \in {"create", "insert", "sweep", "discard", "hand"} : At(r, here)
  /\ Move(r, "release")
  /\ Hurts(r)
  /\ UNCHANGED <<row, quota, files, claims, winner, handed, answer, sent>>

\* discardReplayedSend: best effort, the slot first.
Release(p, there) ==
  \/ GiveBack(p) /\ Move(p, there) /\ UNCHANGED <<faults, hurt>>
  \/ Fault("rpc") /\ Hurts(p) /\ Move(p, there) /\ UNCHANGED quota
Discard(r) ==
  /\ At(r, "discard")
  /\ Release(r, "unattach")
  /\ UNCHANGED <<row, files, claims, winner, handed, answer, sent>>

UnattachForgets(r) ==
  /\ At(r, "unattach")
  /\ Answer(r, winner[r])
  /\ UNCHANGED <<row, quota, files, claims, winner, handed, sent, faults, hurt>>
Unattach(r) ==
  /\ At(r, "unattach")
  /\ \/ atts' = atts \ {r} /\ UNCHANGED <<faults, hurt>>
     \/ Fault("delete") /\ Hurts(r) /\ UNCHANGED atts
  /\ Answer(r, winner[r])
  /\ UNCHANGED <<row, quota, bodies, pending, claims, winner, handed, sent>>

\* The catch block gives the slot back, as far as it can, and rethrows.
ReleaseFailed(r) ==
  /\ r \in Requests /\ At(r, "release")
  /\ \/ GiveBack(r) /\ UNCHANGED <<faults, hurt>>
     \/ Fault("rpc") /\ Hurts(r) /\ UNCHANGED quota
  /\ Answer(r, "error")
  /\ UNCHANGED <<row, files, claims, winner, handed, sent>>

\* enqueueOutboundSend never throws; the calls before it, which allow the
\* recipients and tidy the thread, may.
HandOver(r) ==
  /\ At(r, "hand")
  /\ handed' = handed \cup {r}
  /\ Answer(r, r)
  /\ UNCHANGED <<row, quota, files, claims, winner, sent, faults, hurt>>
HandThrows(r) ==
  /\ At(r, "hand")
  /\ Fault("rpc")
  /\ Answer(r, "error")
  /\ UNCHANGED <<row, quota, files, claims, winner, handed, sent, hurt>>

\* The invocation ends; the client sees the connection fail.
RequestDies(r) ==
  /\ ~At(r, "lookup") /\ ~At(r, "done")
  /\ Fault("crash")
  /\ Hurts(r)
  /\ Answer(r, "error")
  /\ handed' \in IF At(r, "hand") THEN {handed, handed \cup {r}} ELSE {handed}
  /\ UNCHANGED <<row, quota, files, claims, winner, sent>>

\* The user deletes the Sent row, which frees its key (BlobDeletes has the rest).
DeleteRow(r) ==
  /\ row[r] = "stored"
  /\ row' = [row EXCEPT ![r] = "gone"]
  /\ bodies' = bodies \ {r} /\ atts' = atts \ {r}
  /\ UNCHANGED <<quota, pending, claims, pc, winner, handed, answer, sent, faults, hurt>>

-----------------------------------------------------------------------------
(* Automatic replies and the agent's sends.                                *)

IsReply(d) == SenderOf[d] # NoSender
Unclaimed(d) == IF IsReply(d) THEN "unclaim" ELSE "done"

\* claimAutoReply: once per sender and window.
ClaimAgain(d) ==
  /\ At(d, "claim")
  /\ claims' = claims \cup ({SenderOf[d]} \ {NoSender})
  /\ Move(d, "reserve")
  /\ UNCHANGED <<row, quota, files, winner, handed, answer, sent, faults, hurt>>
Claim(d) ==
  /\ At(d, "claim")
  /\ IF SenderOf[d] \in claims
     THEN Move(d, "done") /\ UNCHANGED claims
     ELSE /\ claims' = claims \cup ({SenderOf[d]} \ {NoSender})
          /\ Move(d, "reserve")
  /\ UNCHANGED <<row, quota, files, winner, handed, answer, sent, faults, hurt>>

ReserveDirect(d) ==
  /\ d \in Directs /\ At(d, "reserve")
  /\ IF Fits(d) THEN Take(d) /\ Move(d, "send")
                ELSE Move(d, Unclaimed(d)) /\ UNCHANGED quota
  /\ UNCHANGED <<row, files, claims, winner, handed, answer, sent, faults, hurt>>

\* An automatic reply is measured only now.
TooLarge(d) ==
  /\ IsReply(d) /\ At(d, "send")
  /\ Move(d, "release")
  /\ UNCHANGED <<row, quota, files, claims, winner, handed, answer, sent, faults, hurt>>
ReleaseDirectAsReplay(d) ==
  /\ d \in Directs /\ At(d, "release")
  /\ Release(d, "unattach")
  /\ UNCHANGED <<row, files, claims, winner, handed, answer, sent>>
ReleaseDirect(d) ==
  /\ d \in Directs /\ At(d, "release")
  /\ Release(d, "unclaim")
  /\ UNCHANGED <<row, files, claims, winner, handed, answer, sent>>

\* The Sent row of the mail is stored afterwards, best effort.
SendDirect(d) ==
  /\ At(d, "send")
  /\ sent' = sent \cup {d}
  /\ Move(d, "done")
  /\ UNCHANGED <<row, quota, files, claims, winner, handed, answer, faults, hurt>>

\* The binding throws, perhaps after it took the mail: the slot is kept.
SendFails(d) ==
  /\ At(d, "send")
  /\ Fault("send")
  /\ sent' \in {sent, sent \cup {d}}
  /\ Hurts(d)
  /\ Move(d, Unclaimed(d))
  /\ UNCHANGED <<row, quota, files, claims, winner, handed, answer>>

Unclaim(d) ==
  /\ At(d, "unclaim")
  /\ \/ claims' = claims \ {SenderOf[d]} /\ UNCHANGED <<faults, hurt>>
     \/ Fault("rpc") /\ Hurts(d) /\ UNCHANGED claims
  /\ Move(d, "done")
  /\ UNCHANGED <<row, quota, files, winner, handed, answer, sent>>

DirectDies(d) ==
  /\ d \in Directs
  /\ ~At(d, "claim") /\ ~At(d, "done")
  /\ Fault("crash")
  /\ Hurts(d)
  /\ sent' \in IF At(d, "send") THEN {sent, sent \cup {d}} ELSE {sent}
  /\ Move(d, "done")
  /\ UNCHANGED <<row, quota, files, claims, winner, handed, answer>>

-----------------------------------------------------------------------------
Proceed(r) == \/ Lookup(r) \/ Refuse(r) \/ Reserve(r) \/ Attach(r) \/ Create(r) \/ Insert(r)
              \/ SweepLoser(r) \/ Discard(r) \/ Unattach(r) \/ ReleaseFailed(r)
              \/ HandOver(r)
Break(r) == AttachFails(r) \/ CreateThrows(r) \/ HandThrows(r) \/ RequestDies(r)
Direct(d) == \/ Claim(d) \/ ReserveDirect(d) \/ TooLarge(d) \/ ReleaseDirect(d)
             \/ SendDirect(d) \/ SendFails(d) \/ Unclaim(d) \/ DirectDies(d)

Next ==
  \/ \E r \in Requests : Proceed(r) \/ Break(r) \/ DeleteRow(r)
  \/ \E d \in Directs : Direct(d)
  \/ DrainPending

Spec == Init /\ [][Next]_vars

-----------------------------------------------------------------------------
(* Properties.                                                             *)

TypeOK ==
  /\ row \in [Requests -> {"none", "stored", "gone"}]
  /\ slots \in Seq(Parties)
  /\ bodies \subseteq Requests /\ atts \subseteq Requests /\ pending \subseteq Requests
  /\ claims \subseteq Senders
  /\ pc \in [Parties -> RequestPcs \cup DirectPcs]
  /\ \A r \in Requests : pc[r] \in RequestPcs
  /\ \A d \in Directs : pc[d] \in DirectPcs
  /\ winner \in [Requests -> Requests]
  /\ handed \subseteq Requests /\ sent \subseteq Directs
  /\ answer \in [Requests -> Requests \cup {"open", "error"}]
  /\ faults \in 0..MaxFaults
  /\ overdrawn \in Nat /\ hurt \subseteq Parties

\* However retries with one key overlap, fail and race a deletion, the routes
\* keep the promise of KeyedSends: one row, one hand-over, truthful replays.
Promise == INSTANCE KeyedSends WITH mail <- row, handed <- handed, answer <- answer
KeepsKeys == Promise!Spec

\* Whatever overlaps, is replayed, refused or reported as failed, and however many
\* recipients each message has, the mail that went out, or will, exceeds the window by no
\* more than what releases took off the log in excess: a newest row of more recipients
\* than the message given up, or any row for a message whose row was stored.
QuotaHolds == SumFunctionOnSet(Units, Mailed) <= Quota + overdrawn

\* A sender is answered at most once in a window, and is kept from an answer only by one
\* sent, under way, or lost to a failure (two messages of a sender arrive at once;
\* a claim taken before the mail is sent must not outlive a mail never sent).
RepliesAccounted ==
  /\ \A d, e \in sent \ hurt : SenderOf[d] = SenderOf[e] /\ IsReply(d) => d = e
  /\ \A s \in claims : \E d \in Directs : /\ SenderOf[d] = s
                                          /\ ~At(d, "claim")
                                          /\ At(d, "done") => d \in sent \cup hurt

\* A request that ends without a row of its own leaves nothing in R2 that no row
\* and no queued delete names, unless a failure cut its cleanup short.
NothingLeftBehind ==
  \A r \in Requests : At(r, "done") /\ row[r] # "stored" /\ r \notin hurt =>
    r \notin atts /\ (r \in bodies => r \in pending)

=============================================================================
