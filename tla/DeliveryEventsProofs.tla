------------------------ MODULE DeliveryEventsProofs ------------------------
(***************************************************************************)
(* Theorems about DeliveryEvents, for any mails, recipients, consumers and *)
(* reports, any limits and any faults.                                     *)
(*                                                                         *)
(* The argument follows an event through its handler.  StageInv says what  *)
(* has been established where the handler is, OwedInv that an event past   *)
(* its suppression finds it on the list, BehindInv that nobody is about to *)
(* overwrite a complaint unnoticed, and WrittenInv that a failure on the   *)
(* row was written when no record of the acceptance was left to come.      *)
(***************************************************************************)
EXTENDS DeliveryEvents, TLAPS

InStage(p) ==
  /\ p \in Reports => party[p].pc \in {"set", "look", "suppress"}
  /\ party[p].pc \in {"look", "suppress"} => ReasonOf(Of(p)) # "none"
  /\ party[p].pc = "set" => Fails(Of(p)) /\ sending[Of(p).mail] # "ready"
  /\ p \notin Reports => Of(p) \in published
  /\ party[p].from = "kept" /\ Fails(Of(p)) => Of(p) \in kept \cup applied \cup letGo
StageInv == \A p \in Parties : ~In(p, "idle") => InStage(p)

\* Whatever is queued or kept was published.
QueuedInv == /\ \A m \in queue \cup dlq : m.event \in published
             /\ kept \subseteq published

Owed(e) == ReasonOf(e) # "none" /\ excuse[e.to] # "full" =>
             /\ suppressed[e.to] # "none"
             /\ ReasonOf(e) = "complaint" /\ excuse[e.to] = "none" =>
                  suppressed[e.to] = "complaint"
PastSuppression(p) == p \notin Reports /\ party[p].pc \in {"find", "set", "recip"}
OwedInv == \A p \in Parties : PastSuppression(p) => Owed(Of(p))

BehindInv ==
  \A p \in Parties : In(p, "suppress") /\ ReasonOf(Of(p)) # "complaint" =>
    (suppressed[Of(p).to] = "complaint" => excuse[Of(p).to] # "none")

WrittenInv == \A m \in Mails : told[m] = "yes" => sending[m] \notin {"ready", "sent"}

IndInv == /\ TypeOK /\ StageInv /\ QueuedInv /\ OwedInv /\ BehindInv /\ WrittenInv
          /\ RecipientsTellTheWorst /\ FailuresNotLost /\ SuppressionHolds
          /\ FailureStaysVisible

-----------------------------------------------------------------------------
(* Facts about events and handlers.                                        *)

LEMMA EventKinds ==
  \A e \in Event : /\ e.mail \in Mails /\ e.to \in Addresses /\ e.type \in AllTypes
                   /\ StatusOf(e) \in {"deferred", "delivered"} \cup Failures
                   /\ ReasonOf(e) \in {"none", "hard_bounce", "complaint"}
BY TypeNames DEF Event, AllTypes, StatusOf, ReasonOf, Failures

LEMMA RankType == \A s : Rank(s) \in 0..3
BY DEF Rank

LEMMA BusyParty ==
  ASSUME TypeOK, NEW p \in Parties, ~In(p, "idle") PROVE party[p] \in Busy
BY DEF TypeOK, In, Idle

LEMMA NamesApart == /\ Consumers \subseteq Parties /\ Reports \subseteq Parties
                    /\ Operator \in Parties \ Reports /\ Consumers \cap Reports = {}
BY PartyNames DEF Parties

\* What a step leaves of the table of handlers.
LEMMA Moves ==
  ASSUME TypeOK, NEW p \in Parties, NEW x, party' = [party EXCEPT ![p] = x]
  PROVE  \A q \in Parties : party'[q] = IF q = p THEN x ELSE party[q]
BY DEF TypeOK

\* Where a handler that runs may be after its next step: done, or further on with
\* the same event.
LEMMA HandlerMoves ==
  ASSUME TypeOK, NEW p \in Parties, Handle(p) \/ Fail(p)
  PROVE  /\ ~In(p, "idle") /\ party[p] \in Busy
         /\ \A q \in Parties \ {p} : party'[q] = party[q]
         /\ \/ party'[p] = Idle
            \/ \E pc \in {"look", "suppress", "find", "set", "recip"} :
                 party'[p] = [party[p] EXCEPT !.pc = pc]
<1>1. ~In(p, "idle")
  BY DEF Handle, Fail, Look, Suppress, Find, SetState, RecordRecipient, SuppressionFails,
         CallThrows, Dies, In
<1>2. party[p] \in Busy
  BY <1>1, BusyParty
<1>3. \/ party' = [party EXCEPT ![p] = Idle]
      \/ \E pc \in {"look", "suppress", "find", "set", "recip"} :
           party' = [party EXCEPT ![p] = [party[p] EXCEPT !.pc = pc]]
  <2>1. CASE Look(p)
    BY <2>1 DEF Look, AfterSuppression, Goto
  <2>2. CASE Suppress(p) \/ SuppressionFails(p)
    BY <2>2 DEF Suppress, SuppressionFails, AfterSuppression
  <2>3. CASE Find(p)
    BY <2>3 DEF Find, FoundThen, Goto, Ack, Retry
  <2>4. CASE SetState(p)
    BY <2>4 DEF SetState
  <2>5. CASE RecordRecipient(p)
    BY <2>5 DEF RecordRecipient, Ack
  <2>6. CASE CallThrows(p) \/ Dies(p)
    BY <2>6 DEF CallThrows, Dies, Retry
  <2> QED
    BY <2>1, <2>2, <2>3, <2>4, <2>5, <2>6 DEF Handle, Fail
<1> QED
  BY <1>1, <1>2, <1>3 DEF TypeOK

-----------------------------------------------------------------------------
(* Types.                                                                  *)

LEMMA FaultType == ASSUME TypeOK, NEW kind, Fault(kind) PROVE faults' \in 0..MaxFaults
BY Limits DEF TypeOK, Fault

Kinds == /\ party \in [Parties -> Busy \cup {Idle}]
         /\ \A p \in Parties : ~In(p, "idle") => (party[p].from = "report" <=> p \in Reports)

\* A handler that moves on keeps its event and its source.
LEMMA KindsMove ==
  ASSUME TypeOK, NEW p \in Parties, Handle(p) \/ Fail(p) PROVE Kinds'
<1> USE DEF Kinds
<1>1. party' \in [Parties -> Busy \cup {Idle}]
  <2>1. party'[p] \in Busy \cup {Idle}
    BY HandlerMoves DEF Busy
  <2>2. \A q \in Parties : party'[q] \in Busy \cup {Idle}
    <3>1. \A q \in Parties \ {p} : party'[q] = party[q]
      BY HandlerMoves
    <3> QED
      BY <2>1, <3>1 DEF TypeOK
  <2>3. DOMAIN party' = Parties /\ party' = [q \in Parties |-> party'[q]]
    BY DEF TypeOK, Handle, Fail, Look, Suppress, Find, SetState, RecordRecipient,
           SuppressionFails, CallThrows, Dies, AfterSuppression, Goto, FoundThen, Ack, Retry
  <2> QED
    BY <2>2, <2>3
<1>2. ASSUME NEW q \in Parties, ~(party'[q].pc = "idle")
      PROVE  party'[q].from = "report" <=> q \in Reports
  <2>1. CASE q = p
    <3>1. party'[p] # Idle
      BY <1>2, <2>1 DEF Idle
    <3>2. PICK pc \in {"look", "suppress", "find", "set", "recip"} :
            party'[p] = [party[p] EXCEPT !.pc = pc]
      BY <3>1, HandlerMoves
    <3>3. party'[p].from = party[p].from /\ ~In(p, "idle")
      BY <3>2, HandlerMoves DEF Busy
    <3> QED
      BY <2>1, <3>3 DEF TypeOK
  <2>2. CASE q # p
    <3>1. party'[q] = party[q]
      BY <2>2, HandlerMoves
    <3> QED
      BY <1>2, <3>1 DEF TypeOK, In
  <2> QED
    BY <2>1, <2>2
<1> QED
  BY <1>1, <1>2 DEF In

\* A handler that starts has an event and a source of its own.
LEMMA KindsStart ==
  ASSUME TypeOK, NEW p \in Parties, NEW e \in Event, NEW n \in Nat,
         NEW f \in {"queue", "kept", "report"}, NEW s \in {"look", "find", "set"},
         f = "report" <=> p \in Reports, party' = [party EXCEPT ![p] = At(e, n, f, s)]
  PROVE  Kinds'
<1>1. At(e, n, f, s) \in Busy
  BY DEF At, Busy
<1>2. party' \in [Parties -> Busy \cup {Idle}]
  BY <1>1 DEF TypeOK
<1>3. \A q \in Parties : party'[q] = IF q = p THEN At(e, n, f, s) ELSE party[q]
  BY DEF TypeOK
<1> QED
  BY <1>2, <1>3 DEF Kinds, TypeOK, In, At

LEMMA FirstStage == \A e : First(e) \in {"look", "find"}
BY DEF First

\* A message that goes back, on or aside is a message.
LEMMA QueueTypes ==
  ASSUME TypeOK, NEW p \in Parties, ~In(p, "idle"), Retry(p) \/ Ack(p)
  PROVE  queue' \subseteq Message /\ dlq' \subseteq Message /\ kept' \subseteq Event
<1>1. party[p] \in Busy /\ Of(p) \in Event /\ party[p].tries \in Nat
  BY BusyParty DEF Busy, Of
<1>2. \A n \in Nat : [event |-> Of(p), tries |-> n] \in Message
  BY <1>1 DEF Message
<1> QED
  BY <1>1, <1>2 DEF Retry, Ack, TypeOK, mailQueues

LEMMA WriteTypes ==
  ASSUME TypeOK, NEW p \in Parties, In(p, "set"), Fails(Of(p)),
         WriteFailure(Of(p).mail, StatusOf(Of(p)))
  PROVE  /\ status' \in [Mails -> {"queued", "accepted", "gone"} \cup Failures]
         /\ told' \in [Mails -> {"no", "yes", "early"}]
<1>1. Of(p).mail \in Mails
  BY BusyParty, EventKinds DEF In, Busy, Of
<1>2. StatusOf(Of(p)) \in Failures
  BY DEF Fails
<1> QED
  BY <1>1, <1>2 DEF WriteFailure, Mark, TypeOK

LEMMA UpsertTypes ==
  ASSUME TypeOK, NEW e \in Event, Upsert(e)
  PROVE  recips' \in [Mails -> [Addresses -> {"none", "deferred", "delivered"} \cup Failures]]
BY EventKinds DEF Upsert, TypeOK

LEMMA InitInd == Init => IndInv
<1> SUFFICES ASSUME Init PROVE IndInv
  OBVIOUS
<1>1. TypeOK
  BY Limits DEF Init, TypeOK, In, Idle, Message, Failures
<1>2. \A p \in Parties : party[p].pc = "idle"
  BY DEF Init, Idle
<1> QED
  BY <1>1, <1>2 DEF Init, IndInv, StageInv, QueuedInv, OwedInv, PastSuppression, BehindInv, In,
                    WrittenInv, RecipientsTellTheWorst, FailuresNotLost, SuppressionHolds,
                    FailureStaysVisible

\* The sender's and the user's steps.
LEMMA RowTypes ==
  ASSUME TypeOK, NEW m \in Mails, Transmit(m) \/ Sender(m) \/ DeleteRow(m) PROVE TypeOK'
<1> USE DEF TypeOK, Step, Mark, rows, mailQueues, ghosts, Failures, In
<1>1. CASE Transmit(m)
  BY <1>1 DEF Transmit
<1>2. CASE Record(m)
  BY <1>2 DEF Record
<1>3. CASE RecordFails(m)
  BY <1>3, FaultType DEF RecordFails
<1>4. CASE RecordMarked(m)
  BY <1>4 DEF RecordMarked
<1>5. CASE Recover(m)
  BY <1>5 DEF Recover
<1>6. CASE DeleteRow(m)
  BY <1>6 DEF DeleteRow
<1> QED
  BY <1>1, <1>2, <1>3, <1>4, <1>5, <1>6 DEF Sender

\* What the provider, the queues and the operators do to messages.
LEMMA EventTypes ==
  ASSUME TypeOK, NEW e \in Event,
         \/ Publish(e) \/ Duplicate(e) \/ AliasUnread(e) \/ Replay(e) \/ Discard(e)
         \/ \E r \in Reports : ReportArrives(r, e)
  PROVE  TypeOK'
<1> USE DEF rows, mailQueues, ghosts, In
<1>1. CASE Publish(e) \/ Duplicate(e)
  <2>1. [event |-> e, tries |-> 0] \in Message
    BY DEF Message
  <2>2. faults' \in 0..MaxFaults
    BY <1>1, FaultType DEF Publish, Duplicate, TypeOK
  <2> QED
    BY <1>1, <2>1, <2>2 DEF Publish, Duplicate, TypeOK
<1>2. CASE AliasUnread(e)
  BY <1>2, FaultType DEF AliasUnread, LetGo, TypeOK
<1>3. CASE Discard(e)
  BY <1>3 DEF Discard, LetGo, TypeOK
<1>4. CASE Replay(e)
  <2>1. Kinds'
    BY <1>4, KindsStart, NamesApart, FirstStage, Limits DEF Replay
  <2> QED
    BY <1>4, <2>1 DEF Replay, Kinds, TypeOK
<1>5. ASSUME NEW r \in Reports, ReportArrives(r, e) PROVE TypeOK'
  <2>1. Kinds'
    BY <1>5, KindsStart, NamesApart DEF ReportArrives
  <2> QED
    BY <1>5, <2>1 DEF ReportArrives, Kinds, TypeOK
<1> QED
  BY <1>1, <1>2, <1>3, <1>4, <1>5

LEMMA QueueStepTypes ==
  ASSUME TypeOK,
         \/ \E c \in Consumers, m \in queue : Take(c, m)
         \/ \E m \in dlq : StoreDeadLetter(m) \/ StoreFails(m)
  PROVE  TypeOK'
<1> USE DEF rows, mailQueues, ghosts, In
<1>1. ASSUME NEW c \in Consumers, NEW m \in queue, Take(c, m) PROVE TypeOK'
  <2>1. m.event \in Event /\ m.tries + 1 \in Nat
    BY DEF TypeOK, Message
  <2>2. Kinds'
    BY <1>1, <2>1, KindsStart, NamesApart, FirstStage DEF Take
  <2> QED
    BY <1>1, <2>2 DEF Take, Kinds, TypeOK
<1>2. ASSUME NEW m \in dlq, StoreDeadLetter(m) \/ StoreFails(m) PROVE TypeOK'
  <2>1. m.event \in Event /\ [m EXCEPT !.tries = @ + 1] \in Message
    BY DEF TypeOK, Message
  <2>2. faults' \in 0..MaxFaults
    BY <1>2, FaultType DEF StoreDeadLetter, StoreFails, TypeOK
  <2> QED
    BY <1>2, <2>1, <2>2 DEF StoreDeadLetter, StoreFails, LetGo, TypeOK
<1> QED
  BY <1>1, <1>2

LEMMA HandlerTypes ==
  ASSUME TypeOK, StageInv, NEW p \in Parties, Handle(p) \/ Fail(p) PROVE TypeOK'
<1> USE DEF rows, mailQueues, ghosts
<1>1. Kinds' /\ ~In(p, "idle")
  BY KindsMove, HandlerMoves
<1>2. Of(p) \in Event /\ Of(p).to \in Addresses /\ InStage(p)
  BY HandlerMoves, EventKinds, <1>1 DEF Busy, Of, StageInv
<1>3. CASE Look(p)
  BY <1>1, <1>3 DEF Look, Kinds, TypeOK
<1>4. CASE Suppress(p)
  <2>1. ReasonOf(Of(p)) \in {"hard_bounce", "complaint"}
    BY <1>2, <1>4, EventKinds DEF Suppress, In, InStage
  <2> QED
    BY <1>1, <1>2, <1>4, <2>1 DEF Suppress, PutReason, NoteRace, Kinds, TypeOK
<1>5. CASE SuppressionFails(p)
  BY <1>1, <1>2, <1>5, FaultType DEF SuppressionFails, Kinds, TypeOK
<1>6. CASE Find(p)
  <2>1. queue' \subseteq Message /\ dlq' \subseteq Message /\ kept' \subseteq Event
    BY <1>1, <1>6, QueueTypes DEF Find, FoundThen, TypeOK
  <2> QED
    BY <1>1, <1>6, <2>1 DEF Find, Kinds, TypeOK
<1>7. CASE SetState(p)
  <2>1. Fails(Of(p))
    BY <1>2, <1>7 DEF SetState, In, InStage
  <2> QED
    BY <1>1, <1>7, <2>1, WriteTypes DEF SetState, Kinds, TypeOK
<1>8. CASE RecordRecipient(p)
  <2>1. queue' \subseteq Message /\ dlq' \subseteq Message /\ kept' \subseteq Event
    BY <1>1, <1>8, QueueTypes DEF RecordRecipient
  <2> QED
    BY <1>1, <1>2, <1>8, <2>1, UpsertTypes DEF RecordRecipient, Kinds, TypeOK
<1>9. CASE CallThrows(p)
  <2>1. queue' \subseteq Message /\ dlq' \subseteq Message /\ kept' \subseteq Event
    BY <1>1, <1>9, QueueTypes DEF CallThrows
  <2>2. faults' \in 0..MaxFaults
    BY <1>9, FaultType DEF CallThrows
  <2>3. CASE UNCHANGED <<rows, told>>
    BY <1>1, <1>9, <2>1, <2>2, <2>3 DEF CallThrows, Kinds, TypeOK
  <2>4. CASE In(p, "set") /\ WriteFailure(Of(p).mail, StatusOf(Of(p))) /\ UNCHANGED recips
    <3>1. Fails(Of(p))
      BY <1>2, <2>4 DEF In, InStage
    <3> QED
      BY <1>1, <1>9, <2>1, <2>2, <2>4, <3>1, WriteTypes DEF CallThrows, Kinds, TypeOK
  <2>5. CASE Upsert(Of(p)) /\ UNCHANGED <<status, told>>
    BY <1>1, <1>2, <1>9, <2>1, <2>2, <2>5, UpsertTypes DEF CallThrows, Kinds, TypeOK
  <2> QED
    BY <1>9, <2>3, <2>4, <2>5 DEF CallThrows
<1>10. CASE Dies(p)
  <2>1. queue' \subseteq Message /\ dlq' \subseteq Message /\ kept' \subseteq Event
    BY <1>1, <1>10, QueueTypes DEF Dies, TypeOK
  <2> QED
    BY <1>1, <1>10, <2>1, FaultType DEF Dies, Kinds, TypeOK
<1> QED
  BY <1>3, <1>4, <1>5, <1>6, <1>7, <1>8, <1>9, <1>10 DEF Handle, Fail

LEMMA TypeStep == IndInv /\ [Next]_vars => TypeOK'
<1> SUFFICES ASSUME IndInv, [Next]_vars PROVE TypeOK'
  OBVIOUS
<1>0. TypeOK /\ StageInv
  BY DEF IndInv
<1>1. CASE UNCHANGED vars
  BY <1>0, <1>1 DEF vars, rows, mailQueues, ghosts, TypeOK, In
<1>2. ASSUME NEW a \in Addresses, Unsuppress(a) PROVE TypeOK'
  BY <1>0, <1>2 DEF Unsuppress, rows, mailQueues, TypeOK, In
<1> QED
  BY <1>0, <1>1, <1>2, RowTypes, EventTypes, QueueStepTypes, HandlerTypes DEF Next

-----------------------------------------------------------------------------
(* Who holds an event, and what its handler has established.               *)

\* Nothing a failure's handler relied on is taken back.
Keeps == /\ published \subseteq published'
         /\ \A m \in Mails : sending[m] # "ready" => sending'[m] # "ready"
         /\ \A e \in Event : Fails(e) /\ e \in kept \cup applied \cup letGo =>
                               e \in kept' \cup applied' \cup letGo'

LEMMA StageOthers ==
  ASSUME TypeOK, StageInv, Keeps, NEW p \in Parties,
         \A q \in Parties \ {p} : party'[q] = party[q],
         party'[p].pc # "idle" => InStage(p)'
  PROVE  StageInv'
<1> SUFFICES ASSUME NEW q \in Parties \ {p}, ~In(q, "idle")' PROVE InStage(q)'
  BY DEF StageInv, In
<1>1. party'[q] = party[q] /\ ~In(q, "idle") /\ InStage(q)
  BY DEF StageInv, In
<1>2. Of(q) \in Event /\ Of(q).mail \in Mails
  BY <1>1, BusyParty, EventKinds DEF Busy, Of
<1> QED
  BY <1>1, <1>2 DEF InStage, Of, Keeps, Fails, StatusOf, ReasonOf

LEMMA StageStays ==
  ASSUME TypeOK, StageInv, Keeps, UNCHANGED party PROVE StageInv'
<1> SUFFICES ASSUME NEW q \in Parties, ~In(q, "idle")' PROVE InStage(q)'
  BY DEF StageInv
<1>1. party'[q] = party[q] /\ ~In(q, "idle") /\ InStage(q)
  BY DEF StageInv, In
<1>2. Of(q) \in Event /\ Of(q).mail \in Mails
  BY <1>1, BusyParty, EventKinds DEF Busy, Of
<1> QED
  BY <1>1, <1>2 DEF InStage, Of, Keeps, Fails, StatusOf, ReasonOf

\* What becomes of the event a handler is at.
LEMMA Transfer ==
  ASSUME TypeOK, NEW p \in Parties, Handle(p) \/ Fail(p)
  PROVE  /\ UNCHANGED <<published, sending>>
         /\ \/ /\ \E pc \in {"look", "suppress", "find", "set", "recip"} :
                    party'[p] = [party[p] EXCEPT !.pc = pc]
               /\ UNCHANGED <<mailQueues, applied, letGo>>
            \/ party'[p] = Idle /\ p \in Reports /\ UNCHANGED <<mailQueues, applied, letGo>>
            \/ Retry(p) /\ UNCHANGED <<applied, letGo>>
            \/ Ack(p) /\ ~Fails(Of(p)) /\ UNCHANGED <<applied, letGo>>
            \/ Ack(p) /\ applied' = applied \cup {Of(p)} /\ letGo' = letGo \ {Of(p)}
            \/ /\ party'[p] = Idle /\ party[p].from = "kept"
               /\ UNCHANGED <<mailQueues, applied, letGo>>
<1> USE DEF rows, ghosts
<1>0. /\ ~In(p, "idle") /\ party[p] \in Busy
      /\ \A x : party' = [party EXCEPT ![p] = x] => party'[p] = x
  BY HandlerMoves DEF TypeOK
<1>r. party[p].from = "report" <=> p \in Reports
  BY <1>0 DEF TypeOK
<1>1. ASSUME AfterSuppression(p), UNCHANGED <<mailQueues, applied, letGo>>
      PROVE  \/ /\ \E pc \in {"look", "suppress", "find", "set", "recip"} :
                     party'[p] = [party[p] EXCEPT !.pc = pc]
                /\ UNCHANGED <<mailQueues, applied, letGo>>
             \/ party'[p] = Idle /\ p \in Reports /\ UNCHANGED <<mailQueues, applied, letGo>>
  BY <1>0, <1>r, <1>1 DEF AfterSuppression
<1>2. ASSUME NEW pc, Goto(p, pc) PROVE party'[p] = [party[p] EXCEPT !.pc = pc]
  BY <1>0, <1>2 DEF Goto
<1>3. CASE Look(p)
  BY <1>1, <1>2, <1>3 DEF Look
<1>4. CASE Suppress(p) \/ SuppressionFails(p)
  BY <1>1, <1>4 DEF Suppress, SuppressionFails
<1>5. CASE Find(p)
  <2>1. CASE Known(Of(p).mail)
    BY <1>2, <1>5, <2>1 DEF Find, FoundThen
  <2>2. CASE ~Known(Of(p).mail)
    BY <1>5, <2>2 DEF Find
  <2> QED
    BY <2>1, <2>2
<1>6. CASE SetState(p)
  BY <1>0, <1>r, <1>6 DEF SetState
<1>7. CASE RecordRecipient(p)
  BY <1>7 DEF RecordRecipient
<1>8. CASE CallThrows(p)
  BY <1>8 DEF CallThrows
<1>9. CASE Dies(p)
  BY <1>0, <1>9 DEF Dies
<1> QED
  BY <1>3, <1>4, <1>5, <1>6, <1>7, <1>8, <1>9 DEF Handle, Fail

\* An event somebody answers for.
Safe(e) == e \in applied \cup letGo \/ Held(e)

LEMMA RetryKeeps ==
  ASSUME TypeOK, NEW p \in Parties, ~In(p, "idle"), Retry(p)
  PROVE  /\ p \notin Reports => \/ \E m \in queue' \cup dlq' : m.event = Of(p)
                                \/ Of(p) \in kept'
         /\ queue \subseteq queue' /\ dlq \subseteq dlq' /\ kept \subseteq kept'
         /\ \A m \in queue' \cup dlq' : m \in queue \cup dlq \/ m.event = Of(p)
         /\ kept' \subseteq kept \cup {Of(p)}
         /\ party'[p] = Idle /\ \A q \in Parties \ {p} : party'[q] = party[q]
<1>1. party[p] \in Busy /\ (party[p].from = "report" <=> p \in Reports)
  BY BusyParty DEF TypeOK
<1>2. party[p].from \in {"queue", "kept", "report"} /\ party[p].tries \in Nat /\ MaxRetries \in Nat
  BY <1>1, Limits DEF Busy
<1>3. party'[p] = Idle /\ \A q \in Parties \ {p} : party'[q] = party[q]
  BY DEF Retry, TypeOK
<1>4. CASE party[p].from = "kept"
  BY <1>1, <1>3, <1>4 DEF Retry
<1>5. CASE party[p].from = "queue" /\ party[p].tries <= MaxRetries
  <2>1. /\ queue' = queue \cup {[event |-> Of(p), tries |-> party[p].tries]}
        /\ UNCHANGED <<dlq, kept>>
    BY <1>2, <1>5 DEF Retry
  <2>2. [event |-> Of(p), tries |-> party[p].tries].event = Of(p)
    OBVIOUS
  <2> QED
    BY <1>3, <2>1, <2>2
<1>6. CASE party[p].from = "queue" /\ party[p].tries > MaxRetries
  <2>1. dlq' = dlq \cup {[event |-> Of(p), tries |-> 0]} /\ UNCHANGED <<queue, kept>>
    BY <1>2, <1>6 DEF Retry
  <2>2. [event |-> Of(p), tries |-> 0].event = Of(p)
    OBVIOUS
  <2> QED
    BY <1>3, <2>1, <2>2
<1>7. CASE party[p].from = "report"
  BY <1>1, <1>3, <1>7 DEF Retry, mailQueues
<1> QED
  BY <1>2, <1>4, <1>5, <1>6, <1>7

LEMMA HandlerCustody ==
  ASSUME TypeOK, StageInv, QueuedInv, FailuresNotLost, NEW p \in Parties, Handle(p) \/ Fail(p)
  PROVE  Keeps /\ QueuedInv' /\ FailuresNotLost'
<1>0. /\ ~In(p, "idle") /\ party[p] \in Busy /\ InStage(p)
      /\ \A q \in Parties \ {p} : party'[q] = party[q]
      /\ UNCHANGED <<published, sending>>
  BY HandlerMoves, Transfer DEF StageInv
<1>h. ASSUME NEW e \in published, Fails(e) PROVE Safe(e)
  BY <1>h DEF FailuresNotLost, Safe
<1>1. CASE /\ \E pc \in {"look", "suppress", "find", "set", "recip"} :
                party'[p] = [party[p] EXCEPT !.pc = pc]
           /\ UNCHANGED <<mailQueues, applied, letGo>>
  <2>1. ASSUME NEW q \in Parties PROVE Of(q)' = Of(q) /\ (In(q, "idle")' <=> In(q, "idle"))
    BY <1>0, <1>1 DEF Of, In, Busy
  <2> QED
    BY <1>0, <1>1, <1>h, <2>1 DEF mailQueues, Keeps, QueuedInv, FailuresNotLost, Safe, Held
<1>2. CASE party'[p] = Idle /\ p \in Reports /\ UNCHANGED <<mailQueues, applied, letGo>>
  <2>1. ASSUME NEW q \in Parties \ Reports
        PROVE  Of(q)' = Of(q) /\ (In(q, "idle")' <=> In(q, "idle"))
    BY <1>0, <1>2 DEF Of, In
  <2> QED
    BY <1>0, <1>2, <1>h, <2>1 DEF mailQueues, Keeps, QueuedInv, FailuresNotLost, Safe, Held
<1>3. CASE Retry(p) /\ UNCHANGED <<applied, letGo>>
  <2>1. ASSUME NEW q \in Parties \ {p}
        PROVE  Of(q)' = Of(q) /\ (In(q, "idle")' <=> In(q, "idle"))
    BY <1>0 DEF Of, In
  <2>2. Keeps
    BY <1>0, <1>3, RetryKeeps DEF Keeps
  <2>3. p \in Reports => UNCHANGED mailQueues
    BY <1>0, <1>3 DEF Retry, TypeOK
  <2>4. QueuedInv'
    BY <1>0, <1>3, <2>3, RetryKeeps DEF QueuedInv, InStage, mailQueues
  <2>5. ASSUME NEW e \in published, Fails(e) PROVE Safe(e)'
    BY <1>0, <1>3, <1>h, <2>1, <2>5, RetryKeeps DEF Safe, Held
  <2> QED
    BY <1>0, <2>2, <2>4, <2>5 DEF FailuresNotLost, Safe
<1>4. CASE Ack(p) /\ ~Fails(Of(p)) /\ UNCHANGED <<applied, letGo>>
  <2>1. ASSUME NEW q \in Parties \ {p}
        PROVE  Of(q)' = Of(q) /\ (In(q, "idle")' <=> In(q, "idle"))
    BY <1>0 DEF Of, In
  <2>2. queue' = queue /\ dlq' = dlq /\ kept \ {Of(p)} \subseteq kept' /\ kept' \subseteq kept
    BY <1>4 DEF Ack
  <2> QED
    BY <1>0, <1>4, <1>h, <2>1, <2>2 DEF Keeps, QueuedInv, FailuresNotLost, Safe, Held
<1>5. CASE Ack(p) /\ applied' = applied \cup {Of(p)} /\ letGo' = letGo \ {Of(p)}
  <2>1. ASSUME NEW q \in Parties \ {p}
        PROVE  Of(q)' = Of(q) /\ (In(q, "idle")' <=> In(q, "idle"))
    BY <1>0 DEF Of, In
  <2>2. queue' = queue /\ dlq' = dlq /\ kept \ {Of(p)} \subseteq kept' /\ kept' \subseteq kept
    BY <1>5 DEF Ack
  <2> QED
    BY <1>0, <1>5, <1>h, <2>1, <2>2 DEF Keeps, QueuedInv, FailuresNotLost, Safe, Held
<1>6. CASE /\ party'[p] = Idle /\ party[p].from = "kept"
           /\ UNCHANGED <<mailQueues, applied, letGo>>
  <2>1. ASSUME NEW q \in Parties \ {p}
        PROVE  Of(q)' = Of(q) /\ (In(q, "idle")' <=> In(q, "idle"))
    BY <1>0 DEF Of, In
  <2>2. Fails(Of(p)) => Of(p) \in kept \cup applied \cup letGo
    BY <1>0, <1>6 DEF InStage
  <2> QED
    BY <1>0, <1>6, <1>h, <2>1, <2>2 DEF mailQueues, Keeps, QueuedInv, FailuresNotLost, Safe, Held
<1> QED
  BY Transfer, <1>1, <1>2, <1>3, <1>4, <1>5, <1>6

LEMMA HandlerStages ==
  ASSUME TypeOK, StageInv, QueuedInv, FailuresNotLost, NEW p \in Parties, Handle(p) \/ Fail(p)
  PROVE  StageInv'
<1>0. /\ ~In(p, "idle") /\ party[p] \in Busy /\ InStage(p)
      /\ \A q \in Parties \ {p} : party'[q] = party[q]
      /\ UNCHANGED <<published, sending>>
      /\ \A x : party' = [party EXCEPT ![p] = x] => party'[p] = x
  BY HandlerMoves, Transfer DEF StageInv, TypeOK
<1>1. Keeps
  BY HandlerCustody
<1>2. Of(p) \in Event /\ Of(p).mail \in Mails /\ (party[p].from = "report" <=> p \in Reports)
  BY <1>0, EventKinds DEF Busy, Of, TypeOK
<1>3. SUFFICES ASSUME party'[p].pc # "idle" PROVE InStage(p)'
  BY <1>0, <1>1, StageOthers
<1>4. PICK pc \in {"look", "suppress", "find", "set", "recip"} :
        party'[p] = [party[p] EXCEPT !.pc = pc]
  <2>1. party'[p] # Idle
    BY <1>3 DEF Idle
  <2> QED
    BY <2>1, HandlerMoves
<1>5. /\ Of(p)' = Of(p) /\ party'[p].from = party[p].from /\ party'[p].pc = pc
  BY <1>0, <1>4 DEF Of, Busy
<1>6. SUFFICES /\ p \in Reports => pc \in {"set", "look", "suppress"}
               /\ pc \in {"look", "suppress"} => ReasonOf(Of(p)) # "none"
               /\ pc = "set" => Fails(Of(p)) /\ sending[Of(p).mail] # "ready"
  BY <1>0, <1>1, <1>2, <1>5 DEF InStage, Keeps
<1>7. ASSUME AfterSuppression(p) PROVE p \notin Reports /\ pc = "find"
  <2>1. party[p].from # "report"
    BY <1>0, <1>3, <1>7 DEF AfterSuppression, Idle
  <2>2. party'[p] = [party[p] EXCEPT !.pc = "find"]
    BY <1>0, <1>7, <2>1 DEF AfterSuppression
  <2> QED
    BY <1>0, <1>2, <1>5, <2>1, <2>2 DEF Busy
<1>8. ASSUME NEW s, Goto(p, s) PROVE pc = s
  <2>1. party'[p] = [party[p] EXCEPT !.pc = s]
    BY <1>0, <1>8 DEF Goto
  <2> QED
    BY <1>0, <1>5, <2>1 DEF Busy
<1>9. CASE Look(p)
  BY <1>0, <1>7, <1>8, <1>9 DEF Look, In, InStage
<1>10. CASE Suppress(p) \/ SuppressionFails(p)
  BY <1>7, <1>10 DEF Suppress, SuppressionFails
<1>11. CASE Find(p)
  <2>1. p \notin Reports
    BY <1>0, <1>11 DEF Find, In, InStage
  <2>2. Known(Of(p).mail) /\ FoundThen(p)
    <3>1. ~Ack(p) /\ ~Retry(p)
      BY <1>0, <1>3 DEF Ack, Retry, Idle
    <3> QED
      BY <1>11, <3>1 DEF Find
  <2> QED
    BY <1>8, <2>1, <2>2 DEF FoundThen, Known
<1>12. CASE SetState(p)
  <2>1. CASE party[p].from # "report"
    <3>1. party'[p] = [party[p] EXCEPT !.pc = "recip"]
      BY <1>0, <1>12, <2>1 DEF SetState
    <3>2. pc = "recip"
      BY <1>0, <1>5, <3>1 DEF Busy
    <3> QED
      BY <1>2, <2>1, <3>2
  <2>2. CASE party[p].from = "report"
    <3>1. ReasonOf(Of(p)) # "none"
      <4>1. ReasonOf(Of(p)) = "none" => party' = [party EXCEPT ![p] = Idle]
        BY <1>12, <2>2 DEF SetState, Of
      <4>2. ReasonOf(Of(p)) = "none" => party'[p] = Idle
        BY <1>0, <4>1
      <4> QED
        BY <1>3, <4>2 DEF Idle
    <3>2. party'[p] = [party[p] EXCEPT !.pc = "look"]
      BY <1>0, <1>12, <2>2, <3>1 DEF SetState, Of
    <3>3. pc = "look"
      BY <1>0, <1>5, <3>2 DEF Busy
    <3> QED
      BY <3>1, <3>3
  <2> QED
    BY <2>1, <2>2
<1>13. CASE RecordRecipient(p) \/ CallThrows(p) \/ Dies(p)
  BY <1>0, <1>3, <1>13 DEF RecordRecipient, CallThrows, Dies, Ack, Retry, Idle
<1> QED
  BY <1>9, <1>10, <1>11, <1>12, <1>13 DEF Handle, Fail

\* A handler that starts at its event leaves the others as they are.
LEMMA StartStage ==
  ASSUME TypeOK, StageInv, Keeps, NEW p \in Parties, NEW e \in Event, NEW n, NEW f, NEW s,
         party' = [party EXCEPT ![p] = At(e, n, f, s)],
         /\ p \in Reports => s \in {"set", "look"}
         /\ s \in {"look", "suppress"} => ReasonOf(e) # "none"
         /\ s = "set" => Fails(e) /\ sending'[e.mail] # "ready"
         /\ p \notin Reports => e \in published'
         /\ f = "kept" /\ Fails(e) => e \in kept' \cup applied' \cup letGo'
  PROVE  StageInv'
<1>1. party'[p] = At(e, n, f, s) /\ \A q \in Parties \ {p} : party'[q] = party[q]
  BY DEF TypeOK
<1>2. Of(p)' = e /\ party'[p].from = f /\ party'[p].pc = s
  BY <1>1 DEF Of, At
<1>3. InStage(p)'
  BY <1>2 DEF InStage
<1> QED
  BY <1>1, <1>3, StageOthers

LEMMA CustodyStep == IndInv /\ [Next]_vars => StageInv' /\ QueuedInv' /\ FailuresNotLost'
<1> SUFFICES ASSUME IndInv, [Next]_vars PROVE StageInv' /\ QueuedInv' /\ FailuresNotLost'
  OBVIOUS
<1>0. TypeOK /\ StageInv /\ QueuedInv /\ FailuresNotLost
  BY DEF IndInv
<1>h. \A e \in published : Fails(e) => Safe(e)
  BY <1>0 DEF FailuresNotLost, Safe
<1> USE <1>0 DEF rows, mailQueues, ghosts
<1>1. ASSUME UNCHANGED <<published, queue, dlq, kept, party, applied, letGo>>,
             \A m \in Mails : sending[m] # "ready" => sending'[m] # "ready"
      PROVE  StageInv' /\ QueuedInv' /\ FailuresNotLost'
  <2>1. Keeps
    BY <1>1 DEF Keeps
  <2> QED
    BY <1>1, <2>1, StageStays DEF QueuedInv, FailuresNotLost, Held, In, Of
<1>2. ASSUME NEW m \in Mails, Transmit(m) \/ Sender(m) \/ DeleteRow(m)
      PROVE  StageInv' /\ QueuedInv' /\ FailuresNotLost'
  <2>1. /\ UNCHANGED <<published, queue, dlq, kept, party, applied, letGo>>
        /\ \A n \in Mails : sending[n] # "ready" => sending'[n] # "ready"
    BY <1>2 DEF Transmit, Sender, DeleteRow, Record, RecordFails, RecordMarked, Recover, Step,
                TypeOK
  <2> QED
    BY <1>1, <2>1
<1>3. ASSUME NEW a \in Addresses, Unsuppress(a)
      PROVE  StageInv' /\ QueuedInv' /\ FailuresNotLost'
  BY <1>1, <1>3 DEF Unsuppress
<1>4. ASSUME NEW e \in Event, Publish(e) \/ Duplicate(e)
      PROVE  StageInv' /\ QueuedInv' /\ FailuresNotLost'
  <2>1. /\ published' = published \cup {e} /\ queue' = queue \cup {[event |-> e, tries |-> 0]}
        /\ UNCHANGED <<sending, dlq, kept, party, applied, letGo>>
    BY <1>4 DEF Publish, Duplicate
  <2>2. Keeps
    BY <2>1 DEF Keeps
  <2>3. [event |-> e, tries |-> 0].event = e
    OBVIOUS
  <2> QED
    BY <1>h, <2>1, <2>2, <2>3, StageStays DEF QueuedInv, FailuresNotLost, Safe, Held, In, Of
<1>5. ASSUME NEW e \in Event, AliasUnread(e) \/ Discard(e)
      PROVE  StageInv' /\ QueuedInv' /\ FailuresNotLost'
  <2>1. /\ letGo' = letGo \cup ({e} \ applied) /\ queue' \subseteq queue
        /\ kept' \subseteq kept /\ kept \ {e} \subseteq kept'
        /\ \A m \in queue : m \in queue' \/ m.event = e
        /\ UNCHANGED <<published, sending, dlq, party, applied>>
    BY <1>5 DEF AliasUnread, Discard, LetGo
  <2>2. Keeps
    BY <2>1 DEF Keeps
  <2> QED
    BY <1>h, <2>1, <2>2, StageStays DEF QueuedInv, FailuresNotLost, Safe, Held, In, Of
<1>6. ASSUME NEW e \in Event, Replay(e) PROVE StageInv' /\ QueuedInv' /\ FailuresNotLost'
  <2>1. Keeps /\ UNCHANGED <<published, sending, queue, dlq, kept, applied, letGo>>
    BY <1>6 DEF Replay, Keeps
  <2>2. e \in published
    BY <1>6 DEF Replay, QueuedInv
  <2>3. StageInv'
    BY <1>6, <2>1, <2>2, StartStage, NamesApart, FirstStage DEF Replay, First
  <2>4. \A q \in Parties : q # Operator => party'[q] = party[q]
    BY <1>6 DEF Replay, TypeOK
  <2>5. \A d \in published : Fails(d) => Safe(d)'
    BY <1>6, <1>h, <2>1, <2>4 DEF Replay, Safe, Held, In, Of
  <2> QED
    BY <2>1, <2>3, <2>5 DEF QueuedInv, FailuresNotLost, Safe
<1>7. ASSUME NEW e \in Event, NEW r \in Reports, ReportArrives(r, e)
      PROVE  StageInv' /\ QueuedInv' /\ FailuresNotLost'
  <2>1. Keeps /\ UNCHANGED <<published, sending, queue, dlq, kept, applied, letGo>>
    BY <1>7 DEF ReportArrives, Keeps
  <2>2. Fails(e)
    BY <1>7 DEF ReportArrives, Fails, StatusOf, Failures
  <2>3. StageInv'
    BY <1>7, <2>1, <2>2, StartStage, NamesApart DEF ReportArrives
  <2>4. \A q \in Parties : q # r => party'[q] = party[q]
    BY <1>7 DEF ReportArrives, TypeOK
  <2>5. \A d \in published : Fails(d) => Safe(d)'
    BY <1>h, <2>1, <2>4 DEF Safe, Held, In, Of
  <2> QED
    BY <2>1, <2>3, <2>5 DEF QueuedInv, FailuresNotLost, Safe
<1>8. ASSUME NEW c \in Consumers, NEW m \in queue, Take(c, m)
      PROVE  StageInv' /\ QueuedInv' /\ FailuresNotLost'
  <2>1. Keeps /\ UNCHANGED <<published, sending, dlq, kept, applied, letGo>>
    BY <1>8 DEF Take, Keeps
  <2>2. m.event \in published /\ m.event \in Event
    BY DEF QueuedInv, TypeOK, Message
  <2>s. /\ party' = [party EXCEPT ![c] = At(m.event, m.tries + 1, "queue", First(m.event))]
        /\ First(m.event) \in {"look", "find"}
        /\ First(m.event) = "look" => ReasonOf(m.event) # "none"
        /\ c \in Parties /\ c \notin Reports
    BY <1>8, NamesApart DEF Take, First
  <2>4. /\ party'[c] = At(m.event, m.tries + 1, "queue", First(m.event))
        /\ \A q \in Parties : q # c => party'[q] = party[q]
    BY <1>8, NamesApart DEF Take, TypeOK
  <2>5. c \in Parties \ Reports /\ ~In(c, "idle")' /\ Of(c)' = m.event
    BY <2>4, NamesApart, FirstStage DEF In, Of, At
  <2>3. StageInv'
    <3>1. Of(c)' = m.event /\ party'[c].from = "queue" /\ party'[c].pc = First(m.event)
      BY <2>4 DEF Of, At
    <3>2. InStage(c)'
      BY <2>1, <2>2, <2>s, <3>1 DEF InStage
    <3> QED
      BY <2>1, <2>s, <2>4, <3>2, StageOthers
  <2>6. \A e \in published : Fails(e) => Safe(e)'
    BY <1>8, <1>h, <2>1, <2>4, <2>5 DEF Take, Safe, Held, In, Of
  <2> QED
    BY <1>8, <2>1, <2>3, <2>6 DEF Take, QueuedInv, FailuresNotLost, Safe
<1>9. ASSUME NEW p \in Parties, Handle(p) \/ Fail(p)
      PROVE  StageInv' /\ QueuedInv' /\ FailuresNotLost'
  BY <1>9, HandlerStages, HandlerCustody
<1>10. ASSUME NEW m \in dlq, StoreDeadLetter(m) \/ StoreFails(m)
       PROVE  StageInv' /\ QueuedInv' /\ FailuresNotLost'
  <2>1. /\ UNCHANGED <<published, sending, queue, party, applied>>
        /\ kept \subseteq kept' /\ letGo \subseteq letGo' /\ kept' \subseteq kept \cup {m.event}
        /\ \A n \in dlq \ {m} : n \in dlq'
        /\ \A n \in dlq' : n \in dlq \/ n.event = m.event
    BY <1>10 DEF StoreDeadLetter, StoreFails, LetGo, TypeOK, Message
  <2>2. m.event \in kept' \cup letGo' \cup applied \/ \E n \in dlq' : n.event = m.event
    <3>1. [m EXCEPT !.tries = @ + 1].event = m.event
      BY DEF TypeOK, Message
    <3> QED
      BY <1>10, <3>1 DEF StoreDeadLetter, StoreFails, LetGo
  <2>3. Keeps
    BY <2>1 DEF Keeps
  <2> QED
    BY <1>h, <2>1, <2>2, <2>3, StageStays DEF QueuedInv, FailuresNotLost, Safe, Held, In, Of
<1>11. CASE UNCHANGED vars
  BY <1>1, <1>11 DEF vars
<1> QED
  BY <1>2, <1>3, <1>4, <1>5, <1>6, <1>7, <1>8, <1>9, <1>10, <1>11 DEF Next

-----------------------------------------------------------------------------
(* The suppression list.                                                   *)

ListInv == OwedInv /\ BehindInv /\ SuppressionHolds

\* SuppressionHolds in the words of OwedInv.
LEMMA HoldsIsOwed == SuppressionHolds <=> \A e \in applied : Owed(e)
BY DEF SuppressionHolds, Owed

\* One handler moves and the list stays as it is.
LEMMA ListStays ==
  ASSUME TypeOK, ListInv, UNCHANGED <<suppressed, excuse>>, NEW p \in Parties,
         \A q \in Parties \ {p} : party'[q] = party[q],
         \A e \in applied' : e \in applied \/ Owed(e),
         PastSuppression(p)' => Owed(party'[p].event),
         party'[p].pc = "suppress" /\ ReasonOf(party'[p].event) # "complaint" =>
           (suppressed[party'[p].event.to] = "complaint" =>
             excuse[party'[p].event.to] # "none")
  PROVE  ListInv'
<1>1. \A e : Owed(e)' <=> Owed(e)
  BY DEF Owed
<1>2. OwedInv'
  BY <1>1 DEF ListInv, OwedInv, PastSuppression, Of
<1>3. BehindInv'
  BY DEF ListInv, BehindInv, In, Of
<1>4. \A e \in applied' : Owed(e)'
  BY <1>1, HoldsIsOwed DEF ListInv
<1>5. SuppressionHolds'
  BY <1>4 DEF SuppressionHolds, Owed
<1> QED
  BY <1>2, <1>3, <1>5 DEF ListInv

LEMMA ListUntouched ==
  ASSUME ListInv, UNCHANGED <<suppressed, excuse, party, applied>> PROVE ListInv'
BY DEF ListInv, OwedInv, BehindInv, SuppressionHolds, Owed, PastSuppression, In, Of

\* The list or the excuses change: enough that what was owed stays owed.
LEMMA ListChanges ==
  ASSUME TypeOK, ListInv, UNCHANGED applied, NEW p \in Parties,
         \A q \in Parties \ {p} : party'[q] = party[q],
         PastSuppression(p)' => Owed(Of(p))',
         party'[p].pc # "suppress",
         \A e \in Event : Owed(e) => Owed(e)',
         \A q \in Parties \ {p} : In(q, "suppress") /\ ReasonOf(Of(q)) # "complaint" =>
           (suppressed'[Of(q).to] = "complaint" => excuse'[Of(q).to] # "none")
  PROVE  ListInv'
<1>1. \A q \in Parties : PastSuppression(q) => Of(q) \in Event
  BY BusyParty DEF PastSuppression, Busy, Of, In
<1>2. OwedInv'
  <2>1. ASSUME NEW q \in Parties \ {p}, PastSuppression(q)' PROVE Owed(Of(q))'
    <3>1. PastSuppression(q) /\ Of(q)' = Of(q)
      BY <2>1 DEF PastSuppression, Of
    <3>2. Owed(Of(q))'
      BY <1>1, <3>1 DEF ListInv, OwedInv, Owed
    <3> QED
      BY <3>2
  <2> QED
    BY <2>1 DEF OwedInv
<1>3. BehindInv'
  BY DEF ListInv, BehindInv, In, Of
<1>4. \A e \in applied' : Owed(e)'
  BY HoldsIsOwed DEF ListInv, TypeOK
<1>5. SuppressionHolds'
  BY <1>4 DEF SuppressionHolds, Owed
<1> QED
  BY <1>2, <1>3, <1>5 DEF ListInv

LEMMA HandlerList ==
  ASSUME TypeOK, StageInv, ListInv, NEW p \in Parties, Handle(p) \/ Fail(p) PROVE ListInv'
<1> USE DEF ghosts
<1>0. /\ ~In(p, "idle") /\ party[p] \in Busy /\ InStage(p)
      /\ \A q \in Parties \ {p} : party'[q] = party[q]
      /\ \A x : party' = [party EXCEPT ![p] = x] => party'[p] = x
  BY HandlerMoves DEF StageInv, TypeOK
<1>1. /\ Of(p) \in Event /\ Of(p).to \in Addresses
      /\ ReasonOf(Of(p)) \in {"none", "hard_bounce", "complaint"}
      /\ party[p].from = "report" <=> p \in Reports
  BY <1>0, EventKinds DEF Busy, Of, TypeOK
<1>2. \/ party'[p] = Idle
      \/ /\ \E pc \in {"look", "suppress", "find", "set", "recip"} :
              party'[p] = [party[p] EXCEPT !.pc = pc]
         /\ party'[p].event = Of(p)
  BY <1>0, HandlerMoves DEF Busy, Of
<1>3. PastSuppression(p)' => party'[p].event = Of(p)
  BY <1>2 DEF PastSuppression, Idle
<1>4. ASSUME AfterSuppression(p)
      PROVE  party'[p].pc # "suppress"
  <2>1. party'[p] = Idle \/ party'[p] = [party[p] EXCEPT !.pc = "find"]
    BY <1>0, <1>4 DEF AfterSuppression
  <2> QED
    BY <1>0, <2>1 DEF Idle, Busy
<1>5. CASE Look(p)
  <2>1. UNCHANGED <<suppressed, excuse, applied>>
    BY <1>5 DEF Look
  <2>2. CASE suppressed[Of(p).to] = "complaint" /\ ReasonOf(Of(p)) # "complaint"
    <3>1. AfterSuppression(p) /\ Owed(Of(p))
      BY <1>5, <2>2 DEF Look, Owed
    <3> QED
      BY <1>0, <1>3, <1>4, <2>1, <3>1, ListStays
  <2>3. CASE ~(suppressed[Of(p).to] = "complaint" /\ ReasonOf(Of(p)) # "complaint")
    <3>1. party'[p] = [party[p] EXCEPT !.pc = "suppress"]
      BY <1>0, <1>5, <2>3 DEF Look, Goto
    <3>2. party'[p].pc = "suppress" /\ party'[p].event = Of(p)
      BY <1>0, <3>1 DEF Busy, Of
    <3> QED
      BY <1>0, <2>1, <2>3, <3>2, ListStays DEF PastSuppression
  <2> QED
    BY <2>2, <2>3
<1>6. CASE Suppress(p)
  <2>1. /\ suppressed' = [suppressed EXCEPT ![Of(p).to] = ReasonOf(Of(p))]
        /\ ReasonOf(Of(p)) \in {"hard_bounce", "complaint"}
        /\ UNCHANGED applied /\ AfterSuppression(p) /\ In(p, "suppress")
    BY <1>0, <1>1, <1>6 DEF Suppress, PutReason, InStage, In
  <2>2. \A a \in Addresses : suppressed'[a] = IF a = Of(p).to THEN ReasonOf(Of(p)) ELSE suppressed[a]
    BY <2>1 DEF TypeOK
  <2>3. \A a \in Addresses : /\ excuse[a] # "none" => excuse'[a] # "none"
                             /\ excuse'[a] = "full" <=> excuse[a] = "full"
    BY <1>1, <1>6 DEF Suppress, NoteRace, TypeOK
  <2>4. ReasonOf(Of(p)) # "complaint" /\ suppressed[Of(p).to] = "complaint" =>
          excuse[Of(p).to] # "none"
    BY <2>1 DEF ListInv, BehindInv
  <2>5. \A e \in Event : Owed(e) => Owed(e)'
    <3> SUFFICES ASSUME NEW e \in Event, Owed(e), ReasonOf(e) # "none", excuse'[e.to] # "full"
                 PROVE  /\ suppressed'[e.to] # "none"
                        /\ ReasonOf(e) = "complaint" /\ excuse'[e.to] = "none" =>
                             suppressed'[e.to] = "complaint"
      BY DEF Owed
    <3>1. e.to \in Addresses
      BY EventKinds
    <3> QED
      BY <2>1, <2>2, <2>3, <2>4, <3>1 DEF Owed
  <2>6. /\ suppressed'[Of(p).to] # "none"
        /\ ReasonOf(Of(p)) = "complaint" => suppressed'[Of(p).to] = "complaint"
    <3>1. suppressed'[Of(p).to] = ReasonOf(Of(p))
      BY <1>1, <2>2
    <3> QED
      BY <2>1, <3>1
  <2>7. ASSUME NEW q \in Parties \ {p}, In(q, "suppress"), ReasonOf(Of(q)) # "complaint",
               suppressed'[Of(q).to] = "complaint"
        PROVE  excuse'[Of(q).to] # "none"
    <3>1. Of(q).to \in Addresses
      BY <2>7, BusyParty, EventKinds DEF In, Busy, Of
    <3>2. CASE Of(q).to = Of(p).to /\ ReasonOf(Of(p)) = "complaint"
      <4>1. BehindComplaint(p)
        BY <2>7, <3>2 DEF BehindComplaint
      <4> QED
        BY <1>1, <1>6, <3>2, <4>1 DEF Suppress, NoteRace, TypeOK
    <3>3. CASE ~(Of(q).to = Of(p).to /\ ReasonOf(Of(p)) = "complaint")
      <4>1. suppressed[Of(q).to] = "complaint"
        BY <2>2, <2>7, <3>1, <3>3
      <4> QED
        BY <2>3, <2>7, <3>1, <4>1 DEF ListInv, BehindInv
    <3> QED
      BY <3>2, <3>3
  <2>8. PastSuppression(p)' => Owed(Of(p))'
    <3>1. PastSuppression(p)' => Of(p)' = Of(p)
      BY <1>3 DEF Of
    <3> QED
      BY <2>6, <3>1 DEF Owed
  <2> QED
    BY <1>0, <1>4, <2>1, <2>5, <2>7, <2>8, ListChanges
<1>7. CASE SuppressionFails(p)
  <2>1. /\ excuse' = [excuse EXCEPT ![Of(p).to] = "full"] /\ UNCHANGED <<suppressed, applied>>
        /\ AfterSuppression(p)
    BY <1>7 DEF SuppressionFails
  <2>2. \A a \in Addresses : excuse'[a] = IF a = Of(p).to THEN "full" ELSE excuse[a]
    BY <2>1 DEF TypeOK
  <2>3. \A e \in Event : Owed(e) => Owed(e)'
    BY <2>1, <2>2, EventKinds DEF Owed
  <2>4. \A q \in Parties \ {p} : In(q, "suppress") /\ ReasonOf(Of(q)) # "complaint" =>
          (suppressed'[Of(q).to] = "complaint" => excuse'[Of(q).to] # "none")
    <3>1. \A q \in Parties : In(q, "suppress") => Of(q).to \in Addresses
      BY BusyParty, EventKinds DEF In, Busy, Of
    <3> QED
      BY <2>1, <2>2, <3>1 DEF ListInv, BehindInv
  <2>5. PastSuppression(p)' => Owed(Of(p))'
    <3>1. excuse'[Of(p).to] = "full"
      BY <1>1, <2>2
    <3>2. PastSuppression(p)' => Of(p)' = Of(p)
      BY <1>3 DEF Of
    <3> QED
      BY <3>1, <3>2 DEF Owed
  <2> QED
    BY <1>0, <1>4, <2>1, <2>3, <2>4, <2>5, ListChanges
<1>8. CASE Find(p) \/ SetState(p) \/ RecordRecipient(p) \/ CallThrows(p) \/ Dies(p)
  <2>1. UNCHANGED <<suppressed, excuse>>
    BY <1>8 DEF Find, SetState, RecordRecipient, CallThrows, Dies
  <2>2. PastSuppression(p)' => PastSuppression(p)
    <3>1. CASE Find(p)
      BY <1>0, <3>1 DEF Find, PastSuppression, In
    <3>2. CASE SetState(p)
      BY <1>0, <3>2 DEF SetState, PastSuppression, In
    <3>3. CASE RecordRecipient(p) \/ CallThrows(p) \/ Dies(p)
      BY <1>0, <3>3 DEF RecordRecipient, CallThrows, Dies, Ack, Retry, PastSuppression, Idle
    <3> QED
      BY <1>8, <3>1, <3>2, <3>3
  <2>3. \A e \in applied' : e \in applied \/ Owed(e)
    <3>1. CASE RecordRecipient(p)
      <4>1. PastSuppression(p)
        BY <1>0, <3>1 DEF RecordRecipient, PastSuppression, In, InStage
      <4> QED
        BY <3>1, <4>1 DEF RecordRecipient, ListInv, OwedInv
    <3>2. CASE ~RecordRecipient(p)
      BY <1>8, <3>2 DEF Find, SetState, CallThrows, Dies
    <3> QED
      BY <3>1, <3>2
  <2>4. PastSuppression(p)' => Owed(party'[p].event)
    BY <1>3, <2>2 DEF ListInv, OwedInv
  <2>5. party'[p].pc # "suppress"
    <3>1. CASE Find(p)
      <4>1. party'[p] = Idle \/ \E s \in {"set", "recip"} : party'[p] = [party[p] EXCEPT !.pc = s]
        BY <1>0, <3>1 DEF Find, FoundThen, Goto, Ack, Retry
      <4> QED
        BY <1>0, <4>1 DEF Idle, Busy
    <3>2. CASE SetState(p)
      <4>1. party'[p] = Idle \/ \E s \in {"recip", "look"} : party'[p] = [party[p] EXCEPT !.pc = s]
        BY <1>0, <3>2 DEF SetState
      <4> QED
        BY <1>0, <4>1 DEF Idle, Busy
    <3>3. CASE RecordRecipient(p) \/ CallThrows(p) \/ Dies(p)
      BY <1>0, <3>3 DEF RecordRecipient, CallThrows, Dies, Ack, Retry, Idle
    <3> QED
      BY <1>8, <3>1, <3>2, <3>3
  <2> QED
    BY <1>0, <2>1, <2>3, <2>4, <2>5, ListStays
<1> QED
  BY <1>5, <1>6, <1>7, <1>8 DEF Handle, Fail

LEMMA ListStep == IndInv /\ [Next]_vars => ListInv'
<1> SUFFICES ASSUME IndInv, [Next]_vars PROVE ListInv'
  OBVIOUS
<1>0. TypeOK /\ StageInv /\ ListInv
  BY DEF IndInv, ListInv
<1> USE <1>0 DEF rows, mailQueues, ghosts
<1>1. ASSUME NEW m \in Mails, Transmit(m) \/ Sender(m) \/ DeleteRow(m) PROVE ListInv'
  BY <1>1, ListUntouched DEF Transmit, Sender, DeleteRow, Record, RecordFails, RecordMarked,
                             Recover
<1>2. ASSUME NEW a \in Addresses, Unsuppress(a) PROVE ListInv'
  <2>1. /\ \A b \in Addresses : /\ suppressed'[b] = IF b = a THEN "none" ELSE suppressed[b]
                                /\ excuse'[b] = IF b = a THEN "full" ELSE excuse[b]
        /\ UNCHANGED <<party, applied>>
    BY <1>2 DEF Unsuppress, TypeOK
  <2>2. \A e \in Event : Owed(e) => Owed(e)'
    BY <2>1, EventKinds DEF Owed
  <2>3. \A q \in Parties : ~In(q, "idle") => Of(q) \in Event
    BY BusyParty DEF Busy, Of
  <2>4. OwedInv'
    BY <2>1, <2>2, <2>3 DEF ListInv, OwedInv, PastSuppression, In, Of, Owed
  <2>5. BehindInv'
    BY <2>1, <2>3, EventKinds DEF ListInv, BehindInv, In, Of
  <2>6. \A e \in applied' : Owed(e)'
    BY <2>1, <2>2, HoldsIsOwed DEF ListInv, TypeOK
  <2> QED
    BY <2>4, <2>5, <2>6 DEF ListInv, SuppressionHolds, Owed
<1>3. ASSUME NEW e \in Event, Publish(e) \/ Duplicate(e) \/ AliasUnread(e) \/ Discard(e)
      PROVE  ListInv'
  BY <1>3, ListUntouched DEF Publish, Duplicate, AliasUnread, Discard
<1>4. ASSUME NEW p \in Parties, NEW e \in Event, NEW n, NEW f, NEW s,
             party' = [party EXCEPT ![p] = At(e, n, f, s)],
             UNCHANGED <<suppressed, excuse, applied>>,
             s # "suppress", p \in Reports \/ s = "look" \/ ReasonOf(e) = "none"
      PROVE  ListInv'
  <2>1. party'[p] = At(e, n, f, s) /\ \A q \in Parties \ {p} : party'[q] = party[q]
    BY <1>4 DEF TypeOK
  <2>2. party'[p].event = e /\ party'[p].pc = s
    BY <2>1 DEF At
  <2>3. PastSuppression(p)' => Owed(party'[p].event)
    BY <1>4, <2>2 DEF PastSuppression, Owed
  <2> QED
    BY <1>4, <2>1, <2>2, <2>3, ListStays
<1>5. ASSUME NEW e \in Event, Replay(e) PROVE ListInv'
  <2>1. /\ party' = [party EXCEPT ![Operator] = At(e, RecipientTries, "kept", First(e))]
        /\ UNCHANGED <<suppressed, excuse, applied>>
        /\ First(e) = "look" \/ ReasonOf(e) = "none"
        /\ First(e) # "suppress" /\ Operator \in Parties
    BY <1>5, NamesApart DEF Replay, First
  <2> QED
    BY <1>4, <2>1
<1>6. ASSUME NEW e \in Event, NEW r \in Reports, ReportArrives(r, e) PROVE ListInv'
  <2>1. /\ UNCHANGED <<suppressed, excuse, applied>> /\ r \in Parties
        /\ \/ party' = [party EXCEPT ![r] = At(e, 1, "report", "set")]
           \/ party' = [party EXCEPT ![r] = At(e, 1, "report", "look")]
    BY <1>6, NamesApart DEF ReportArrives
  <2> QED
    BY <1>4, <2>1
<1>7. ASSUME NEW c \in Consumers, NEW m \in queue, Take(c, m) PROVE ListInv'
  <2>1. /\ party' = [party EXCEPT ![c] = At(m.event, m.tries + 1, "queue", First(m.event))]
        /\ UNCHANGED <<suppressed, excuse, applied>>
        /\ First(m.event) = "look" \/ ReasonOf(m.event) = "none"
        /\ First(m.event) # "suppress" /\ c \in Parties /\ m.event \in Event
    BY <1>7, NamesApart DEF Take, First, TypeOK, Message
  <2> QED
    BY <1>4, <2>1
<1>8. ASSUME NEW p \in Parties, Handle(p) \/ Fail(p) PROVE ListInv'
  BY <1>8, HandlerList
<1>9. ASSUME NEW m \in dlq, StoreDeadLetter(m) \/ StoreFails(m) PROVE ListInv'
  BY <1>9, ListUntouched DEF StoreDeadLetter, StoreFails
<1>10. CASE UNCHANGED vars
  BY <1>10, ListUntouched DEF vars
<1> QED
  BY <1>1, <1>2, <1>3, <1>5, <1>6, <1>7, <1>8, <1>9, <1>10 DEF Next

-----------------------------------------------------------------------------
(* The statuses: per recipient, and of the Sent row.                       *)

\* The gravest outcome is kept as long as statuses only get graver.
LEMMA WorstStays ==
  ASSUME RecipientsTellTheWorst, UNCHANGED <<recips, applied>>, published \subseteq published',
         \A m \in Mails : status'[m] # "gone" => status[m] # "gone"
  PROVE  RecipientsTellTheWorst'
BY DEF RecipientsTellTheWorst

LEMMA UpsertWorst ==
  ASSUME TypeOK, RecipientsTellTheWorst, NEW e \in Event, e \in published, Upsert(e),
         UNCHANGED <<status, published>>, applied \subseteq applied', applied' \subseteq applied \cup {e}
  PROVE  RecipientsTellTheWorst'
<1> SUFFICES ASSUME NEW m \in Mails, NEW a \in Addresses, status[m] # "gone"
             PROVE  /\ \A d \in applied' : d.mail = m /\ d.to = a =>
                                             Rank(recips'[m][a]) >= Rank(StatusOf(d))
                    /\ recips'[m][a] # "none" =>
                         \E d \in published : d.mail = m /\ d.to = a /\ recips'[m][a] = StatusOf(d)
  BY DEF RecipientsTellTheWorst
<1>0. \A s : Rank(s) \in Nat
  BY RankType
<1>1. e.mail \in Mails /\ e.to \in Addresses
  BY EventKinds
<1>2. CASE e.mail = m /\ e.to = a
  <2>1. recips'[m][a] = IF Replaces(recips[m][a], StatusOf(e)) THEN StatusOf(e) ELSE recips[m][a]
    BY <1>1, <1>2 DEF Upsert, TypeOK
  <2> QED
    BY <1>0, <1>2, <2>1 DEF RecipientsTellTheWorst, Replaces
<1>3. CASE ~(e.mail = m /\ e.to = a)
  <2>1. recips'[m][a] = recips[m][a]
    BY <1>1, <1>3 DEF Upsert, TypeOK
  <2> QED
    BY <1>3, <2>1 DEF RecipientsTellTheWorst
<1> QED
  BY <1>2, <1>3

\* A failure written to a row whose mail was sent.
LEMMA WriteVisible ==
  ASSUME TypeOK, WrittenInv, FailureStaysVisible, NEW m \in Mails, NEW s \in Failures,
         sending[m] # "ready", WriteFailure(m, s), UNCHANGED sending
  PROVE  /\ WrittenInv' /\ FailureStaysVisible'
         /\ \A n \in Mails : status'[n] # "gone" => status[n] # "gone"
BY DEF WriteFailure, Mark, TypeOK, WrittenInv, FailureStaysVisible

StatusInv == RecipientsTellTheWorst /\ WrittenInv /\ FailureStaysVisible

LEMMA StatusUntouched ==
  ASSUME StatusInv, UNCHANGED <<status, recips, sending, applied, told>>,
         published \subseteq published'
  PROVE  StatusInv'
BY WorstStays DEF StatusInv, WrittenInv, FailureStaysVisible

LEMMA RowStatus ==
  ASSUME TypeOK, StatusInv, NEW m \in Mails, Transmit(m) \/ Sender(m) \/ DeleteRow(m)
  PROVE  StatusInv'
<1> USE DEF rows, ghosts, Step, Mark, TypeOK, StatusInv, WrittenInv, FailureStaysVisible, Failures
<1>1. CASE DeleteRow(m)
  <2>1. WrittenInv' /\ FailureStaysVisible'
    BY <1>1 DEF DeleteRow
  <2>2. RecipientsTellTheWorst'
    BY <1>1 DEF DeleteRow, RecipientsTellTheWorst
  <2> QED
    BY <2>1, <2>2
<1>2. CASE ~DeleteRow(m)
  <2>1. /\ UNCHANGED <<recips, applied, told, published>>
        /\ \A n \in Mails : status'[n] # "gone" => status[n] # "gone"
    BY <1>2 DEF Transmit, Sender, Record, RecordFails, RecordMarked, Recover
  <2>2. RecipientsTellTheWorst'
    BY <2>1, WorstStays
  <2>3. WrittenInv' /\ FailureStaysVisible'
    <3>1. CASE Transmit(m) \/ RecordFails(m)
      BY <3>1, <2>1 DEF Transmit, RecordFails
    <3>2. CASE Record(m)
      BY <3>2, <2>1 DEF Record
    <3>3. CASE RecordMarked(m) \/ Recover(m)
      BY <3>3, <2>1 DEF RecordMarked, Recover
    <3> QED
      BY <1>2, <3>1, <3>2, <3>3 DEF Sender
  <2> QED
    BY <2>2, <2>3
<1> QED
  BY <1>1, <1>2

LEMMA HandlerStatus ==
  ASSUME TypeOK, StageInv, StatusInv, NEW p \in Parties, Handle(p) \/ Fail(p)
  PROVE  StatusInv'
<1> USE DEF rows, ghosts
<1>0. ~In(p, "idle") /\ InStage(p) /\ Of(p) \in Event /\ Of(p).mail \in Mails
  BY HandlerMoves, EventKinds DEF StageInv, Busy, Of
<1>1. UNCHANGED <<published, sending>>
  BY Transfer
<1>w. ASSUME In(p, "set"), WriteFailure(Of(p).mail, StatusOf(Of(p))), UNCHANGED <<recips, applied>>
      PROVE  StatusInv'
  <2>1. StatusOf(Of(p)) \in Failures /\ sending[Of(p).mail] # "ready"
    BY <1>0, <1>w DEF InStage, In, Fails
  <2> QED
    BY <1>0, <1>1, <1>w, <2>1, WriteVisible, WorstStays DEF StatusInv
<1>u. ASSUME In(p, "recip"), Upsert(Of(p)), UNCHANGED <<status, told>>,
             applied \subseteq applied', applied' \subseteq applied \cup {Of(p)}
      PROVE  StatusInv'
  <2>1. Of(p) \in published
    BY <1>0, <1>u DEF InStage, In
  <2> QED
    BY <1>0, <1>1, <1>u, <2>1, UpsertWorst DEF StatusInv, WrittenInv, FailureStaysVisible
<1>2. CASE Look(p) \/ Suppress(p) \/ SuppressionFails(p) \/ Find(p) \/ Dies(p)
  BY <1>1, <1>2, StatusUntouched DEF Look, Suppress, SuppressionFails, Find, Dies
<1>3. CASE SetState(p)
  BY <1>3, <1>w DEF SetState
<1>4. CASE RecordRecipient(p)
  BY <1>4, <1>u DEF RecordRecipient
<1>5. CASE CallThrows(p)
  BY <1>1, <1>5, <1>w, <1>u, StatusUntouched DEF CallThrows
<1> QED
  BY <1>2, <1>3, <1>4, <1>5 DEF Handle, Fail

LEMMA StatusStep == IndInv /\ [Next]_vars => StatusInv'
<1> SUFFICES ASSUME IndInv, [Next]_vars PROVE StatusInv'
  OBVIOUS
<1>0. TypeOK /\ StageInv /\ StatusInv
  BY DEF IndInv, StatusInv
<1> USE <1>0 DEF rows, mailQueues, ghosts
<1>1. ASSUME NEW m \in Mails, Transmit(m) \/ Sender(m) \/ DeleteRow(m) PROVE StatusInv'
  BY <1>1, RowStatus
<1>2. ASSUME NEW a \in Addresses, Unsuppress(a) PROVE StatusInv'
  BY <1>2, StatusUntouched DEF Unsuppress
<1>3. ASSUME NEW e \in Event,
             \/ Publish(e) \/ Duplicate(e) \/ AliasUnread(e) \/ Discard(e) \/ Replay(e)
             \/ \E r \in Reports : ReportArrives(r, e)
      PROVE  StatusInv'
  BY <1>3, StatusUntouched DEF Publish, Duplicate, AliasUnread, Discard, Replay, ReportArrives
<1>4. ASSUME NEW c \in Consumers, NEW m \in queue, Take(c, m) PROVE StatusInv'
  BY <1>4, StatusUntouched DEF Take
<1>5. ASSUME NEW p \in Parties, Handle(p) \/ Fail(p) PROVE StatusInv'
  BY <1>5, HandlerStatus
<1>6. ASSUME NEW m \in dlq, StoreDeadLetter(m) \/ StoreFails(m) PROVE StatusInv'
  BY <1>6, StatusUntouched DEF StoreDeadLetter, StoreFails
<1>7. CASE UNCHANGED vars
  BY <1>7, StatusUntouched DEF vars
<1> QED
  BY <1>1, <1>2, <1>3, <1>4, <1>5, <1>6, <1>7 DEF Next

-----------------------------------------------------------------------------
\* The inductive invariant.
THEOREM Inductive == Spec => []IndInv
<1>1. IndInv /\ [Next]_vars => IndInv'
  BY TypeStep, CustodyStep, ListStep, StatusStep DEF IndInv, ListInv, StatusInv
<1> QED
  BY InitInd, <1>1, PTL DEF Spec

\* Every variable keeps its type (email-sending-events.ts, inbound-dsn.ts).
THEOREM TypeCorrect == Spec => []TypeOK
<1>1. IndInv => TypeOK
  BY DEF IndInv
<1> QED
  BY Inductive, <1>1, PTL

\* Per-recipient statuses never regress, whatever the order of the events
\* (upsertDeliveryRecipient), and never claim what nobody reported.
THEOREM Worst == Spec => []RecipientsTellTheWorst
<1>1. IndInv => RecipientsTellTheWorst
  BY DEF IndInv
<1> QED
  BY Inductive, <1>1, PTL

\* A failure event is handled, held, or let go by a named cause
\* (applyEmailSendingEvent, storeDeadLetter, replayDeadLetters).
THEOREM NotLost == Spec => []FailuresNotLost
<1>1. IndInv => FailuresNotLost
  BY DEF IndInv
<1> QED
  BY Inductive, <1>1, PTL

\* A handled bounce or complaint is on the list (recordSuppression).
THEOREM Suppressed == Spec => []SuppressionHolds
<1>1. IndInv => SuppressionHolds
  BY DEF IndInv
<1> QED
  BY Inductive, <1>1, PTL

\* A failure on the row is not hidden by a late acceptance (setDeliveryState).
THEOREM Visible == Spec => []FailureStaysVisible
<1>1. IndInv => FailureStaysVisible
  BY DEF IndInv
<1> QED
  BY Inductive, <1>1, PTL

=============================================================================
