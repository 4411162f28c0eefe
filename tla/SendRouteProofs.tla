--------------------------- MODULE SendRouteProofs ---------------------------
(***************************************************************************)
(* Theorems about SendRoute, for any requests, keys, direct sends, sizes,  *)
(* quota and faults.                                                       *)
(*                                                                         *)
(* Four arguments stand side by side.  KeyInv follows the key: who stored  *)
(* a row is past its insert, two rows of one key are never stored at once, *)
(* a loser remembers a row stored under its key.  FileInv says what a      *)
(* request has in R2 at each step.  OwnInv gives each claimed sender one   *)
(* owner.  SlotInv compares the recipients of the parties that hold a slot *)
(* with those the log counts.                                              *)
(***************************************************************************)
EXTENDS SendRoute, FiniteSetTheorems, TLAPS

SameKey(r, q) == KeyOf[r] = KeyOf[q] /\ KeyOf[r] # NoKey

KeyInv ==
  /\ \A r \in Requests : row[r] # "none" => pc[r] \in {"hand", "release", "done"}
  /\ \A r, q \in Requests : row[r] = "stored" /\ row[q] = "stored" /\ SameKey(r, q) => r = q
  /\ \A r \in Requests : pc[r] = "done" <=> answer[r] # "open"
  /\ \A r \in handed : row[r] # "none" /\ pc[r] = "done"
  /\ \A r \in Requests : pc[r] = "hand" => row[r] # "none"
  /\ \A r \in Requests : pc[r] \in {"sweep", "discard", "unattach"} =>
                           SameKey(r, winner[r]) /\ row[winner[r]] # "none"

Files(r) ==
  /\ pc[r] \in {"lookup", "reserve", "attach"} => r \notin atts
  /\ pc[r] \in {"lookup", "reserve", "attach", "create"} => r \notin bodies
  /\ pc[r] \in {"sweep", "discard", "unattach"} => (r \in bodies => r \in pending)
  /\ row[r] = "gone" => r \notin atts /\ r \notin bodies
  /\ pc[r] = "release" => r \in hurt
FileInv == /\ \A r \in Requests : Files(r)
           /\ NothingLeftBehind

\* The direct send that took the claim of its sender.
Working(d) == pc[d] \in {"reserve", "send", "release", "unclaim"}
Owns(d) == IsReply(d) /\ (Working(d) \/ d \in sent \ hurt)
OwnInv == /\ \A d \in Directs : Owns(d) => SenderOf[d] \in claims
          /\ \A d, e \in Directs : Owns(d) /\ Owns(e) /\ SenderOf[d] = SenderOf[e] => d = e
          /\ \A d \in Directs : d \in sent => pc[d] \in {"unclaim", "done"}
          /\ \A d \in Directs : d \in sent /\ pc[d] = "unclaim" => d \in hurt
          /\ RepliesAccounted


-----------------------------------------------------------------------------
(* Types.                                                                  *)

LEMMA InitType == Init => TypeOK
BY PartyNames, FaultBound, Keys
   DEF Init, TypeOK, Parties, RequestPcs, DirectPcs

LEMMA TakeType ==
  ASSUME TypeOK, NEW p \in Parties, Take(p)
  PROVE  slots' \in Seq(Parties) /\ overdrawn' \in Nat
BY DEF Take, TypeOK

LEMMA GiveBackType ==
  ASSUME TypeOK, NEW p \in Parties, GiveBack(p)
  PROVE  slots' \in Seq(Parties) /\ overdrawn' \in Nat
<1>1. CASE slots = <<>>  BY <1>1 DEF GiveBack, TypeOK, quota
<1>2. CASE slots # <<>>
  <2>1. slots' = SubSeq(slots, 1, Len(slots) - 1) /\ overdrawn' = overdrawn + Excess(p)
    BY <1>2 DEF GiveBack
  <2>2. slots \in Seq(Parties) /\ Len(slots) - 1 \in 0..Len(slots) /\ overdrawn \in Nat
        /\ slots[Len(slots)] \in Parties
    BY <1>2 DEF TypeOK
  <2>3. Units[slots[Len(slots)]] \in Nat /\ Units[p] \in Nat  BY <2>2, Sizes
  <2>4. Excess(p) \in Nat  BY <2>3 DEF Excess
  <2> QED BY <2>1, <2>2, <2>4
<1> QED BY <1>1, <1>2

LEMMA ProceedType ==
  ASSUME TypeOK, NEW r \in Requests, Proceed(r) PROVE TypeOK'
<1> USE DEF TypeOK, At, Move, Answer, RequestPcs, DirectPcs, Parties, files, quota
<1>0. r \in Parties /\ r \notin Directs  BY PartyNames
<1>1. CASE Lookup(r)  BY <1>0, <1>1 DEF Lookup, Holders
<1>2. CASE Refuse(r)  BY <1>0, <1>2 DEF Refuse
<1>3. CASE Reserve(r)
  <2>1. slots' \in Seq(Parties) /\ overdrawn' \in Nat  BY <1>0, <1>3, TakeType DEF Reserve
  <2> QED BY <1>0, <1>3, <2>1 DEF Reserve
<1>4. CASE Attach(r)  BY <1>0, <1>4 DEF Attach
<1>5. CASE Create(r)  BY <1>0, <1>5 DEF Create, Holders
<1>6. CASE Insert(r)
  <2>1. winner' \in [Requests -> Requests] /\ row' \in [Requests -> {"none", "stored", "gone"}]
    BY <1>0, <1>6 DEF Insert, Holders
  <2> QED BY <1>0, <1>6, <2>1 DEF Insert
<1>7. CASE SweepLoser(r)
  <2>1. faults' \in 0..MaxFaults  BY <1>0, <1>7, FaultBound DEF SweepLoser, Fault
  <2> QED BY <1>0, <1>7, <2>1 DEF SweepLoser
<1>8. CASE Discard(r)
  <2>1. slots' \in Seq(Parties) /\ overdrawn' \in Nat
    BY <1>0, <1>8, GiveBackType DEF Discard, Release
  <2>2. faults' \in 0..MaxFaults /\ hurt' \subseteq Parties
    BY <1>0, <1>8, FaultBound DEF Discard, Release, Fault, Hurts
  <2> QED BY <1>0, <1>8, <2>1, <2>2 DEF Discard, Release
<1>9. CASE Unattach(r)  BY <1>0, <1>9, FaultBound DEF Unattach, Fault, Hurts
<1>10. CASE ReleaseFailed(r)
  <2>1. slots' \in Seq(Parties) /\ overdrawn' \in Nat
    BY <1>0, <1>10, GiveBackType DEF ReleaseFailed
  <2>2. faults' \in 0..MaxFaults /\ hurt' \subseteq Parties
    BY <1>0, <1>10, FaultBound DEF ReleaseFailed, Fault, Hurts
  <2> QED BY <1>0, <1>10, <2>1, <2>2 DEF ReleaseFailed
<1>11. CASE HandOver(r)  BY <1>0, <1>11 DEF HandOver
<1> QED BY <1>1, <1>2, <1>3, <1>4, <1>5, <1>6, <1>7, <1>8, <1>9, <1>10, <1>11 DEF Proceed

LEMMA BreakType ==
  ASSUME TypeOK, NEW r \in Requests, Break(r) \/ DeleteRow(r) PROVE TypeOK'
<1> USE DEF TypeOK, At, Move, Answer, RequestPcs, DirectPcs, Parties, files, quota, Fault,
            Hurts
<1>0. r \in Parties /\ r \notin Directs  BY PartyNames
<1>1. CASE AttachFails(r)  BY <1>0, <1>1, FaultBound DEF AttachFails
<1>2. CASE CreateThrows(r)  BY <1>0, <1>2, FaultBound DEF CreateThrows
<1>3. CASE HandThrows(r)  BY <1>0, <1>3, FaultBound DEF HandThrows
<1>4. CASE RequestDies(r)  BY <1>0, <1>4, FaultBound DEF RequestDies
<1>5. CASE DeleteRow(r)  BY <1>0, <1>5 DEF DeleteRow
<1> QED BY <1>1, <1>2, <1>3, <1>4, <1>5 DEF Break

LEMMA DirectType ==
  ASSUME TypeOK, NEW d \in Directs, Direct(d) PROVE TypeOK'
<1> USE DEF TypeOK, At, Move, RequestPcs, DirectPcs, Parties, files, quota, Fault, Hurts,
            IsReply, Unclaimed
<1>0. d \in Parties /\ d \notin Requests /\ SenderOf[d] \in Senders \cup {NoSender}
  BY PartyNames, Answered
<1>1. CASE Claim(d)  BY <1>0, <1>1 DEF Claim
<1>2. CASE ReserveDirect(d)
  <2>1. slots' \in Seq(Parties) /\ overdrawn' \in Nat  BY <1>0, <1>2, TakeType DEF ReserveDirect
  <2> QED BY <1>0, <1>2, <2>1 DEF ReserveDirect
<1>3. CASE TooLarge(d)  BY <1>0, <1>3 DEF TooLarge
<1>4. CASE ReleaseDirect(d)
  <2>1. slots' \in Seq(Parties) /\ overdrawn' \in Nat
    BY <1>0, <1>4, GiveBackType DEF ReleaseDirect, Release
  <2>2. faults' \in 0..MaxFaults /\ hurt' \subseteq Parties
    BY <1>0, <1>4, FaultBound DEF ReleaseDirect, Release
  <2> QED BY <1>0, <1>4, <2>1, <2>2 DEF ReleaseDirect, Release
<1>5. CASE SendDirect(d)  BY <1>0, <1>5 DEF SendDirect
<1>6. CASE SendFails(d)  BY <1>0, <1>6, FaultBound DEF SendFails
<1>7. CASE Unclaim(d)  BY <1>0, <1>7, FaultBound DEF Unclaim
<1>8. CASE DirectDies(d)  BY <1>0, <1>8, FaultBound DEF DirectDies
<1> QED BY <1>1, <1>2, <1>3, <1>4, <1>5, <1>6, <1>7, <1>8 DEF Direct

LEMMA DrainType == TypeOK /\ DrainPending => TypeOK'
BY DEF TypeOK, DrainPending, quota

LEMMA NextType == TypeOK /\ [Next]_vars => TypeOK'
<1> SUFFICES ASSUME TypeOK, [Next]_vars PROVE TypeOK'
  OBVIOUS
<1>1. CASE UNCHANGED vars  BY <1>1 DEF TypeOK, vars, files, quota
<1>2. CASE Next
  BY <1>2, ProceedType, BreakType, DirectType, DrainType DEF Next
<1> QED BY <1>1, <1>2

-----------------------------------------------------------------------------
(* Keys.                                                                   *)

LEMMA InitKey == Init => KeyInv
BY PartyNames DEF Init, KeyInv, Parties

LEMMA HoldersHold ==
  ASSUME NEW r \in Requests, NEW q \in Holders(r)
  PROVE  q \in Requests /\ row[q] = "stored" /\ SameKey(r, q)
BY DEF Holders, SameKey

LEMMA NobodyHolds ==
  ASSUME NEW r \in Requests, Holders(r) = {}, NEW q \in Requests, SameKey(r, q)
  PROVE  row[q] # "stored"
BY DEF Holders, SameKey

\* A request that moves on, with its answer open and nothing stored.
LEMMA MoveKey ==
  ASSUME TypeOK, KeyInv, NEW r \in Requests, NEW there \in RequestPcs,
         pc[r] \in {"lookup", "reserve", "attach", "create", "insert", "sweep", "discard"},
         there \notin {"hand", "done"}, Move(r, there),
         there \in {"sweep", "discard", "unattach"} =>
           /\ SameKey(r, winner'[r]) /\ row[winner'[r]] # "none"
           /\ winner' = [winner EXCEPT ![r] = winner'[r]],
         there \notin {"sweep", "discard", "unattach"} => UNCHANGED winner,
         UNCHANGED <<row, handed, answer>>
  PROVE  KeyInv'
<1> USE DEF TypeOK, KeyInv, Move, SameKey
<1>0. r \in Parties /\ pc' \in [Parties -> RequestPcs \cup DirectPcs]
      /\ \A q \in Requests : q \in Parties
  BY DEF Parties
<1>1. pc'[r] = there /\ \A q \in Requests \ {r} : pc'[q] = pc[q]  BY <1>0
<1>2. row[r] = "none" /\ answer[r] = "open" /\ r \notin handed  OBVIOUS
<1>3. \A q \in Requests \ {r} : winner'[q] = winner[q]  OBVIOUS
<1> QED BY <1>1, <1>2, <1>3

\* A request that ends without handing anything over.
LEMMA AnswerKey ==
  ASSUME TypeOK, KeyInv, NEW r \in Requests, NEW a \in Requests \cup {"error"},
         pc[r] # "done", Answer(r, a), UNCHANGED <<row, winner>>,
         handed' \in {handed, handed \cup {r}}, handed' # handed => row[r] # "none"
  PROVE  KeyInv'
<1> USE DEF TypeOK, KeyInv, Answer, Move, SameKey
<1>0. r \in Parties /\ \A q \in Requests : q \in Parties  BY DEF Parties
<1>1. pc'[r] = "done" /\ \A q \in Requests \ {r} : pc'[q] = pc[q]  BY <1>0
<1>2. answer'[r] = a /\ \A q \in Requests \ {r} : answer'[q] = answer[q]  OBVIOUS
<1>3. a # "open"  BY PartyNames
<1> QED BY <1>1, <1>2, <1>3

LEMMA InsertKey ==
  ASSUME TypeOK, KeyInv, NEW r \in Requests, Insert(r) PROVE KeyInv'
<1>1. ASSUME NEW q \in Holders(r), winner' = [winner EXCEPT ![r] = q], Move(r, "sweep"),
             UNCHANGED row
      PROVE  KeyInv'
  <2>1. q \in Requests /\ row[q] = "stored" /\ SameKey(r, q)  BY HoldersHold
  <2>2. winner'[r] = q  BY <1>1, <2>1 DEF TypeOK
  <2>3. pc[r] = "insert" /\ UNCHANGED <<handed, answer>>  BY DEF Insert, At
  <2> QED BY <1>1, <2>1, <2>2, <2>3, MoveKey DEF RequestPcs
<1>2. ASSUME Holders(r) = {}, row' = [row EXCEPT ![r] = "stored"], Move(r, "hand"),
             UNCHANGED winner
      PROVE  KeyInv'
  <2> USE DEF TypeOK, KeyInv, Move, SameKey
  <2>0. r \in Parties /\ \A q \in Requests : q \in Parties  BY DEF Parties
  <2>1. pc[r] = "insert" /\ UNCHANGED <<handed, answer>>  BY DEF Insert, At
  <2>2. pc'[r] = "hand" /\ \A q \in Requests \ {r} : pc'[q] = pc[q]  BY <1>2, <2>0
  <2>3. row'[r] = "stored" /\ \A q \in Requests \ {r} : row'[q] = row[q]  BY <1>2
  <2>4. \A q \in Requests : SameKey(r, q) => row[q] # "stored"  BY <1>2, NobodyHolds
  <2> QED BY <1>2, <2>1, <2>2, <2>3, <2>4
<1> QED BY <1>1, <1>2 DEF Insert

LEMMA ProceedKey ==
  ASSUME TypeOK, KeyInv, NEW r \in Requests, Proceed(r) PROVE KeyInv'
<1> USE DEF At
<1>1. CASE Lookup(r)
  <2>1. CASE Move(r, "reserve") /\ UNCHANGED answer
    BY <1>1, <2>1, MoveKey DEF Lookup, RequestPcs
  <2>2. ASSUME NEW q \in Holders(r), Answer(r, q) PROVE KeyInv'
    BY <1>1, <2>2, HoldersHold, AnswerKey DEF Lookup
  <2> QED BY <1>1, <2>1, <2>2 DEF Lookup
<1>2. CASE Refuse(r)  BY <1>2, AnswerKey DEF Refuse
<1>3. CASE Reserve(r)
  <2>1. CASE Fits(r)  BY <1>3, <2>1, MoveKey DEF Reserve, RequestPcs
  <2>2. CASE ~Fits(r)  BY <1>3, <2>2, AnswerKey DEF Reserve
  <2> QED BY <2>1, <2>2
<1>4. CASE Attach(r)  BY <1>4, MoveKey DEF Attach, RequestPcs
<1>5. CASE Create(r)
  <2>1. ASSUME NEW q \in Holders(r), winner' = [winner EXCEPT ![r] = q], Move(r, "discard")
        PROVE  KeyInv'
    <3>1. q \in Requests /\ row[q] = "stored" /\ SameKey(r, q)  BY HoldersHold
    <3>2. winner'[r] = q  BY <2>1, <3>1 DEF TypeOK
    <3> QED BY <1>5, <2>1, <3>1, <3>2, MoveKey DEF Create, RequestPcs
  <2>2. CASE Move(r, "insert") /\ UNCHANGED winner
    BY <1>5, <2>2, MoveKey DEF Create, RequestPcs
  <2> QED BY <1>5, <2>1, <2>2 DEF Create
<1>6. CASE Insert(r)  BY <1>6, InsertKey
<1>7. CASE SweepLoser(r)
  <2>1. SameKey(r, winner[r]) /\ row[winner[r]] # "none" /\ winner' = winner
        /\ winner = [winner EXCEPT ![r] = winner[r]]
    BY <1>7 DEF SweepLoser, KeyInv, TypeOK
  <2> QED BY <1>7, <2>1, MoveKey DEF SweepLoser, RequestPcs
<1>8. CASE Discard(r)
  <2>1. SameKey(r, winner[r]) /\ row[winner[r]] # "none" /\ winner' = winner
        /\ winner = [winner EXCEPT ![r] = winner[r]]
    BY <1>8 DEF Discard, KeyInv, TypeOK
  <2> QED BY <1>8, <2>1, MoveKey DEF Discard, Release, RequestPcs
<1>9. CASE Unattach(r)
  <2>1. winner[r] \in Requests  BY DEF TypeOK
  <2> QED BY <1>9, <2>1, AnswerKey DEF Unattach
<1>10. CASE ReleaseFailed(r)  BY <1>10, AnswerKey DEF ReleaseFailed
<1>11. CASE HandOver(r)
  <2>1. row[r] # "none"  BY <1>11 DEF HandOver, KeyInv
  <2> QED BY <1>11, <2>1, AnswerKey DEF HandOver
<1> QED BY <1>1, <1>2, <1>3, <1>4, <1>5, <1>6, <1>7, <1>8, <1>9, <1>10, <1>11 DEF Proceed

LEMMA BreakKey ==
  ASSUME TypeOK, KeyInv, NEW r \in Requests, Break(r) \/ DeleteRow(r) PROVE KeyInv'
<1> USE DEF At
<1>1. CASE AttachFails(r)  BY <1>1, MoveKey DEF AttachFails, RequestPcs
<1>2. CASE CreateThrows(r)
  <2> USE DEF TypeOK, KeyInv, Move
  <2>0. r \in Parties /\ \A q \in Requests : q \in Parties  BY DEF Parties
  <2>1. pc'[r] = "release" /\ \A q \in Requests \ {r} : pc'[q] = pc[q]
    BY <1>2, <2>0 DEF CreateThrows
  <2> QED BY <1>2, <2>1 DEF CreateThrows, SameKey
<1>3. CASE HandThrows(r)  BY <1>3, AnswerKey DEF HandThrows
<1>4. CASE RequestDies(r)
  <2>1. /\ handed' \in {handed, handed \cup {r}}
        /\ handed' # handed => row[r] # "none"
    BY <1>4 DEF RequestDies, KeyInv
  <2> QED BY <1>4, <2>1, AnswerKey DEF RequestDies
<1>5. CASE DeleteRow(r)
  <2> USE DEF TypeOK, KeyInv, SameKey
  <2>1. row'[r] = "gone" /\ row[r] # "none" /\ \A q \in Requests \ {r} : row'[q] = row[q]
    BY <1>5 DEF DeleteRow
  <2> QED BY <1>5, <2>1 DEF DeleteRow
<1> QED BY <1>1, <1>2, <1>3, <1>4, <1>5 DEF Break

\* A direct send or the alarm touches none of it.
LEMMA OthersKey ==
  ASSUME TypeOK, KeyInv, UNCHANGED <<row, winner, handed, answer>>,
         \A r \in Requests : pc'[r] = pc[r]
  PROVE  KeyInv'
BY DEF TypeOK, KeyInv, SameKey

LEMMA DirectLeavesRequests ==
  ASSUME TypeOK, NEW d \in Directs, Direct(d)
  PROVE  /\ UNCHANGED <<row, bodies, atts, pending, winner, handed, answer>>
         /\ \A r \in Requests : pc'[r] = pc[r]
         /\ hurt \subseteq hurt'
<1>1. \A r \in Requests : r # d /\ r \in Parties  BY PartyNames DEF Parties
<1>2. \E there \in DirectPcs : Move(d, there)
  BY DEF Direct, Claim, ReserveDirect, TooLarge, ReleaseDirect, Release, SendDirect,
         SendFails, Unclaim, DirectDies, Unclaimed, DirectPcs
<1>3. UNCHANGED <<row, bodies, atts, pending, winner, handed, answer>> /\ hurt \subseteq hurt'
  BY DEF Direct, Claim, ReserveDirect, TooLarge, ReleaseDirect, Release, SendDirect,
         SendFails, Unclaim, DirectDies, files, Hurts
<1> QED BY <1>1, <1>2, <1>3 DEF TypeOK, Move

LEMMA NextKey == TypeOK /\ KeyInv /\ [Next]_vars => KeyInv'
<1> SUFFICES ASSUME TypeOK, KeyInv, [Next]_vars PROVE KeyInv'
  OBVIOUS
<1>1. CASE UNCHANGED vars  BY <1>1, OthersKey DEF vars
<1>2. CASE \E r \in Requests : Proceed(r) \/ Break(r) \/ DeleteRow(r)
  BY <1>2, ProceedKey, BreakKey
<1>3. CASE \E d \in Directs : Direct(d)  BY <1>3, DirectLeavesRequests, OthersKey
<1>4. CASE DrainPending  BY <1>4, OthersKey DEF DrainPending
<1> QED BY <1>1, <1>2, <1>3, <1>4 DEF Next

-----------------------------------------------------------------------------
(* Files.                                                                  *)

LEMMA InitFile == Init => FileInv
BY PartyNames DEF Init, FileInv, Files, NothingLeftBehind, Parties, At

\* The files, the place and the row of one request at most change.
Elsewhere(r) == \A q \in Requests \ {r} : /\ pc'[q] = pc[q] /\ row'[q] = row[q]
                                          /\ q \in atts' <=> q \in atts
                                          /\ q \in bodies' <=> q \in bodies
                                          /\ q \in pending' <=> q \in pending
                                          /\ q \in hurt => q \in hurt'
Tidy(r) == pc[r] = "done" /\ row[r] # "stored" /\ r \notin hurt =>
             r \notin atts /\ (r \in bodies => r \in pending)

LEMMA OneRequest ==
  ASSUME FileInv, NEW r \in Requests, Elsewhere(r), Files(r)', Tidy(r)'
  PROVE  FileInv'
BY DEF FileInv, Files, NothingLeftBehind, Tidy, Elsewhere, At

LEMMA MovesOne ==
  ASSUME TypeOK, NEW r \in Requests, NEW there, Move(r, there)
  PROVE  pc'[r] = there /\ \A q \in Requests \ {r} : pc'[q] = pc[q]
BY DEF TypeOK, Move, Parties

LEMMA ProceedFile ==
  ASSUME TypeOK, KeyInv, FileInv, NEW r \in Requests, Proceed(r) PROVE FileInv'
<1> USE DEF At, Answer, Hurts, Fault, files
<1>0. Files(r) /\ (row[r] # "none" => pc[r] \in {"hand", "release", "done"})
  BY DEF FileInv, KeyInv
<1>1. CASE Lookup(r)
  <2>1. pc'[r] \in {"reserve", "done"} /\ \A q \in Requests \ {r} : pc'[q] = pc[q]
    BY <1>1, MovesOne DEF Lookup
  <2> QED BY <1>0, <1>1, <2>1, OneRequest DEF Lookup, Elsewhere, Files, Tidy
<1>2. CASE Refuse(r)
  <2>1. pc'[r] = "done" /\ \A q \in Requests \ {r} : pc'[q] = pc[q]
    BY <1>2, MovesOne DEF Refuse
  <2> QED BY <1>0, <1>2, <2>1, OneRequest DEF Refuse, Elsewhere, Files, Tidy
<1>3. CASE Reserve(r)
  <2>1. pc'[r] \in {"attach", "done"} /\ \A q \in Requests \ {r} : pc'[q] = pc[q]
    BY <1>3, MovesOne DEF Reserve
  <2> QED BY <1>0, <1>3, <2>1, OneRequest DEF Reserve, Elsewhere, Files, Tidy
<1>4. CASE Attach(r)
  <2>1. pc'[r] = "create" /\ \A q \in Requests \ {r} : pc'[q] = pc[q]
    BY <1>4, MovesOne DEF Attach
  <2> QED BY <1>0, <1>4, <2>1, OneRequest DEF Attach, Elsewhere, Files, Tidy
<1>5. CASE Create(r)
  <2>0. CASE Move(r, "discard") /\ UNCHANGED bodies
    <3>1. pc'[r] = "discard" /\ \A q \in Requests \ {r} : pc'[q] = pc[q]
      BY <2>0, MovesOne
    <3> QED BY <1>0, <1>5, <2>0, <3>1, OneRequest DEF Create, Elsewhere, Files, Tidy
  <2>1. CASE Move(r, "insert") /\ bodies' = bodies \cup {r}
    <3>1. pc'[r] = "insert" /\ \A q \in Requests \ {r} : pc'[q] = pc[q]
      BY <2>1, MovesOne
    <3> QED BY <1>0, <1>5, <2>1, <3>1, OneRequest DEF Create, Elsewhere, Files, Tidy
  <2> QED BY <1>5, <2>0, <2>1 DEF Create
<1>6. CASE Insert(r)
  <2>1. /\ \/ pc'[r] = "sweep" /\ pending' = pending \cup {r} /\ UNCHANGED row
           \/ pc'[r] = "hand" /\ row' = [row EXCEPT ![r] = "stored"] /\ UNCHANGED pending
        /\ \A q \in Requests \ {r} : pc'[q] = pc[q]
    BY <1>6, MovesOne DEF Insert
  <2>2. row'[r] \in {row[r], "stored"} /\ \A q \in Requests \ {r} : row'[q] = row[q]
    BY <2>1 DEF TypeOK
  <2> QED BY <1>0, <1>6, <2>1, <2>2, OneRequest DEF Insert, Elsewhere, Files, Tidy
<1>7. CASE SweepLoser(r)
  <2>1. pc'[r] = "discard" /\ \A q \in Requests \ {r} : pc'[q] = pc[q]
    BY <1>7, MovesOne DEF SweepLoser
  <2>2. \A q \in Requests : q \in bodies' => q \in bodies  BY <1>7 DEF SweepLoser
  <2>3. r \in bodies' => r \in pending'  BY <1>0, <1>7 DEF SweepLoser, Files
  <2> QED BY <1>0, <1>7, <2>1, <2>2, <2>3, OneRequest DEF SweepLoser, Elsewhere, Files, Tidy
<1>8. CASE Discard(r)
  <2>1. pc'[r] = "unattach" /\ \A q \in Requests \ {r} : pc'[q] = pc[q]
    BY <1>8, MovesOne DEF Discard, Release
  <2> QED BY <1>0, <1>8, <2>1, OneRequest DEF Discard, Release, Elsewhere, Files, Tidy
<1>9. CASE Unattach(r)
  <2>1. pc'[r] = "done" /\ \A q \in Requests \ {r} : pc'[q] = pc[q]
    BY <1>9, MovesOne DEF Unattach
  <2> QED BY <1>0, <1>9, <2>1, OneRequest DEF Unattach, Elsewhere, Files, Tidy
<1>10. CASE ReleaseFailed(r)
  <2>1. pc'[r] = "done" /\ \A q \in Requests \ {r} : pc'[q] = pc[q]
    BY <1>10, MovesOne DEF ReleaseFailed
  <2> QED BY <1>0, <1>10, <2>1, OneRequest DEF ReleaseFailed, Elsewhere, Files, Tidy
<1>11. CASE HandOver(r)
  <2>1. pc'[r] = "done" /\ \A q \in Requests \ {r} : pc'[q] = pc[q]
    BY <1>11, MovesOne DEF HandOver
  <2>2. row[r] \in {"stored", "gone"}  BY <1>11 DEF HandOver, KeyInv, TypeOK
  <2> QED BY <1>0, <1>11, <2>1, <2>2, OneRequest DEF HandOver, Elsewhere, Files, Tidy
<1> QED BY <1>1, <1>2, <1>3, <1>4, <1>5, <1>6, <1>7, <1>8, <1>9, <1>10, <1>11 DEF Proceed

LEMMA BreakFile ==
  ASSUME TypeOK, KeyInv, FileInv, NEW r \in Requests, Break(r) \/ DeleteRow(r)
  PROVE  FileInv'
<1> USE DEF At, Answer, Hurts, Fault, files
<1>0. Files(r) /\ Tidy(r) /\ (row[r] # "none" => pc[r] \in {"hand", "release", "done"})
  BY DEF FileInv, KeyInv, NothingLeftBehind, Tidy
<1>1. CASE AttachFails(r)
  <2>1. pc'[r] = "release" /\ \A q \in Requests \ {r} : pc'[q] = pc[q]
    BY <1>1, MovesOne DEF AttachFails
  <2> QED BY <1>0, <1>1, <2>1, OneRequest DEF AttachFails, Elsewhere, Files, Tidy
<1>2. CASE CreateThrows(r)
  <2>1. pc'[r] = "release" /\ \A q \in Requests \ {r} : pc'[q] = pc[q]
    BY <1>2, MovesOne DEF CreateThrows
  <2> QED BY <1>0, <1>2, <2>1, OneRequest DEF CreateThrows, Elsewhere, Files, Tidy
<1>3. CASE HandThrows(r)
  <2>1. pc'[r] = "done" /\ \A q \in Requests \ {r} : pc'[q] = pc[q]
    BY <1>3, MovesOne DEF HandThrows
  <2>2. row[r] \in {"stored", "gone"}  BY <1>3 DEF HandThrows, KeyInv, TypeOK
  <2> QED BY <1>0, <1>3, <2>1, <2>2, OneRequest DEF HandThrows, Elsewhere, Files, Tidy
<1>4. CASE RequestDies(r)
  <2>1. pc'[r] = "done" /\ \A q \in Requests \ {r} : pc'[q] = pc[q]
    BY <1>4, MovesOne DEF RequestDies
  <2> QED BY <1>0, <1>4, <2>1, OneRequest DEF RequestDies, Elsewhere, Files, Tidy
<1>5. CASE DeleteRow(r)
  <2>1. row'[r] = "gone" /\ \A q \in Requests \ {r} : row'[q] = row[q]
    BY <1>5 DEF DeleteRow, TypeOK
  <2> QED BY <1>0, <1>5, <2>1, OneRequest DEF DeleteRow, Elsewhere, Files, Tidy
<1> QED BY <1>1, <1>2, <1>3, <1>4, <1>5 DEF Break

LEMMA NextFile == TypeOK /\ KeyInv /\ FileInv /\ [Next]_vars => FileInv'
<1> SUFFICES ASSUME TypeOK, KeyInv, FileInv, [Next]_vars PROVE FileInv'
  OBVIOUS
<1>1. CASE UNCHANGED vars
  BY <1>1 DEF vars, files, FileInv, Files, NothingLeftBehind, At
<1>2. CASE \E r \in Requests : Proceed(r) \/ Break(r) \/ DeleteRow(r)
  BY <1>2, ProceedFile, BreakFile
<1>3. CASE \E d \in Directs : Direct(d)
  BY <1>3, DirectLeavesRequests DEF FileInv, Files, NothingLeftBehind, At
<1>4. CASE DrainPending
  BY <1>4 DEF DrainPending, FileInv, Files, NothingLeftBehind, At
<1> QED BY <1>1, <1>2, <1>3, <1>4 DEF Next

-----------------------------------------------------------------------------
(* Automatic replies.                                                      *)

LEMMA InitOwn == Init => OwnInv
BY PartyNames DEF Init, OwnInv, Owns, Working, RepliesAccounted, Parties, At

LEMMA RequestsLeaveDirects ==
  ASSUME TypeOK, \/ \E r \in Requests : Proceed(r) \/ Break(r) \/ DeleteRow(r)
                 \/ DrainPending
  PROVE  /\ UNCHANGED <<claims, sent>>
         /\ \A d \in Directs : pc'[d] = pc[d] /\ (d \in hurt' <=> d \in hurt)
<1>1. CASE DrainPending  BY <1>1 DEF DrainPending
<1>2. ASSUME NEW r \in Requests, Proceed(r) \/ Break(r) \/ DeleteRow(r)
      PROVE  /\ UNCHANGED <<claims, sent>> /\ hurt' \in {hurt, hurt \cup {r}}
             /\ UNCHANGED pc \/ \E there \in RequestPcs : Move(r, there)
  BY <1>2 DEF Proceed, Lookup, Refuse, Reserve, Attach, Create, Insert, SweepLoser, Discard,
       Release, Unattach, ReleaseFailed, HandOver, Break, AttachFails, CreateThrows,
       HandThrows, RequestDies, DeleteRow, Answer, Hurts, RequestPcs
<1>3. \A r \in Requests, d \in Directs : r # d /\ d \in Parties
  BY PartyNames DEF Parties
<1> QED BY <1>1, <1>2, <1>3 DEF TypeOK, Move

LEMMA OthersOwn ==
  ASSUME TypeOK, OwnInv, UNCHANGED <<claims, sent>>,
         \A d \in Directs : pc'[d] = pc[d] /\ (d \in hurt' <=> d \in hurt)
  PROVE  OwnInv'
BY DEF TypeOK, OwnInv, Owns, Working, RepliesAccounted, At

LEMMA MovesDirect ==
  ASSUME TypeOK, NEW d \in Directs, NEW there, Move(d, there)
  PROVE  pc'[d] = there /\ \A e \in Directs \ {d} : pc'[e] = pc[e]
BY DEF TypeOK, Move, Parties

\* A step that keeps the claim, or the lack of one, of the sender it works for.
LEMMA KeepsOwn ==
  ASSUME TypeOK, OwnInv, NEW d \in Directs, UNCHANGED claims,
         \A e \in Directs \ {d} : /\ pc'[e] = pc[e]
                                  /\ e \in sent' <=> e \in sent
                                  /\ e \in hurt' <=> e \in hurt,
         sent' \subseteq Directs,
         Owns(d)' => Owns(d),
         d \in sent' => /\ pc'[d] \in {"unclaim", "done"}
                        /\ pc'[d] = "unclaim" => d \in hurt',
         pc'[d] # "claim",
         pc'[d] = "done" /\ IsReply(d) /\ pc[d] # "claim" => d \in sent' \cup hurt'
  PROVE  OwnInv'
<1>1. \A e \in Directs \ {d} : Owns(e)' <=> Owns(e)
  BY DEF Owns, Working
<1>2. \A e \in Directs : Owns(e)' => Owns(e)  BY <1>1
<1>3. \A s \in claims : s # NoSender  BY Answered DEF TypeOK
<1> QED BY <1>1, <1>2, <1>3 DEF OwnInv, RepliesAccounted, At, Owns, Working, IsReply, TypeOK

LEMMA DirectOwn ==
  ASSUME TypeOK, OwnInv, NEW d \in Directs, Direct(d) PROVE OwnInv'
<1> USE DEF At, files
<1>0. d \in Parties /\ \A s \in claims : s # NoSender
  BY Answered DEF TypeOK, Parties
<1>1. CASE Claim(d)
  <2>1. CASE SenderOf[d] \in claims
    <3>1. pc'[d] = "done" /\ \A e \in Directs \ {d} : pc'[e] = pc[e]
      BY <1>1, <2>1, MovesDirect DEF Claim
    <3> QED BY <1>1, <2>1, <3>1, KeepsOwn DEF Claim, Owns, Working, OwnInv, TypeOK
  <2>2. CASE SenderOf[d] \notin claims
    <3>1. pc'[d] = "reserve" /\ \A e \in Directs \ {d} : pc'[e] = pc[e]
      BY <1>1, <2>2, MovesDirect DEF Claim
    <3>2. CASE IsReply(d)
      <4>1. claims' = claims \cup {SenderOf[d]}
        BY <1>1, <2>2, <3>2, Answered DEF Claim, IsReply
      <4>2. \A e \in Directs \ {d} : Owns(e)' <=> Owns(e)
        BY <1>1, <3>1 DEF Claim, Owns, Working
      <4>3. \A e \in Directs \ {d} : Owns(e) => SenderOf[e] # SenderOf[d]
        BY <2>2 DEF OwnInv
      <4>4. d \notin sent  BY <1>1 DEF OwnInv, Claim
      <4> QED
        BY <1>1, <3>1, <3>2, <4>1, <4>2, <4>3, <4>4
        DEF Claim, OwnInv, RepliesAccounted, Working
    <3>3. CASE ~IsReply(d)
      <4>1. claims' = claims  BY <1>1, <2>2, <3>3 DEF Claim, IsReply
      <4>2. d \notin sent  BY <1>1 DEF OwnInv, Claim
      <4> QED BY <1>1, <3>1, <3>3, <4>1, <4>2, KeepsOwn DEF Claim, Owns, TypeOK
    <3> QED BY <3>2, <3>3
  <2> QED BY <2>1, <2>2
<1>2. CASE ReserveDirect(d)
  <2>1. /\ pc'[d] \in {"send", Unclaimed(d)}
        /\ \A e \in Directs \ {d} : pc'[e] = pc[e]
    BY <1>2, MovesDirect DEF ReserveDirect
  <2>2. d \notin sent  BY <1>2 DEF OwnInv, ReserveDirect
  <2> QED BY <1>2, <2>1, <2>2, KeepsOwn
          DEF ReserveDirect, Owns, Working, IsReply, Unclaimed, TypeOK
<1>3. CASE TooLarge(d)
  <2>1. pc'[d] = "release" /\ \A e \in Directs \ {d} : pc'[e] = pc[e]
    BY <1>3, MovesDirect DEF TooLarge
  <2>2. d \notin sent  BY <1>3 DEF OwnInv, TooLarge
  <2> QED BY <1>3, <2>1, <2>2, KeepsOwn DEF TooLarge, Owns, Working, TypeOK
<1>4. CASE ReleaseDirect(d)
  <2>1. pc'[d] = "unclaim" /\ \A e \in Directs \ {d} : pc'[e] = pc[e]
    BY <1>4, MovesDirect DEF ReleaseDirect, Release
  <2>2. d \notin sent  BY <1>4 DEF OwnInv, ReleaseDirect
  <2> QED BY <1>4, <2>1, <2>2, KeepsOwn
          DEF ReleaseDirect, Release, Hurts, Owns, Working, TypeOK
<1>5. CASE SendDirect(d)
  <2>1. pc'[d] = "done" /\ \A e \in Directs \ {d} : pc'[e] = pc[e]
    BY <1>5, MovesDirect DEF SendDirect
  <2> QED BY <1>5, <2>1, KeepsOwn DEF SendDirect, Owns, Working, TypeOK
<1>6. CASE SendFails(d)
  <2>1. /\ pc'[d] = Unclaimed(d)
        /\ \A e \in Directs \ {d} : pc'[e] = pc[e]
    BY <1>6, MovesDirect DEF SendFails
  <2> QED BY <1>6, <2>1, KeepsOwn
          DEF SendFails, Hurts, Owns, Working, IsReply, Unclaimed, TypeOK
<1>7. CASE Unclaim(d)
  <2>1. pc'[d] = "done" /\ \A e \in Directs \ {d} : pc'[e] = pc[e]
    BY <1>7, MovesDirect DEF Unclaim
  <2>2. d \in sent => d \in hurt  BY <1>7 DEF OwnInv, Unclaim
  <2>3. CASE claims' = claims \ {SenderOf[d]} /\ UNCHANGED hurt
    <3>1. \A e \in Directs \ {d} : Owns(e)' <=> Owns(e)
      BY <1>7, <2>1, <2>3 DEF Unclaim, Owns, Working
    <3>2. ~Owns(d)'  BY <1>7, <2>1, <2>2, <2>3 DEF Unclaim, Owns, Working
    <3>3. \A e \in Directs \ {d} : Owns(e) => SenderOf[e] # SenderOf[d] \/ ~IsReply(d)
      BY <1>7 DEF OwnInv, Owns, Working, Unclaim
    <3>4. IsReply(d) \/ claims' = claims  BY <1>0, <2>3 DEF IsReply
    <3> QED BY <1>7, <2>1, <2>2, <2>3, <3>1, <3>2, <3>3, <3>4
            DEF OwnInv, RepliesAccounted, Unclaim, IsReply, TypeOK
  <2>4. CASE hurt' = hurt \cup {d} /\ UNCHANGED claims
    BY <1>7, <2>1, <2>4, KeepsOwn DEF Unclaim, Owns, Working, TypeOK
  <2> QED BY <1>7, <2>3, <2>4 DEF Unclaim, Hurts
<1>8. CASE DirectDies(d)
  <2>1. pc'[d] = "done" /\ \A e \in Directs \ {d} : pc'[e] = pc[e]
    BY <1>8, MovesDirect DEF DirectDies
  <2> QED BY <1>8, <2>1, KeepsOwn DEF DirectDies, Hurts, Owns, Working, TypeOK
<1> QED BY <1>1, <1>2, <1>3, <1>4, <1>5, <1>6, <1>7, <1>8 DEF Direct

LEMMA NextOwn == TypeOK /\ OwnInv /\ [Next]_vars => OwnInv'
<1> SUFFICES ASSUME TypeOK, OwnInv, [Next]_vars PROVE OwnInv'
  OBVIOUS
<1>1. CASE UNCHANGED vars  BY <1>1, OthersOwn DEF vars
<1>2. CASE \/ \E r \in Requests : Proceed(r) \/ Break(r) \/ DeleteRow(r)
           \/ DrainPending
  BY <1>2, RequestsLeaveDirects, OthersOwn
<1>3. CASE \E d \in Directs : Direct(d)  BY <1>3, DirectOwn
<1> QED BY <1>1, <1>2, <1>3 DEF Next

-----------------------------------------------------------------------------
(* Sums: SumFunctionOnSet of natural numbers over a finite set.             *)

First(s) == CHOOSE x \in s : TRUE
Summing(f, S, g) ==
  g = [s \in SUBSET S |-> IF s = {} THEN 0
                          ELSE LET x == CHOOSE y \in s : TRUE IN f[x] + g[s \ {x}]]

\* The recursion of the library's fold, as a property of the function it defines.
LEMMA SumIsRecursive ==
  ASSUME NEW f, NEW S
  PROVE  SumFunctionOnSet(f, S) = (CHOOSE g : Summing(f, S, g))[S]
BY DEF SumFunctionOnSet, FoldFunctionOnSet, MapThenFoldSet, Summing

LEMMA FirstIsIn == ASSUME NEW s, s # {} PROVE First(s) \in s
BY DEF First

\* Induction on finite sets: among some subsets of one there is one with no other inside.
LEMMA Smallest ==
  ASSUME NEW S, IsFiniteSet(S), NEW W, W \subseteq SUBSET S, W # {}
  PROVE  \E s \in W : \A t \in W : t \subseteq s => t = s
<1> DEFINE Counts(V) == {Cardinality(s) : s \in V}
<1>1. \A s \in W : IsFiniteSet(s) /\ Cardinality(s) \in Nat  BY FS_Subset, FS_CardinalityType
<1>2. Counts(W) \subseteq Nat /\ Counts(W) # {}  BY <1>1
<1>3. IsWellFoundedOn(OpToRel(<, Nat), Nat)  BY NatLessThanWellFounded
<1>4. \E n \in Counts(W) : \A m \in Counts(W) : ~(<<m, n>> \in OpToRel(<, Nat))
  <2> HIDE DEF Counts
  <2> QED BY <1>2, <1>3, WFMin
<1>5. PICK s \in W : \A t \in W : ~(<<Cardinality(t), Cardinality(s)>> \in OpToRel(<, Nat))
  BY <1>4
<1>6. ASSUME NEW t \in W, t \subseteq s PROVE t = s
  <2>1. ~(Cardinality(t) < Cardinality(s))  BY <1>1, <1>5 DEF OpToRel
  <2>2. /\ Cardinality(t) <= Cardinality(s)
        /\ Cardinality(s) = Cardinality(t) => s = t
    BY <1>1, <1>6, FS_Subset
  <2> QED BY <1>1, <2>1, <2>2
<1> QED BY <1>6

\* At most one function obeys the recursion.
LEMMA SummingUnique ==
  ASSUME NEW f, NEW S, IsFiniteSet(S), NEW g, Summing(f, S, g), NEW h, Summing(f, S, h)
  PROVE  g[S] = h[S]
<1> DEFINE W == {s \in SUBSET S : g[s] # h[s]}
<1>1. ASSUME NEW s \in W, \A t \in W : t \subseteq s => t = s PROVE FALSE
  <2>1. s # {}  BY DEF Summing
  <2>2. First(s) \in s  BY <2>1, FirstIsIn
  <2>3. g[s \ {First(s)}] = h[s \ {First(s)}]  BY <1>1, <2>2
  <2>4. g[s] = f[First(s)] + g[s \ {First(s)}] /\ h[s] = f[First(s)] + h[s \ {First(s)}]
    BY <2>1 DEF Summing, First
  <2> QED BY <2>3, <2>4
<1>2. W \subseteq SUBSET S  OBVIOUS
<1> HIDE DEF W
<1>3. W = {}  BY <1>1, <1>2, Smallest
<1> QED BY <1>3 DEF W

\* The sum, unfolded once.
Unfold(f, s) == IF s = {} THEN 0 ELSE f[First(s)] + SumFunctionOnSet(f, s \ {First(s)})

LEMMA SumUnfolds ==
  ASSUME NEW f, NEW S, IsFiniteSet(S) PROVE SumFunctionOnSet(f, S) = Unfold(f, S)
<1> DEFINE W == {s \in SUBSET S : SumFunctionOnSet(f, s) # Unfold(f, s)}
<1>1. ASSUME NEW s \in W, \A t \in W : t \subseteq s => t = s PROVE FALSE
  <2> DEFINE g == [t \in SUBSET s |-> Unfold(f, t)]
  <2>1. ASSUME NEW t \in SUBSET s, t # {}
        PROVE  g[t] = f[First(t)] + g[t \ {First(t)}]
    <3>1. First(t) \in t  BY <2>1, FirstIsIn
    <3>2. t \ {First(t)} \in SUBSET s /\ t \ {First(t)} \in SUBSET S /\ t \ {First(t)} # s
      BY <3>1
    <3>3. SumFunctionOnSet(f, t \ {First(t)}) = Unfold(f, t \ {First(t)})
      BY <1>1, <3>2
    <3>4. g[t] = f[First(t)] + SumFunctionOnSet(f, t \ {First(t)})  BY <2>1 DEF Unfold
    <3> QED BY <3>2, <3>3, <3>4
  <2>2. g[{}] = 0  BY DEF Unfold
  <2>3. Summing(f, s, g)
    <3>1. \A t \in SUBSET s : g[t] = IF t = {} THEN 0 ELSE f[First(t)] + g[t \ {First(t)}]
      BY <2>1, <2>2
    <3>2. g = [t \in SUBSET s |-> g[t]]  OBVIOUS
    <3> HIDE DEF g
    <3>3. g = [t \in SUBSET s |-> IF t = {} THEN 0 ELSE f[First(t)] + g[t \ {First(t)}]]
      BY <3>1, <3>2
    <3> QED BY <3>3 DEF Summing, First
  <2>4. g[s] = Unfold(f, s)  OBVIOUS
  <2> HIDE DEF g
  <2>5. Summing(f, s, CHOOSE h : Summing(f, s, h))  BY <2>3
  <2>6. IsFiniteSet(s)  BY FS_Subset
  <2>7. g[s] = (CHOOSE h : Summing(f, s, h))[s]  BY <2>3, <2>5, <2>6, SummingUnique
  <2>8. SumFunctionOnSet(f, s) = g[s]  BY <2>7, SumIsRecursive
  <2> QED BY <2>4, <2>8
<1>2. W \subseteq SUBSET S  OBVIOUS
<1> HIDE DEF W
<1>3. W = {}  BY <1>1, <1>2, Smallest
<1> QED BY <1>3 DEF W

LEMMA SumNat ==
  ASSUME NEW f, NEW S, IsFiniteSet(S), \A x \in S : f[x] \in Nat
  PROVE  SumFunctionOnSet(f, S) \in Nat
<1> DEFINE W == {s \in SUBSET S : SumFunctionOnSet(f, s) \notin Nat}
<1>1. ASSUME NEW s \in W, \A t \in W : t \subseteq s => t = s PROVE FALSE
  <2>1. SumFunctionOnSet(f, s) = Unfold(f, s)  BY FS_Subset, SumUnfolds
  <2>2. s # {}  BY <2>1 DEF Unfold
  <2>3. First(s) \in s  BY <2>2, FirstIsIn
  <2>4. SumFunctionOnSet(f, s \ {First(s)}) \in Nat /\ f[First(s)] \in Nat  BY <1>1, <2>3
  <2> QED BY <2>1, <2>2, <2>4 DEF Unfold
<1>2. W \subseteq SUBSET S  OBVIOUS
<1> HIDE DEF W
<1>3. W = {}  BY <1>1, <1>2, Smallest
<1> QED BY <1>3 DEF W

\* Any member may be taken off first.
LEMMA SumRemove ==
  ASSUME NEW f, NEW S, IsFiniteSet(S), \A x \in S : f[x] \in Nat, NEW x \in S
  PROVE  SumFunctionOnSet(f, S) = f[x] + SumFunctionOnSet(f, S \ {x})
<1> DEFINE W == {s \in SUBSET S : \E y \in s :
                   SumFunctionOnSet(f, s) # f[y] + SumFunctionOnSet(f, s \ {y})}
<1>1. ASSUME NEW s \in W, \A t \in W : t \subseteq s => t = s PROVE FALSE
  <2>1. PICK y \in s : SumFunctionOnSet(f, s) # f[y] + SumFunctionOnSet(f, s \ {y})
    OBVIOUS
  <2> DEFINE z == First(s)
  <2>2. z \in s /\ s # {} /\ s \in SUBSET S  BY <2>1, FirstIsIn
  <2>3. SumFunctionOnSet(f, s) = f[z] + SumFunctionOnSet(f, s \ {z})
    BY <2>2, FS_Subset, SumUnfolds DEF Unfold
  <2> HIDE DEF z
  <2>4. y # z  BY <2>1, <2>3
  <2>5. s \ {z} \in SUBSET S /\ s \ {y} \in SUBSET S /\ s \ {z} # s /\ s \ {y} # s
    BY <2>1, <2>2
  <2>6. s \ {z} \notin W /\ s \ {y} \notin W  BY <1>1, <2>5
  <2>7. SumFunctionOnSet(f, s \ {z}) = f[y] + SumFunctionOnSet(f, (s \ {z}) \ {y})
    BY <2>1, <2>4, <2>5, <2>6
  <2>8. SumFunctionOnSet(f, s \ {y}) = f[z] + SumFunctionOnSet(f, (s \ {y}) \ {z})
    BY <2>2, <2>4, <2>5, <2>6
  <2>9. (s \ {z}) \ {y} = (s \ {y}) \ {z}  OBVIOUS
  <2>10. f[y] \in Nat /\ f[z] \in Nat /\ SumFunctionOnSet(f, (s \ {y}) \ {z}) \in Nat
    BY <2>2, FS_Subset, SumNat
  <2> QED BY <2>1, <2>3, <2>7, <2>8, <2>9, <2>10
<1>2. W \subseteq SUBSET S  OBVIOUS
<1> HIDE DEF W
<1>3. W = {}  BY <1>1, <1>2, Smallest
<1> QED BY <1>3 DEF W

LEMMA SumGrows ==
  ASSUME NEW f, NEW S, IsFiniteSet(S), \A x \in S : f[x] \in Nat, NEW T, T \subseteq S
  PROVE  SumFunctionOnSet(f, T) <= SumFunctionOnSet(f, S)
<1> DEFINE W == {s \in SUBSET S : /\ T \subseteq s
                                  /\ ~(SumFunctionOnSet(f, T) <= SumFunctionOnSet(f, s))}
<1>1. ASSUME NEW s \in W, \A t \in W : t \subseteq s => t = s PROVE FALSE
  <2>1. IsFiniteSet(s) /\ SumFunctionOnSet(f, s) \in Nat  BY FS_Subset, SumNat
  <2>2. PICK x \in s : x \notin T  BY <2>1
  <2>3. SumFunctionOnSet(f, T) <= SumFunctionOnSet(f, s \ {x})  BY <1>1, <2>2
  <2>4. SumFunctionOnSet(f, s) = f[x] + SumFunctionOnSet(f, s \ {x})  BY <2>1, SumRemove
  <2>5. /\ SumFunctionOnSet(f, T) \in Nat /\ SumFunctionOnSet(f, s \ {x}) \in Nat
        /\ f[x] \in Nat
    BY <2>1, FS_Subset, SumNat
  <2> QED BY <2>3, <2>4, <2>5
<1>2. W \subseteq SUBSET S  OBVIOUS
<1> HIDE DEF W
<1>3. W = {}  BY <1>1, <1>2, Smallest
<1> QED BY <1>3 DEF W

-----------------------------------------------------------------------------
(* The quota: the recipients counted in send_log.                           *)

Early == {"lookup", "claim", "reserve"}

\* Who took a slot and has neither given it back nor ended without mail.
HoldsRequest(r) ==
  \/ pc[r] \in {"attach", "create", "insert", "sweep", "discard", "hand", "release"}
  \/ row[r] # "none"
HoldsDirect(d) == pc[d] \in {"send", "release"} \/ d \in sent
Holding == {r \in Requests : HoldsRequest(r)} \cup {d \in Directs : HoldsDirect(d)}

\* Which slot a party gives back is not its own, so the log does not say who holds one:
\* it counts their recipients, short of what releases took off in excess.
SlotInv ==
  /\ \A i, j \in DOMAIN slots : slots[i] = slots[j] => i = j
  /\ \A i \in DOMAIN slots : pc[slots[i]] \notin Early
  /\ IsFiniteSet(Holding)
  /\ SumFunctionOnSet(Units, Holding) <= Used + overdrawn
  /\ Used <= Quota

LEMMA InitSlot == Init => SlotInv
<1> SUFFICES ASSUME Init PROVE SlotInv
  OBVIOUS
<1>1. Holding = {}
  BY PartyNames DEF Init, Holding, HoldsRequest, HoldsDirect, Parties
<1>2. slots = <<>> /\ overdrawn = 0 /\ DOMAIN slots = {}  BY DEF Init
<1>3. SumFunctionOnSet(Units, {}) = 0  BY FS_EmptySet, SumUnfolds DEF Unfold
<1>4. {slots[i] : i \in DOMAIN slots} = {}  BY <1>2
<1>5. Used = 0  BY <1>3, <1>4 DEF Used
<1> QED BY <1>1, <1>2, <1>3, <1>5, FS_EmptySet, Sizes DEF SlotInv

\* Whose recipients the log counts, and how many they are.
Takers == {slots[i] : i \in DOMAIN slots}

LEMMA TakersType ==
  ASSUME TypeOK, SlotInv
  PROVE  /\ Len(slots) \in Nat /\ DOMAIN slots = 1..Len(slots)
         /\ Takers \subseteq Parties /\ IsFiniteSet(Takers)
         /\ Used = SumFunctionOnSet(Units, Takers) /\ Used \in Nat
         /\ Holding \subseteq Parties /\ SumFunctionOnSet(Units, Holding) \in Nat
         /\ \A p \in Parties : Units[p] \in Nat
<1>1. slots \in Seq(Parties) /\ Len(slots) \in Nat /\ DOMAIN slots = 1..Len(slots)
      /\ \A i \in DOMAIN slots : slots[i] \in Parties
  BY DEF TypeOK
<1>2. ExistsBijection(1..Len(slots), Takers)
  <2>1. [i \in 1..Len(slots) |-> slots[i]] \in Bijection(1..Len(slots), Takers)
    BY <1>1 DEF SlotInv, Bijection, Injection, Surjection, IsInjective, Takers
  <2> QED BY <2>1 DEF ExistsBijection
<1>3. IsFiniteSet(Takers)  BY <1>1, <1>2, FS_NatBijection
<1>4. Takers \subseteq Parties  BY <1>1 DEF Takers
<1>5. \A p \in Parties : Units[p] \in Nat  BY Sizes
<1>6. Used = SumFunctionOnSet(Units, Takers)  BY DEF Used, Takers
<1>7. Used \in Nat  BY <1>3, <1>4, <1>5, <1>6, SumNat
<1>8. Holding \subseteq Parties  BY DEF Holding, Parties
<1>9. SumFunctionOnSet(Units, Holding) \in Nat  BY <1>5, <1>8, SumNat DEF SlotInv
<1> QED BY <1>1, <1>3, <1>4, <1>5, <1>6, <1>7, <1>8, <1>9

LEMMA TakeSlot ==
  ASSUME TypeOK, SlotInv, NEW p \in Parties, Fits(p), Take(p), pc[p] = "reserve",
         pc'[p] \notin Early, \A q \in Parties : pc[q] \notin Early => pc'[q] \notin Early,
         Holding' \subseteq Holding \cup {p}
  PROVE  SlotInv'
<1>1. slots \in Seq(Parties) /\ \A i \in DOMAIN slots : slots[i] \in Parties  BY DEF TypeOK
<1>2. /\ Len(slots') = Len(slots) + 1 /\ DOMAIN slots' = 1..Len(slots) + 1
      /\ slots'[Len(slots) + 1] = p /\ \A i \in 1..Len(slots) : slots'[i] = slots[i]
  BY <1>1 DEF Take
<1>3. p \notin Takers  BY DEF SlotInv, Early, Takers
<1>4. \A i, j \in DOMAIN slots' : slots'[i] = slots'[j] => i = j
  BY <1>2, <1>3, TakersType DEF SlotInv, Takers
<1>5. \A i \in DOMAIN slots' : pc'[slots'[i]] \notin Early
  BY <1>1, <1>2, TakersType DEF SlotInv
<1>6. Takers' = Takers \cup {p}  BY <1>2, TakersType DEF Takers
<1>7. IsFiniteSet(Takers \cup {p}) /\ (Takers \cup {p}) \ {p} = Takers
  BY <1>3, TakersType, FS_AddElement
<1>8. Used' = Used + Units[p]
  <2>1. SumFunctionOnSet(Units, Takers \cup {p})
          = Units[p] + SumFunctionOnSet(Units, (Takers \cup {p}) \ {p})
    BY <1>7, TakersType, SumRemove
  <2>2. Used' = SumFunctionOnSet(Units, Takers')  BY DEF Used, Takers
  <2>3. Units[p] \in Nat /\ Used \in Nat /\ Used = SumFunctionOnSet(Units, Takers)
    BY TakersType
  <2>4. Used' = Units[p] + Used
    BY <1>6, <1>7, <2>1, <2>2, <2>3
  <2> QED BY <2>3, <2>4
<1>9. IsFiniteSet(Holding') /\ SumFunctionOnSet(Units, Holding') <= Used' + overdrawn'
  <2> DEFINE H == Holding \cup {p}
  <2>1. IsFiniteSet(H) /\ \A x \in H : Units[x] \in Nat
    BY TakersType, FS_AddElement DEF SlotInv
  <2>2. IsFiniteSet(Holding') /\ SumFunctionOnSet(Units, Holding') \in Nat
    BY <2>1, FS_Subset, SumNat
  <2>3. SumFunctionOnSet(Units, Holding') <= SumFunctionOnSet(Units, H)  BY <2>1, SumGrows
  <2>4. SumFunctionOnSet(Units, H) = Units[p] + SumFunctionOnSet(Units, H \ {p})
    BY <2>1, SumRemove
  <2>5. SumFunctionOnSet(Units, H \ {p}) <= SumFunctionOnSet(Units, Holding)
    BY TakersType, SumGrows DEF SlotInv
  <2>6. SumFunctionOnSet(Units, H \ {p}) \in Nat /\ SumFunctionOnSet(Units, H) \in Nat
    BY <2>1, FS_Subset, SumNat
  <2> HIDE DEF H
  <2>7. overdrawn' = overdrawn /\ overdrawn \in Nat  BY DEF Take, TypeOK
  <2>8. /\ SumFunctionOnSet(Units, Holding) <= Used + overdrawn
        /\ SumFunctionOnSet(Units, Holding) \in Nat /\ Used \in Nat /\ Units[p] \in Nat
    BY TakersType DEF SlotInv
  <2> QED BY <1>8, <2>2, <2>3, <2>4, <2>5, <2>6, <2>7, <2>8
<1>10. Used' <= Quota  BY <1>8 DEF Fits
<1> QED BY <1>4, <1>5, <1>9, <1>10 DEF SlotInv

LEMMA KeepSlot ==
  ASSUME TypeOK, SlotInv, UNCHANGED quota, Holding' \subseteq Holding,
         \A q \in Parties : pc[q] \notin Early => pc'[q] \notin Early
  PROVE  SlotInv'
<1>1. IsFiniteSet(Holding') /\ SumFunctionOnSet(Units, Holding') \in Nat
  BY TakersType, FS_Subset, SumNat DEF SlotInv
<1>2. SumFunctionOnSet(Units, Holding') <= SumFunctionOnSet(Units, Holding)
  BY TakersType, SumGrows DEF SlotInv
<1>3. Used' = Used /\ slots' = slots /\ overdrawn' = overdrawn  BY DEF Used, quota
<1>4. Used \in Nat /\ SumFunctionOnSet(Units, Holding) \in Nat /\ overdrawn \in Nat
  BY TakersType DEF TypeOK
<1>5. SumFunctionOnSet(Units, Holding') <= Used' + overdrawn'
  BY <1>1, <1>2, <1>3, <1>4 DEF SlotInv
<1>6. \A i \in DOMAIN slots : slots[i] \in Parties  BY DEF TypeOK
<1> QED BY <1>1, <1>3, <1>5, <1>6 DEF SlotInv

\* A release takes the newest row off the log. Its party holds no more, or its mail goes out.
LEMMA GiveBackSlot ==
  ASSUME TypeOK, SlotInv, NEW p \in Holding, GiveBack(p),
         Holding' \subseteq Holding, p \in Holding' => p \in Mailed,
         \A q \in Parties : pc[q] \notin Early => pc'[q] \notin Early
  PROVE  SlotInv'
<1>1. CASE slots = <<>>  BY <1>1, KeepSlot DEF GiveBack
<1>2. CASE slots # <<>>
  <2> DEFINE n == Len(slots)
             x == slots[n]
  <2>1. slots \in Seq(Parties) /\ n \in Nat \ {0} /\ DOMAIN slots = 1..n /\ x \in Parties
        /\ \A i \in DOMAIN slots : slots[i] \in Parties
    BY <1>2 DEF TypeOK
  <2>2. /\ slots' = SubSeq(slots, 1, n - 1) /\ overdrawn' = overdrawn + Excess(p)
    BY <1>2 DEF GiveBack
  <2>3. DOMAIN slots' = 1..n - 1 /\ \A i \in 1..n - 1 : slots'[i] = slots[i]
    BY <2>1, <2>2
  <2>4. \A i, j \in DOMAIN slots' : slots'[i] = slots'[j] => i = j
    BY <2>1, <2>3 DEF SlotInv
  <2>5. \A i \in DOMAIN slots' : pc'[slots'[i]] \notin Early  BY <2>1, <2>3 DEF SlotInv
  <2>6. Takers' = Takers \ {x} /\ x \in Takers
    <3>1. \A i \in 1..n - 1 : slots[i] # x  BY <2>1 DEF SlotInv
    <3>2. 1..n = 1..n - 1 \cup {n}  BY <2>1
    <3> QED BY <2>1, <2>3, <3>1, <3>2 DEF Takers
  <2> HIDE DEF n, x
  <2>7. Used = Units[x] + Used' /\ Used' \in Nat /\ Units[x] \in Nat /\ Used \in Nat
    <3>1. SumFunctionOnSet(Units, Takers)
            = Units[x] + SumFunctionOnSet(Units, Takers \ {x})
      BY <2>6, TakersType, SumRemove
    <3>2. Used' = SumFunctionOnSet(Units, Takers')  BY DEF Used, Takers
    <3>3. SumFunctionOnSet(Units, Takers \ {x}) \in Nat
      BY TakersType, FS_Subset, SumNat
    <3> QED BY <2>1, <2>6, <3>1, <3>2, <3>3, TakersType
  <2> DEFINE unsent == IF p \in Mailed THEN 0 ELSE Units[p]
  <2>8. Excess(p) = IF Units[x] > unsent THEN Units[x] - unsent ELSE 0
    BY DEF Excess, n, x
  <2>9. /\ IsFiniteSet(Holding') /\ SumFunctionOnSet(Units, Holding') \in Nat
        /\ SumFunctionOnSet(Units, Holding') + unsent <= SumFunctionOnSet(Units, Holding)
    <3>1. IsFiniteSet(Holding) /\ p \in Parties /\ Units[p] \in Nat
          /\ SumFunctionOnSet(Units, Holding) \in Nat /\ \A q \in Holding : Units[q] \in Nat
      BY TakersType DEF SlotInv
    <3>2. IsFiniteSet(Holding') /\ SumFunctionOnSet(Units, Holding') \in Nat
      BY <3>1, FS_Subset, SumNat
    <3>3. CASE p \in Mailed
      <4>1. SumFunctionOnSet(Units, Holding') <= SumFunctionOnSet(Units, Holding)
        BY <3>1, SumGrows
      <4> QED BY <3>1, <3>2, <3>3, <4>1
    <3>4. CASE p \notin Mailed
      <4>1. Holding' \subseteq Holding \ {p}  BY <3>4
      <4>2. IsFiniteSet(Holding \ {p}) /\ SumFunctionOnSet(Units, Holding \ {p}) \in Nat
        BY <3>1, FS_Subset, SumNat
      <4>3. SumFunctionOnSet(Units, Holding') <= SumFunctionOnSet(Units, Holding \ {p})
        BY <3>1, <4>1, <4>2, SumGrows
      <4>4. SumFunctionOnSet(Units, Holding)
              = Units[p] + SumFunctionOnSet(Units, Holding \ {p})
        BY <3>1, SumRemove
      <4> QED BY <3>1, <3>2, <3>4, <4>2, <4>3, <4>4
    <3> QED BY <3>2, <3>3, <3>4
  <2>10. unsent \in Nat  BY TakersType
  <2> HIDE DEF unsent
  <2>11. /\ SumFunctionOnSet(Units, Holding) <= Used + overdrawn
         /\ SumFunctionOnSet(Units, Holding) \in Nat /\ overdrawn \in Nat
    BY TakersType DEF SlotInv, TypeOK
  <2>12. SumFunctionOnSet(Units, Holding') <= Used' + overdrawn'
    <3>1. Units[x] <= unsent + Excess(p) /\ Excess(p) \in Nat  BY <2>7, <2>8, <2>10
    <3>2. overdrawn' = overdrawn + Excess(p)  BY <2>2
    <3>3. /\ SumFunctionOnSet(Units, Holding') + unsent <= SumFunctionOnSet(Units, Holding)
          /\ SumFunctionOnSet(Units, Holding') \in Nat
      BY <2>9
    <3>4. Units[x] + Used' + overdrawn <= Used' + unsent + Excess(p) + overdrawn
      BY <2>7, <2>10, <2>11, <3>1
    <3>5. SumFunctionOnSet(Units, Holding) <= Units[x] + Used' + overdrawn  BY <2>7, <2>11
    <3> HIDE DEF unsent
    <3> QED BY <2>7, <2>10, <2>11, <3>1, <3>2, <3>3, <3>4, <3>5
  <2>13. Used' <= Quota
    <3>1. Used <= Quota /\ Quota \in Nat  BY Sizes DEF SlotInv
    <3> QED BY <2>7, <3>1
  <2> QED BY <2>4, <2>5, <2>9, <2>12, <2>13 DEF SlotInv
<1> QED BY <1>1, <1>2

\* What is left is to see who holds a slot before and after each step.
LEMMA RequestHolding ==
  ASSUME TypeOK, NEW r \in Requests, UNCHANGED sent,
         \A q \in Requests \ {r} : pc'[q] = pc[q] /\ row'[q] = row[q],
         \A d \in Directs : pc'[d] = pc[d]
  PROVE  /\ HoldsRequest(r)' => Holding' \subseteq Holding \cup {r}
         /\ ~HoldsRequest(r)' => Holding' \subseteq Holding \ {r}
         /\ HoldsRequest(r) <=> r \in Holding
BY PartyNames DEF Holding, HoldsRequest, HoldsDirect

LEMMA DirectHolding ==
  ASSUME TypeOK, NEW d \in Directs, UNCHANGED row,
         \A e \in Directs \ {d} : pc'[e] = pc[e] /\ (e \in sent' <=> e \in sent),
         \A r \in Requests : pc'[r] = pc[r]
  PROVE  /\ HoldsDirect(d)' => Holding' \subseteq Holding \cup {d}
         /\ ~HoldsDirect(d)' => Holding' \subseteq Holding \ {d}
         /\ HoldsDirect(d) <=> d \in Holding
BY PartyNames DEF Holding, HoldsRequest, HoldsDirect

LEMMA RequestSlot ==
  ASSUME TypeOK, KeyInv, SlotInv, NEW r \in Requests,
         Proceed(r) \/ Break(r) \/ DeleteRow(r)
  PROVE  SlotInv'
<1> USE DEF At, Answer, files
<1>0. /\ r \in Parties /\ UNCHANGED sent
      /\ pc[r] \in {"lookup", "reserve", "attach", "create", "insert", "sweep", "discard",
                    "unattach"} => row[r] = "none"
      /\ row' \in {row, [row EXCEPT ![r] = "stored"], [row EXCEPT ![r] = "gone"]}
      /\ \A d \in Directs : pc'[d] = pc[d]
  BY RequestsLeaveDirects
     DEF Parties, KeyInv, Proceed, Lookup, Refuse, Reserve, Attach, Create, Insert, SweepLoser,
         Discard, Release, Unattach, ReleaseFailed, HandOver, Break, AttachFails, CreateThrows,
         HandThrows, RequestDies, DeleteRow
<1>1. ASSUME NEW there \in RequestPcs, there \notin Early \/ pc[r] \in Early,
             Move(r, there)
      PROVE  /\ pc'[r] = there
             /\ \A q \in Parties : pc[q] \notin Early => pc'[q] \notin Early
             /\ HoldsRequest(r)' => Holding' \subseteq Holding \cup {r}
             /\ ~HoldsRequest(r)' => Holding' \subseteq Holding \ {r}
             /\ HoldsRequest(r) <=> r \in Holding
  <2>1. pc'[r] = there /\ \A q \in Parties \ {r} : pc'[q] = pc[q]
    BY <1>0, <1>1 DEF TypeOK, Move
  <2>2. \A q \in Requests \ {r} : q \in Parties /\ row'[q] = row[q]
    BY <1>0 DEF TypeOK, Parties
  <2>3. \A q \in Parties : pc[q] \notin Early => pc'[q] \notin Early  BY <1>1, <2>1 DEF Early
  <2> QED BY <1>0, <2>1, <2>2, <2>3, RequestHolding
<1>2. CASE Lookup(r)
  <2>1. \E there \in {"reserve", "done"} : Move(r, there)  BY <1>2 DEF Lookup
  <2> QED BY <1>0, <1>1, <1>2, <2>1, KeepSlot DEF Lookup, Early, HoldsRequest, RequestPcs
<1>3. CASE Refuse(r)
  BY <1>0, <1>1, <1>3, KeepSlot DEF Refuse, Early, HoldsRequest, RequestPcs
<1>4. CASE Reserve(r)
  <2>1. CASE Fits(r)
    BY <1>0, <1>1, <1>4, <2>1, TakeSlot DEF Reserve, Early, HoldsRequest, RequestPcs
  <2>2. CASE ~Fits(r)
    BY <1>0, <1>1, <1>4, <2>2, KeepSlot DEF Reserve, Early, HoldsRequest, RequestPcs
  <2> QED BY <2>1, <2>2
<1>5. CASE Attach(r)
  BY <1>0, <1>1, <1>5, KeepSlot DEF Attach, Early, HoldsRequest, RequestPcs
<1>6. CASE Create(r)
  <2>1. \E there \in {"discard", "insert"} : Move(r, there)  BY <1>6 DEF Create
  <2> QED BY <1>0, <1>1, <1>6, <2>1, KeepSlot DEF Create, Early, HoldsRequest, RequestPcs
<1>7. CASE Insert(r)
  <2>1. \E there \in {"sweep", "hand"} : Move(r, there)  BY <1>7 DEF Insert
  <2> QED BY <1>0, <1>1, <1>7, <2>1, KeepSlot DEF Insert, Early, HoldsRequest, RequestPcs
<1>8. CASE SweepLoser(r)
  BY <1>0, <1>1, <1>8, KeepSlot DEF SweepLoser, Early, HoldsRequest, RequestPcs
<1>9. CASE Discard(r)
  <2>1. HoldsRequest(r) /\ Move(r, "unattach") /\ UNCHANGED row
    BY <1>9 DEF Discard, Release, HoldsRequest
  <2>2. ~HoldsRequest(r)'  BY <1>0, <1>1, <1>9, <2>1 DEF HoldsRequest, RequestPcs, Early, Discard
  <2>3. CASE GiveBack(r)
    BY <1>1, <2>1, <2>2, <2>3, GiveBackSlot DEF RequestPcs, Early
  <2>4. CASE UNCHANGED quota
    BY <1>1, <2>1, <2>2, <2>4, KeepSlot DEF RequestPcs, Early
  <2> QED BY <1>9, <2>3, <2>4 DEF Discard, Release
<1>10. CASE Unattach(r)
  BY <1>0, <1>1, <1>10, KeepSlot DEF Unattach, Early, HoldsRequest, RequestPcs
<1>11. CASE ReleaseFailed(r)
  <2>1. HoldsRequest(r) /\ Move(r, "done") /\ UNCHANGED row
    BY <1>11 DEF ReleaseFailed, HoldsRequest
  <2>2. r \in Holding /\ Holding' \subseteq Holding
        /\ (\A q \in Parties : pc[q] \notin Early => pc'[q] \notin Early)
    BY <1>1, <2>1 DEF RequestPcs, Early
  <2>3. r \in Holding' => r \in Mailed
    <3>1. HoldsRequest(r)' => row[r] # "none"
      BY <1>1, <2>1 DEF HoldsRequest, RequestPcs, Early
    <3> QED BY <1>0, <1>1, <2>1, <3>1 DEF Mailed, RequestPcs, Early
  <2>4. CASE GiveBack(r)  BY <2>2, <2>3, <2>4, GiveBackSlot
  <2>5. CASE UNCHANGED quota  BY <2>2, <2>5, KeepSlot
  <2> QED BY <1>11, <2>4, <2>5 DEF ReleaseFailed
<1>12. CASE HandOver(r)
  BY <1>0, <1>1, <1>12, KeepSlot DEF HandOver, Early, HoldsRequest, RequestPcs
<1>13. CASE AttachFails(r)
  BY <1>0, <1>1, <1>13, KeepSlot DEF AttachFails, Early, HoldsRequest, RequestPcs
<1>14. CASE CreateThrows(r)
  BY <1>0, <1>1, <1>14, KeepSlot DEF CreateThrows, Early, HoldsRequest, RequestPcs
<1>15. CASE HandThrows(r)
  BY <1>0, <1>1, <1>15, KeepSlot DEF HandThrows, Early, HoldsRequest, RequestPcs
<1>16. CASE RequestDies(r)
  <2>1. Holding' \subseteq Holding
    BY <1>0, <1>1, <1>16 DEF RequestDies, Early, HoldsRequest, RequestPcs
  <2> QED BY <1>1, <1>16, <2>1, KeepSlot DEF RequestDies, RequestPcs, Early
<1>17. CASE DeleteRow(r)
  <2>1. Holding' \subseteq Holding
    BY <1>17 DEF DeleteRow, Holding, HoldsRequest, HoldsDirect, TypeOK
  <2> QED BY <1>17, <2>1, KeepSlot DEF DeleteRow, Early
<1> QED BY <1>2, <1>3, <1>4, <1>5, <1>6, <1>7, <1>8, <1>9, <1>10, <1>11, <1>12, <1>13, <1>14,
           <1>15, <1>16, <1>17 DEF Proceed, Break

LEMMA DirectSlot ==
  ASSUME TypeOK, OwnInv, SlotInv, NEW d \in Directs, Direct(d)
  PROVE  SlotInv'
<1> USE DEF At, files, Unclaimed
<1>0. /\ d \in Parties /\ UNCHANGED row /\ \A r \in Requests : pc'[r] = pc[r]
      /\ sent' \in {sent, sent \cup {d}}
      /\ d \in sent => pc[d] \in {"unclaim", "done"}
  BY DirectLeavesRequests
     DEF Parties, OwnInv, Direct, Claim, ReserveDirect, TooLarge, ReleaseDirect, Release,
         SendDirect, SendFails, Unclaim, DirectDies
<1>1. ASSUME NEW there \in DirectPcs, there \notin Early \/ pc[d] \in Early,
             Move(d, there)
      PROVE  /\ pc'[d] = there
             /\ \A q \in Parties : pc[q] \notin Early => pc'[q] \notin Early
             /\ HoldsDirect(d)' => Holding' \subseteq Holding \cup {d}
             /\ ~HoldsDirect(d)' => Holding' \subseteq Holding \ {d}
             /\ HoldsDirect(d) <=> d \in Holding
  <2>1. pc'[d] = there /\ \A q \in Parties \ {d} : pc'[q] = pc[q]
    BY <1>0, <1>1 DEF TypeOK, Move
  <2>2. \A e \in Directs \ {d} : e \in Parties /\ (e \in sent' <=> e \in sent)
    BY <1>0 DEF Parties
  <2>3. \A q \in Parties : pc[q] \notin Early => pc'[q] \notin Early  BY <1>1, <2>1 DEF Early
  <2> QED BY <1>0, <2>1, <2>2, <2>3, DirectHolding
<1>2. CASE Claim(d)
  <2>1. \E there \in {"reserve", "done"} : Move(d, there)  BY <1>2 DEF Claim
  <2> QED BY <1>0, <1>1, <1>2, <2>1, KeepSlot DEF Claim, Early, HoldsDirect, DirectPcs
<1>3. CASE ReserveDirect(d)
  <2>1. CASE Fits(d)
    BY <1>0, <1>1, <1>3, <2>1, TakeSlot DEF ReserveDirect, Early, HoldsDirect, DirectPcs
  <2>2. CASE ~Fits(d)
    BY <1>0, <1>1, <1>3, <2>2, KeepSlot DEF ReserveDirect, Early, HoldsDirect, DirectPcs
  <2> QED BY <2>1, <2>2
<1>4. CASE TooLarge(d)
  BY <1>0, <1>1, <1>4, KeepSlot DEF TooLarge, Early, HoldsDirect, DirectPcs
<1>5. CASE ReleaseDirect(d)
  <2>1. HoldsDirect(d) /\ Move(d, "unclaim") /\ UNCHANGED sent /\ d \notin sent
    BY <1>0, <1>5 DEF ReleaseDirect, Release, HoldsDirect
  <2>2. ~HoldsDirect(d)'  BY <1>1, <2>1 DEF HoldsDirect, DirectPcs, Early
  <2>3. CASE GiveBack(d)
    BY <1>1, <2>1, <2>2, <2>3, GiveBackSlot DEF DirectPcs, Early
  <2>4. CASE UNCHANGED quota
    BY <1>1, <2>1, <2>2, <2>4, KeepSlot DEF DirectPcs, Early
  <2> QED BY <1>5, <2>3, <2>4 DEF ReleaseDirect, Release
<1>6. CASE SendDirect(d)
  BY <1>0, <1>1, <1>6, KeepSlot DEF SendDirect, Early, HoldsDirect, DirectPcs
<1>7. CASE SendFails(d)
  BY <1>0, <1>1, <1>7, KeepSlot DEF SendFails, Early, HoldsDirect, DirectPcs
<1>8. CASE Unclaim(d)
  BY <1>0, <1>1, <1>8, KeepSlot DEF Unclaim, Early, HoldsDirect, DirectPcs
<1>9. CASE DirectDies(d)
  <2>1. Holding' \subseteq Holding
    BY <1>0, <1>1, <1>9 DEF DirectDies, Early, HoldsDirect, DirectPcs
  <2> QED BY <1>1, <1>9, <2>1, KeepSlot DEF DirectDies, DirectPcs, Early
<1> QED BY <1>2, <1>3, <1>4, <1>5, <1>6, <1>7, <1>8, <1>9 DEF Direct

LEMMA NextSlot == TypeOK /\ KeyInv /\ OwnInv /\ SlotInv /\ [Next]_vars => SlotInv'
<1> SUFFICES ASSUME TypeOK, KeyInv, OwnInv, SlotInv, [Next]_vars PROVE SlotInv'
  OBVIOUS
<1>1. CASE UNCHANGED vars
  BY <1>1, KeepSlot DEF vars, Holding, HoldsRequest, HoldsDirect, Early
<1>2. CASE \E r \in Requests : Proceed(r) \/ Break(r) \/ DeleteRow(r)
  BY <1>2, RequestSlot
<1>3. CASE \E d \in Directs : Direct(d)  BY <1>3, DirectSlot
<1>4. CASE DrainPending
  BY <1>4, KeepSlot DEF DrainPending, Holding, HoldsRequest, HoldsDirect, Early
<1> QED BY <1>1, <1>2, <1>3, <1>4 DEF Next

\* Each mail that went out or will holds a slot.
LEMMA SlotsSuffice == TypeOK /\ SlotInv => QuotaHolds
<1> SUFFICES ASSUME TypeOK, SlotInv PROVE SumFunctionOnSet(Units, Mailed) <= Quota + overdrawn
  BY DEF QuotaHolds
<1>1. Mailed \subseteq Holding
  BY DEF Mailed, Holding, HoldsRequest, HoldsDirect, TypeOK
<1>2. IsFiniteSet(Holding) /\ \A x \in Holding : Units[x] \in Nat
  BY TakersType DEF SlotInv
<1>3. SumFunctionOnSet(Units, Mailed) <= SumFunctionOnSet(Units, Holding)
  BY <1>1, <1>2, SumGrows
<1>4. SumFunctionOnSet(Units, Mailed) \in Nat /\ SumFunctionOnSet(Units, Holding) \in Nat
  BY <1>1, <1>2, FS_Subset, SumNat
<1> QED BY <1>3, <1>4, TakersType, Sizes DEF SlotInv, TypeOK

-----------------------------------------------------------------------------
(* The theorems.                                                           *)

IndInv == TypeOK /\ KeyInv /\ FileInv /\ OwnInv /\ SlotInv

\* The routes keep their inductive invariant: types, keys, files, claims and slots.
THEOREM Inductive == Spec => []IndInv
<1>1. Init => IndInv  BY InitType, InitKey, InitFile, InitOwn, InitSlot DEF IndInv
<1>2. IndInv /\ [Next]_vars => IndInv'
  BY NextType, NextKey, NextFile, NextOwn, NextSlot DEF IndInv
<1> QED BY <1>1, <1>2, PTL DEF Spec

\* Types, for any requests, keys, sizes and faults.
THEOREM TypeCorrect == Spec => []TypeOK
<1>1. IndInv => TypeOK  BY DEF IndInv
<1> QED BY <1>1, Inductive, PTL

\* A request without a row of its own leaves nothing behind in R2 unless a failure
\* cut its cleanup short (storeAttachments, createEmail, discardReplayedSend).
THEOREM NothingStays == Spec => []NothingLeftBehind
<1>1. IndInv => NothingLeftBehind  BY DEF IndInv, FileInv
<1> QED BY <1>1, Inductive, PTL

\* A sender is answered once per window, and a claim is never left behind but by
\* a failure (claimAutoReply, releaseAutoReply).
THEOREM RepliedOnce == Spec => []RepliesAccounted
<1>1. IndInv => RepliesAccounted  BY DEF IndInv, OwnInv
<1> QED BY <1>1, Inductive, PTL

\* Whatever the sizes of the messages, and however sends overlap and give back each
\* other's slots, what is mailed in a window exceeds the quota by no more than releases
\* took off the log in excess (checkSendRateLimit, releaseSendSlot).
THEOREM QuotaKept == Spec => []QuotaHolds
<1>1. IndInv => QuotaHolds  BY SlotsSuffice DEF IndInv
<1> QED BY <1>1, Inductive, PTL

\* A request's step is a step of KeyedSends or leaves what it speaks of alone.
LEMMA RequestImplements ==
  ASSUME TypeOK, KeyInv, NEW r \in Requests, Proceed(r) \/ Break(r) \/ DeleteRow(r)
  PROVE  Promise!Next \/ UNCHANGED <<row, handed, answer>>
<1> USE DEF At, Answer
<1>0. pc[r] # "done" => Promise!Open(r)  BY DEF KeyInv, Promise!Open, TypeOK
<1>1. ASSUME NEW a, answer' = [answer EXCEPT ![r] = a], pc[r] # "done",
             UNCHANGED <<row, handed>>,
             \/ a = "error"
             \/ a \in Requests /\ SameKey(r, a) /\ row[a] # "none" /\ row[r] = "none"
      PROVE  Promise!Next
  <2>1. Promise!Tell(r, a)  BY <1>0, <1>1 DEF Promise!Tell
  <2>2. CASE a = "error"  BY <1>1, <2>1, <2>2 DEF Promise!Fail, Promise!Next
  <2>3. CASE a # "error"
    <3>1. a \in Requests /\ Promise!Replay(r, a)
      BY <1>1, <2>1, <2>3 DEF Promise!Replay, Promise!SameKey, SameKey
    <3> QED BY <3>1 DEF Promise!Next
  <2> QED BY <2>2, <2>3
<1>2. ASSUME handed' = handed \cup {r}, pc[r] = "hand", UNCHANGED row,
             NEW a \in {r, "error"}, answer' = [answer EXCEPT ![r] = a]
      PROVE  Promise!Next
  <2>1. Promise!Tell(r, a)  BY <1>0, <1>2 DEF Promise!Tell
  <2>2. row[r] # "none" /\ r \notin handed  BY <1>2 DEF KeyInv
  <2> QED BY <1>2, <2>1, <2>2 DEF Promise!HandOver, Promise!Next
<1>3. ASSUME Insert(r) PROVE Promise!Next \/ UNCHANGED <<row, handed, answer>>
  <2>1. ASSUME Holders(r) = {}, row' = [row EXCEPT ![r] = "stored"] PROVE Promise!Next
    <3>1. row[r] = "none" /\ Promise!Open(r) /\ UNCHANGED <<handed, answer>>
      BY <1>0, <1>3 DEF Insert, KeyInv
    <3>2. \A q \in Requests : Promise!SameKey(r, q) => row[q] # "stored"
      BY <2>1, NobodyHolds DEF SameKey, Promise!SameKey
    <3> QED BY <2>1, <3>1, <3>2 DEF Promise!Store, Promise!Next
  <2> QED BY <1>3, <2>1 DEF Insert
<1>4. pc[r] \in {"lookup", "unattach", "reserve"} => row[r] = "none"  BY DEF KeyInv
<1>5. ASSUME Lookup(r) PROVE Promise!Next \/ UNCHANGED <<row, handed, answer>>
  <2>1. ASSUME NEW q \in Holders(r), answer' = [answer EXCEPT ![r] = q] PROVE Promise!Next
    <3>1. q \in Requests /\ SameKey(r, q) /\ row[q] # "none"  BY HoldersHold
    <3> QED BY <1>1, <1>4, <1>5, <2>1, <3>1 DEF Lookup
  <2> QED BY <1>5, <2>1 DEF Lookup
<1>6. ASSUME Unattach(r) PROVE Promise!Next
  <2>1. winner[r] \in Requests /\ SameKey(r, winner[r]) /\ row[winner[r]] # "none"
    BY <1>6 DEF Unattach, KeyInv, TypeOK
  <2> QED BY <1>1, <1>4, <1>6, <2>1 DEF Unattach
<1>7. ASSUME DeleteRow(r) PROVE Promise!Next
  BY <1>7 DEF DeleteRow, Promise!Delete, Promise!Next
<1>8. ASSUME HandOver(r) PROVE Promise!Next  BY <1>2, <1>8 DEF HandOver
<1>9. ASSUME RequestDies(r) PROVE Promise!Next
  <2>1. CASE handed' = handed  BY <1>1, <1>9, <2>1 DEF RequestDies
  <2>2. CASE handed' # handed  BY <1>2, <1>9, <2>2 DEF RequestDies
  <2> QED BY <2>1, <2>2
<1>10. ASSUME \/ Refuse(r) \/ Reserve(r) \/ HandThrows(r) \/ ReleaseFailed(r)
       PROVE  Promise!Next \/ UNCHANGED <<row, handed, answer>>
  BY <1>1, <1>10 DEF Refuse, Reserve, HandThrows, ReleaseFailed
<1>11. ASSUME \/ Attach(r) \/ Create(r) \/ SweepLoser(r) \/ Discard(r) \/ AttachFails(r)
              \/ CreateThrows(r)
       PROVE  UNCHANGED <<row, handed, answer>>
  BY <1>11 DEF Attach, Create, SweepLoser, Discard, AttachFails, CreateThrows
<1> QED BY <1>3, <1>5, <1>6, <1>7, <1>8, <1>9, <1>10, <1>11 DEF Proceed, Break

\* The send routes implement KeyedSends: one row and one hand-over per key, and
\* truthful replays.
THEOREM Implements == Spec => KeepsKeys
<1>1. Init => Promise!Init  BY DEF Init, Promise!Init
<1>2. IndInv /\ [Next]_vars => [Promise!Next]_(Promise!vars)
  <2> SUFFICES ASSUME IndInv, [Next]_vars
               PROVE  Promise!Next \/ UNCHANGED <<row, handed, answer>>
    BY DEF Promise!vars
  <2>1. CASE UNCHANGED vars  BY <2>1 DEF vars
  <2>2. CASE \E r \in Requests : Proceed(r) \/ Break(r) \/ DeleteRow(r)
    BY <2>2, RequestImplements DEF IndInv
  <2>3. CASE \E d \in Directs : Direct(d)
    BY <2>3, DirectLeavesRequests DEF IndInv
  <2>4. CASE DrainPending  BY <2>4 DEF DrainPending
  <2> QED BY <2>1, <2>2, <2>3, <2>4 DEF Next
<1> QED BY <1>1, <1>2, Inductive, PTL DEF Spec, KeepsKeys, Promise!Spec

=============================================================================
