------------------------- MODULE BlobDeletesProofs -------------------------
(***************************************************************************)
(* Theorems about BlobDeletes, for any number of mails and calls and any   *)
(* faults.                                                                 *)
(*                                                                         *)
(* The argument is about who may still touch a mail.  Only dead mails (no  *)
(* row, and nobody about to insert one) are queued or in a delete under    *)
(* way (DeadInv); a mail being created is nobody else's (CreateInv); and a *)
(* mail being updated has its row, or is known to have lost it (UpdateInv).*)
(***************************************************************************)
EXTENDS BlobDeletes, TLAPS

Dead == {m \in Mails : row[m] = "absent" /\ m \notin InFlight("create")}

\* What is queued or being deleted is dead.
DeadInv == pending \subseteq Dead /\ \A c \in Slots : call[c].batch \subseteq Dead

\* A mail is created by one call, before it has a row.
CreateInv ==
  \A c \in Slots : call[c].op = "create" =>
    /\ call[c].mail \in Mails /\ row[call[c].mail] = "absent"
    /\ call[c].landed => call[c].mail \in blob
    /\ \A d \in Slots : call[d].op = "create" /\ call[d].mail = call[c].mail => d = c

\* A draft being updated has a row, or is dead and known to have been deleted
\* meanwhile; under the deleted flag it is the latter.
UpdateInv ==
  \A c \in Slots : call[c].op = "update" =>
    /\ call[c].mail \in Mails
    /\ \/ row[call[c].mail] = "stored" /\ ~deleted
       \/ call[c].mail \in Dead \cap strays

\* Ids nobody drew yet have no objects.
UnusedInv == \A m \in Mails : row[m] = "unused" => m \notin blob

\* A batch that R2 has deleted is gone, except for drafts saved meanwhile.
LandedInv ==
  \A c \in Slots : Deletes(c) /\ call[c].landed => call[c].batch \cap blob \subseteq strays

SafeInv == /\ DeadInv /\ CreateInv /\ UpdateInv /\ UnusedInv /\ LandedInv
           /\ RowsReadable /\ NothingLeaks
IndInv == TypeOK /\ SafeInv

-----------------------------------------------------------------------------
\* The call table after a call moves on, and after a landing.
LEMMA CallMoves ==
  ASSUME TypeOK, NEW c \in Slots, NEW k, Becomes(c, k)
  PROVE  \A d \in Slots : call'[d] = IF d = c THEN k ELSE call[d]
BY DEF TypeOK, Becomes

LEMMA InitInd == Init => IndInv
<1> SUFFICES ASSUME Init PROVE IndInv
  OBVIOUS
<1>1. TypeOK
  <2>1. faults \in 0..MaxFaults
    BY FaultBound DEF Init
  <2>2. Idle \in [op : {"idle", "create", "update", "sweep", "drain"},
                  mail : Mails \cup {NoMail}, batch : SUBSET Mails, landed : BOOLEAN]
    BY DEF Idle
  <2> QED
    BY <2>1, <2>2 DEF Init, TypeOK
<1>2. \A c \in Slots : call[c].op = "idle" /\ call[c].batch = {}
  BY DEF Init, Idle
<1>3. DeadInv /\ CreateInv /\ UpdateInv /\ LandedInv
  BY <1>2 DEF Init, DeadInv, CreateInv, UpdateInv, LandedInv, Deletes
<1>4. UnusedInv /\ RowsReadable /\ NothingLeaks
  BY DEF Init, UnusedInv, RowsReadable, NothingLeaks, Stored
<1> QED
  BY <1>1, <1>3, <1>4 DEF IndInv, SafeInv

-----------------------------------------------------------------------------
(* Types.                                                                  *)

Records == [op : {"idle", "create", "update", "sweep", "drain"},
            mail : Mails \cup {NoMail}, batch : SUBSET Mails, landed : BOOLEAN]

LEMMA FaultType == ASSUME TypeOK, NEW kind, Fault(kind) PROVE faults' \in 0..MaxFaults
BY FaultBound DEF TypeOK, Fault

LEMMA BecomesType ==
  ASSUME TypeOK, NEW c \in Slots, NEW k \in Records, Becomes(c, k)
  PROVE  call' \in [Slots -> Records]
BY DEF TypeOK, Becomes, Records

LEMMA LandsType ==
  ASSUME TypeOK, NEW c \in Slots, call' = [call EXCEPT ![c].landed = TRUE]
  PROVE  call' \in [Slots -> Records]
BY DEF TypeOK, Records

LEMMA RecordForms ==
  /\ Idle \in Records
  /\ \A op \in {"create", "update"}, m \in Mails : Saving(op, m) \in Records
  /\ \A op \in {"sweep", "drain"}, b \in SUBSET Mails : Deleting(op, b) \in Records
BY DEF Idle, Saving, Deleting, Records

LEMMA NextBatchType ==
  ASSUME TypeOK, NEW c \in Slots, NEW queued \in SUBSET Mails, NextBatch(c, queued)
  PROVE  call' \in [Slots -> Records]
BY BecomesType, RecordForms DEF NextBatch

LEMMA SavedMail ==
  ASSUME IndInv, NEW c \in Slots, Saves(c) PROVE call[c].mail \in Mails
BY DEF IndInv, SafeInv, Saves, CreateInv, UpdateInv

LEMMA TypeStep == IndInv /\ [Next]_vars => TypeOK'
<1> SUFFICES ASSUME IndInv, [Next]_vars PROVE TypeOK'
  OBVIOUS
<1>0. TypeOK
  BY DEF IndInv
<1>a. call \in [Slots -> Records]
  BY <1>0 DEF TypeOK, Records
<1> USE <1>0
<1>1. ASSUME NEW c \in Slots, DeleteLands(c) PROVE TypeOK'
  BY <1>1, LandsType DEF DeleteLands, doVars, TypeOK, Records
<1>2. ASSUME NEW c \in Slots, SweepDone(c) PROVE TypeOK'
  <2>1. pending' \in SUBSET Mails /\ UNCHANGED <<deleted, row, alarm, blob, faults, strays>>
    BY <1>2 DEF SweepDone, TypeOK, NoFault
  <2>2. call' \in [Slots -> Records]
    BY <1>2, <2>1, BecomesType, RecordForms, NextBatchType DEF SweepDone
  <2> QED
    BY <2>1, <2>2 DEF TypeOK, Records
<1>3. ASSUME NEW c \in Slots, SweepFails(c) PROVE TypeOK'
  <2>1. faults' \in 0..MaxFaults /\ call' \in [Slots -> Records]
    BY <1>3, FaultType, BecomesType, RecordForms DEF SweepFails
  <2>2. alarm' \in BOOLEAN
    BY <1>3 DEF SweepFails
  <2> QED
    BY <1>3, <2>1, <2>2 DEF SweepFails, TypeOK, Records
<1>4. ASSUME AlarmFires PROVE TypeOK'
  <2>1. call' \in [Slots -> Records]
    BY <1>4, NextBatchType DEF AlarmFires, TypeOK, Slots
  <2> QED
    BY <1>4, <2>1 DEF AlarmFires, TypeOK, Records
<1>5. ASSUME NEW c \in Calls, Request(c) PROVE TypeOK'
  <2>s. c \in Slots
    BY DEF Slots
  <2>1. ASSUME NEW m \in Mails, StartCreate(c, m) PROVE TypeOK'
    BY <2>1, <2>s, BecomesType, RecordForms DEF StartCreate, TypeOK, Records
  <2>2. ASSUME NEW m \in Mails, StartUpdate(c, m) PROVE TypeOK'
    BY <2>2, <2>s, BecomesType, RecordForms DEF StartUpdate, doVars, TypeOK, Records
  <2>3. ASSUME NEW m \in Mails, DeleteEmail(c, m) PROVE TypeOK'
    BY <2>3, <2>s, BecomesType, RecordForms DEF DeleteEmail, TypeOK, Records
  <2>4. ASSUME Purge(c) PROVE TypeOK'
    <3>1. /\ row' \in [Mails -> {"unused", "absent", "stored"}]
          /\ pending' \in SUBSET Mails /\ strays' \subseteq Mails
      BY <2>4 DEF Purge, Wipe, Stored, TypeOK
    <3>2. call' \in [Slots -> Records]
      BY <2>4, <2>s, <3>1, NextBatchType DEF Purge
    <3> QED
      BY <2>4, <3>1, <3>2 DEF Purge, TypeOK, Records
  <2>5. ASSUME Revive(c) PROVE TypeOK'
    <3>1. call' \in [Slots -> Records]
      BY <2>5, <2>s, NextBatchType DEF Revive, TypeOK
    <3> QED
      BY <2>5, <3>1 DEF Revive, TypeOK, Records
  <2> QED
    BY <1>5, <2>1, <2>2, <2>3, <2>4, <2>5 DEF Request
<1>6. ASSUME NEW c \in Slots, PutLands(c) PROVE TypeOK'
  BY <1>6, LandsType, SavedMail DEF PutLands, doVars, TypeOK, Records
<1>7. ASSUME NEW c \in Slots, Resume(c) PROVE TypeOK'
  <2>1. call[c].mail \in Mails
    BY <1>7, SavedMail DEF Resume
  <2>2. call' \in [Slots -> Records]
    BY <1>7, <2>1, BecomesType, RecordForms DEF Resume
  <2>3. row' \in [Mails -> {"unused", "absent", "stored"}]
    BY <1>7 DEF Resume, WriteRow, TypeOK
  <2> QED
    BY <1>7, <2>1, <2>2, <2>3 DEF Resume, TypeOK, Records
<1>8. ASSUME NEW c \in Slots, PutFails(c) PROVE TypeOK'
  <2>1. faults' \in 0..MaxFaults /\ call' \in [Slots -> Records]
    BY <1>8, FaultType, BecomesType, RecordForms DEF PutFails
  <2>2. call[c].mail \in Mails
    BY <1>8, SavedMail DEF PutFails
  <2> QED
    BY <1>8, <2>1, <2>2 DEF PutFails, doVars, TypeOK, Records
<1>9. ASSUME Restart PROVE TypeOK'
  <2>1. faults' \in 0..MaxFaults
    BY <1>9, FaultType DEF Restart
  <2>2. call' \in [Slots -> Records]
    BY <1>9, RecordForms DEF Restart
  <2>3. blob' \subseteq Mails /\ strays' \subseteq Mails
    BY <1>9 DEF Restart, InFlight, TypeOK
  <2>4. deleted' \in BOOLEAN /\ alarm' \in BOOLEAN
    BY <1>9 DEF Restart, TypeOK
  <2> QED
    BY <1>9, <2>1, <2>2, <2>3, <2>4 DEF Restart, TypeOK, Records
<1>10. CASE UNCHANGED vars
  BY <1>10 DEF vars, doVars, TypeOK
<1> QED
  BY <1>1, <1>2, <1>3, <1>4, <1>5, <1>6, <1>7, <1>8, <1>9, <1>10
  DEF Next, Step, Fail

-----------------------------------------------------------------------------
(* Steps of the delete queue: nothing is saved, dead objects may go.       *)

LEMMA QuietStep ==
  ASSUME IndInv,
         \A d \in Slots : Saves(d) \/ Saves(d)' => call'[d] = call[d],
         row' = row, strays' = strays, deleted' => deleted,
         blob' \subseteq blob, blob \ blob' \subseteq Dead,
         pending' \subseteq pending, (pending \ pending') \cap blob \subseteq strays,
         \A d \in Slots : call'[d].batch \subseteq Dead,
         \A d \in Slots : Deletes(d)' /\ call'[d].landed => call'[d].batch \cap blob' \subseteq strays
  PROVE  SafeInv'
<1> USE DEF IndInv, SafeInv
<1>1. Dead' = Dead
  BY DEF Dead, InFlight, Saves
<1>2. InFlight("create")' = InFlight("create") /\ InFlight("update")' = InFlight("update")
  BY DEF InFlight, Saves
<1>3. DeadInv'
  BY <1>1 DEF DeadInv
<1>4. CreateInv'
  <2> SUFFICES ASSUME NEW c \in Slots, call'[c].op = "create"
               PROVE  /\ call'[c].mail \in Mails /\ row'[call'[c].mail] = "absent"
                      /\ call'[c].landed => call'[c].mail \in blob'
                      /\ \A d \in Slots :
                           call'[d].op = "create" /\ call'[d].mail = call'[c].mail => d = c
    BY DEF CreateInv
  <2>1. call'[c] = call[c]
    BY DEF Saves
  <2>2. call[c].mail \notin Dead
    BY <2>1 DEF Dead, InFlight
  <2> QED
    BY <2>1, <2>2 DEF CreateInv, Saves
<1>5. UpdateInv'
  BY <1>1 DEF UpdateInv, Saves
<1>6. UnusedInv' /\ LandedInv'
  BY DEF UnusedInv, LandedInv
<1>7. RowsReadable'
  BY DEF RowsReadable, Stored, Dead
<1>8. NothingLeaks'
  BY <1>2 DEF NothingLeaks
<1> QED
  BY <1>3, <1>4, <1>5, <1>6, <1>7, <1>8

\* A drain that takes a batch of what is queued touches no other call.
LEMMA NextBatchCalls ==
  ASSUME IndInv, NEW c \in Slots, ~Saves(c), NEW queued \in SUBSET Dead, NextBatch(c, queued)
  PROVE  /\ \A d \in Slots : Saves(d) \/ Saves(d)' => call'[d] = call[d]
         /\ \A d \in Slots : call'[d].batch \subseteq Dead
         /\ \A d \in Slots : Deletes(d)' /\ call'[d].landed => d # c /\ call'[d] = call[d]
<1>1. CASE queued = {} /\ Becomes(c, Idle)
  BY <1>1, CallMoves DEF IndInv, SafeInv, DeadInv, Saves, Deletes, Idle
<1>2. ASSUME NEW b \in SUBSET queued, Becomes(c, Deleting("drain", b))
      PROVE  /\ \A d \in Slots : Saves(d) \/ Saves(d)' => call'[d] = call[d]
             /\ \A d \in Slots : call'[d].batch \subseteq Dead
             /\ \A d \in Slots : Deletes(d)' /\ call'[d].landed => d # c /\ call'[d] = call[d]
  BY <1>2, CallMoves DEF IndInv, SafeInv, DeadInv, Saves, Deletes, Deleting
<1> QED
  BY <1>1, <1>2 DEF NextBatch

LEMMA DeleteLandsSafe == ASSUME IndInv, NEW c \in Slots, DeleteLands(c) PROVE SafeInv'
<1>1. \A d \in Slots : call'[d] = IF d = c THEN [call[c] EXCEPT !.landed = TRUE] ELSE call[d]
  BY DEF DeleteLands, IndInv, TypeOK
<1>2. /\ call'[c].op = call[c].op /\ call'[c].batch = call[c].batch
      /\ call[c].op \in {"sweep", "drain"} /\ blob' = blob \ call[c].batch
  BY <1>1 DEF DeleteLands, Deletes, IndInv, TypeOK
<1>3. \A d \in Slots : Saves(d) \/ Saves(d)' => call'[d] = call[d]
  BY <1>1, <1>2 DEF Saves
<1>4. \A d \in Slots : call'[d].batch = call[d].batch /\ call[d].batch \subseteq Dead
  BY <1>1, <1>2 DEF IndInv, SafeInv, DeadInv
<1>5. \A d \in Slots : Deletes(d)' /\ call'[d].landed => call'[d].batch \cap blob' \subseteq strays
  BY <1>1, <1>2, <1>4 DEF IndInv, SafeInv, LandedInv, Deletes
<1> QED
  BY <1>2, <1>3, <1>4, <1>5, QuietStep DEF DeleteLands, doVars

LEMMA SweepDoneSafe == ASSUME IndInv, NEW c \in Slots, SweepDone(c) PROVE SafeInv'
<1>1. /\ ~Saves(c) /\ pending' = pending \ call[c].batch /\ blob' = blob
      /\ call[c].batch \cap blob \subseteq strays /\ pending' \in SUBSET Dead
  BY DEF SweepDone, Saves, Deletes, IndInv, SafeInv, LandedInv, DeadInv
<1>2. /\ \A d \in Slots : Saves(d) \/ Saves(d)' => call'[d] = call[d]
      /\ \A d \in Slots : call'[d].batch \subseteq Dead
      /\ \A d \in Slots : Deletes(d)' /\ call'[d].landed => d # c /\ call'[d] = call[d]
  <2>1. CASE Becomes(c, Idle)
    BY <1>1, <2>1, CallMoves DEF IndInv, SafeInv, DeadInv, Saves, Deletes, Idle
  <2> QED
    BY <1>1, <2>1, NextBatchCalls DEF SweepDone
<1>3. \A d \in Slots : Deletes(d)' /\ call'[d].landed => call'[d].batch \cap blob' \subseteq strays
  BY <1>1, <1>2 DEF IndInv, SafeInv, LandedInv, Deletes
<1> QED
  BY <1>1, <1>2, <1>3, QuietStep DEF SweepDone

LEMMA SweepFailsSafe == ASSUME IndInv, NEW c \in Slots, SweepFails(c) PROVE SafeInv'
<1>1. ~Saves(c) /\ blob' \subseteq blob /\ blob \ blob' \subseteq Dead
  BY DEF SweepFails, Saves, Deletes, IndInv, SafeInv, DeadInv
<1>2. /\ \A d \in Slots : Saves(d) \/ Saves(d)' => call'[d] = call[d]
      /\ \A d \in Slots : call'[d].batch \subseteq Dead
      /\ \A d \in Slots : Deletes(d)' /\ call'[d].landed => d # c /\ call'[d] = call[d]
  BY <1>1, CallMoves DEF SweepFails, IndInv, SafeInv, DeadInv, Saves, Deletes, Idle
<1>3. \A d \in Slots : Deletes(d)' /\ call'[d].landed => call'[d].batch \cap blob' \subseteq strays
  BY <1>1, <1>2 DEF IndInv, SafeInv, LandedInv, Deletes
<1> QED
  BY <1>1, <1>2, <1>3, QuietStep DEF SweepFails

LEMMA DrainStartsSafe ==
  ASSUME IndInv, NEW c \in Slots, call[c] = Idle, NextBatch(c, pending),
         deleted' => deleted, UNCHANGED <<row, pending, blob, strays>>
  PROVE  SafeInv'
<1>1. ~Saves(c) /\ pending \in SUBSET Dead
  BY DEF Saves, Idle, IndInv, SafeInv, DeadInv
<1>2. /\ \A d \in Slots : Saves(d) \/ Saves(d)' => call'[d] = call[d]
      /\ \A d \in Slots : call'[d].batch \subseteq Dead
      /\ \A d \in Slots : Deletes(d)' /\ call'[d].landed => d # c /\ call'[d] = call[d]
  BY <1>1, NextBatchCalls
<1>3. \A d \in Slots : Deletes(d)' /\ call'[d].landed => call'[d].batch \cap blob' \subseteq strays
  BY <1>2 DEF IndInv, SafeInv, LandedInv, Deletes
<1> QED
  BY <1>2, <1>3, QuietStep

-----------------------------------------------------------------------------
(* Steps that save, delete or wipe.                                        *)

LEMMA StartCreateSafe ==
  ASSUME IndInv, NEW c \in Slots, NEW m \in Mails, StartCreate(c, m) PROVE SafeInv'
<1> USE DEF IndInv, SafeInv
<1>1. /\ \A d \in Slots : call'[d] = IF d = c THEN Saving("create", m) ELSE call[d]
      /\ row[m] = "unused" /\ row' = [row EXCEPT ![m] = "absent"]
      /\ UNCHANGED <<deleted, pending, blob, strays>>
  BY CallMoves DEF StartCreate
<1>2. \A d \in Slots : Saves(d) => call[d].mail # m
  BY <1>1 DEF Saves, CreateInv, UpdateInv, Dead
<1>3. Dead \subseteq Dead'
  BY <1>1 DEF Dead, InFlight, Saving, TypeOK
<1>4. DeadInv' /\ LandedInv'
  BY <1>1, <1>3 DEF DeadInv, LandedInv, Deletes, Saving
<1>5. CreateInv'
  BY <1>1, <1>2 DEF CreateInv, Saving, TypeOK, Saves
<1>6. UpdateInv'
  BY <1>1, <1>2, <1>3 DEF UpdateInv, Saving, TypeOK, Saves
<1>7. UnusedInv' /\ RowsReadable'
  BY <1>1 DEF UnusedInv, RowsReadable, Stored, TypeOK
<1>8. NothingLeaks'
  BY <1>1 DEF NothingLeaks, InFlight, UnusedInv, Saving, StartCreate, Idle, TypeOK
<1> QED
  BY <1>4, <1>5, <1>6, <1>7, <1>8

LEMMA StartUpdateSafe ==
  ASSUME IndInv, NEW c \in Slots, NEW m \in Mails, StartUpdate(c, m) PROVE SafeInv'
<1> USE DEF IndInv, SafeInv
<1>1. /\ \A d \in Slots : call'[d] = IF d = c THEN Saving("update", m) ELSE call[d]
      /\ ~deleted /\ row[m] = "stored" /\ call[c] = Idle
      /\ UNCHANGED <<deleted, row, pending, blob, strays>>
  BY CallMoves DEF StartUpdate, doVars
<1>2. Dead' = Dead
  BY <1>1 DEF Dead, InFlight, Saving, Idle
<1>3. DeadInv' /\ LandedInv' /\ UnusedInv' /\ RowsReadable'
  BY <1>1, <1>2 DEF DeadInv, LandedInv, Deletes, Saving, UnusedInv, RowsReadable, Stored
<1>4. CreateInv'
  BY <1>1 DEF CreateInv, Saving
<1>5. UpdateInv'
  BY <1>1, <1>2 DEF UpdateInv, Saving
<1>6. NothingLeaks'
  BY <1>1 DEF NothingLeaks, InFlight, Saving, Idle
<1> QED
  BY <1>3, <1>4, <1>5, <1>6

LEMMA PutLandsSafe == ASSUME IndInv, NEW c \in Slots, PutLands(c) PROVE SafeInv'
<1> USE DEF IndInv, SafeInv
<1> DEFINE m == call[c].mail
<1>1. /\ \A d \in Slots : call'[d] = IF d = c THEN [call[c] EXCEPT !.landed = TRUE] ELSE call[d]
      /\ Saves(c) /\ blob' = blob \cup {m} /\ m \in Mails
      /\ UNCHANGED <<deleted, row, pending, strays>>
  BY SavedMail DEF PutLands, doVars, TypeOK
<1>2. \A d \in Slots : /\ call'[d].op = call[d].op /\ call'[d].mail = call[d].mail
                       /\ call'[d].batch = call[d].batch
                       /\ d # c => call'[d].landed = call[d].landed
  BY <1>1 DEF TypeOK
<1>3. Dead' = Dead /\ \A op : InFlight(op)' = InFlight(op)
  BY <1>1, <1>2 DEF Dead, InFlight
<1>4. m \notin Dead \/ m \in strays
  BY <1>1 DEF Saves, CreateInv, UpdateInv, Dead, InFlight
<1>5. m \in InFlight("create") \cup InFlight("update") /\ row[m] # "unused"
  BY <1>1 DEF Saves, InFlight, CreateInv, UpdateInv, Dead
<1>6. DeadInv' /\ UpdateInv'
  BY <1>1, <1>2, <1>3 DEF DeadInv, UpdateInv
<1>7. CreateInv'
  BY <1>1, <1>2 DEF CreateInv
<1>8. LandedInv'
  BY <1>1, <1>2, <1>4 DEF LandedInv, DeadInv, Deletes, Saves
<1>9. UnusedInv' /\ RowsReadable' /\ NothingLeaks'
  BY <1>1, <1>3, <1>5 DEF UnusedInv, RowsReadable, Stored, NothingLeaks
<1> QED
  BY <1>6, <1>7, <1>8, <1>9

LEMMA ResumeSafe == ASSUME IndInv, NEW c \in Slots, Resume(c) PROVE SafeInv'
<1> USE DEF IndInv, SafeInv
<1> DEFINE m == call[c].mail
<1>1. m \in Mails /\ Saves(c) /\ call[c].landed /\ UNCHANGED <<deleted, blob, strays>>
  BY SavedMail DEF Resume
<1>2. CASE ~deleted /\ call[c].op = "create"
  <2>1. /\ \A d \in Slots : call'[d] = IF d = c THEN Idle ELSE call[d]
        /\ row' = [row EXCEPT ![m] = "stored"] /\ pending' = pending
    BY <1>2, CallMoves DEF Resume, WriteRow
  <2>2. m \in blob /\ m \notin Dead /\ row[m] = "absent"
    BY <1>1, <1>2 DEF CreateInv, Dead, InFlight
  <2>3. \A d \in Slots : d # c /\ Saves(d) => call[d].mail # m
    BY <1>1, <1>2, <2>2 DEF CreateInv, UpdateInv, Saves
  <2>4. Dead' = Dead
    BY <1>1, <1>2, <2>1, <2>2, <2>3 DEF Dead, InFlight, Idle, TypeOK, Saves
  <2>5. DeadInv' /\ LandedInv'
    BY <1>1, <2>1, <2>4 DEF DeadInv, LandedInv, Deletes, Idle
  <2>6. CreateInv' /\ UpdateInv'
    BY <1>1, <2>1, <2>3, <2>4 DEF CreateInv, UpdateInv, Idle, Saves, TypeOK
  <2>7. UnusedInv' /\ RowsReadable'
    BY <1>1, <2>1, <2>2 DEF UnusedInv, RowsReadable, Stored, TypeOK
  <2>8. NothingLeaks'
    BY <1>1, <2>1 DEF NothingLeaks, InFlight, Idle, TypeOK
  <2> QED
    BY <2>5, <2>6, <2>7, <2>8
<1>3. CASE ~deleted /\ call[c].op = "update"
  <2>1. /\ \A d \in Slots : call'[d] = IF d = c THEN Idle ELSE call[d]
        /\ row' = row /\ pending' = pending
    BY <1>3, CallMoves DEF Resume, WriteRow
  <2>2. Dead' = Dead
    BY <1>3, <2>1 DEF Dead, InFlight, Idle
  <2>3. row[m] = "stored" \/ m \in strays
    BY <1>3 DEF UpdateInv
  <2>4. DeadInv' /\ LandedInv' /\ CreateInv' /\ UpdateInv' /\ UnusedInv' /\ RowsReadable'
    BY <1>1, <2>1, <2>2 DEF DeadInv, LandedInv, Deletes, Idle, CreateInv, UpdateInv, UnusedInv,
                            RowsReadable, Stored
  <2>5. NothingLeaks'
    BY <1>1, <1>3, <2>1, <2>3 DEF NothingLeaks, InFlight, Idle
  <2> QED
    BY <2>4, <2>5
<1>4. CASE deleted
  <2>1. /\ \A d \in Slots : call'[d] = IF d = c THEN Deleting("sweep", {m}) ELSE call[d]
        /\ row' = row /\ pending' = pending \cup {m}
    BY <1>4, CallMoves DEF Resume
  <2>2. \A d \in Slots : call[d].op = "create" /\ call[d].mail = m => d = c
    BY <1>1, <1>4 DEF CreateInv, UpdateInv, Dead, InFlight, Saves
  <2>3. m \in Dead' /\ Dead \subseteq Dead'
    BY <1>1, <1>4, <2>1, <2>2 DEF Dead, InFlight, Deleting, CreateInv, UpdateInv, Saves
  <2>4. DeadInv' /\ LandedInv' /\ CreateInv' /\ UpdateInv' /\ UnusedInv' /\ RowsReadable'
    BY <1>1, <2>1, <2>3 DEF DeadInv, LandedInv, Deletes, Deleting, CreateInv, UpdateInv,
                            UnusedInv, RowsReadable, Stored
  <2>5. NothingLeaks'
    BY <1>1, <2>1 DEF NothingLeaks, InFlight, Deleting
  <2> QED
    BY <2>4, <2>5
<1> QED
  BY <1>1, <1>2, <1>3, <1>4 DEF Saves

LEMMA PutFailsSafe == ASSUME IndInv, NEW c \in Slots, PutFails(c) PROVE SafeInv'
<1> USE DEF IndInv, SafeInv
<1> DEFINE m == call[c].mail
<1>1. /\ \A d \in Slots : call'[d] = IF d = c THEN Idle ELSE call[d]
      /\ m \in Mails /\ Saves(c) /\ strays' = strays \cup {m}
      /\ blob' \in {blob, blob \cup {m}} /\ UNCHANGED <<deleted, row, pending>>
  BY SavedMail, CallMoves DEF PutFails, doVars
<1>2. Dead \subseteq Dead' /\ row[m] # "unused"
  BY <1>1 DEF Dead, InFlight, Idle, CreateInv, UpdateInv, Saves
<1>3. DeadInv' /\ LandedInv' /\ UnusedInv' /\ RowsReadable'
  BY <1>1, <1>2 DEF DeadInv, LandedInv, Deletes, Idle, UnusedInv, RowsReadable, Stored
<1>4. CreateInv' /\ UpdateInv'
  BY <1>1, <1>2 DEF CreateInv, UpdateInv, Idle
<1>5. NothingLeaks'
  BY <1>1 DEF NothingLeaks, InFlight, Idle
<1> QED
  BY <1>3, <1>4, <1>5

LEMMA DeleteEmailSafe ==
  ASSUME IndInv, NEW c \in Slots, NEW m \in Mails, DeleteEmail(c, m) PROVE SafeInv'
<1> USE DEF IndInv, SafeInv
<1>1. /\ \A d \in Slots : call'[d] = IF d = c THEN Deleting("sweep", {m}) ELSE call[d]
      /\ call[c] = Idle /\ row[m] = "stored" /\ row' = [row EXCEPT ![m] = "absent"]
      /\ pending' = pending \cup {m} /\ strays' = strays \cup ({m} \cap InFlight("update"))
      /\ UNCHANGED <<deleted, blob>>
  BY CallMoves DEF DeleteEmail
<1>2. \A d \in Slots : call[d].op = "create" => call[d].mail # m
  BY <1>1 DEF CreateInv
<1>3. Dead \subseteq Dead' /\ m \in Dead'
  BY <1>1, <1>2 DEF Dead, InFlight, Deleting, TypeOK
<1>4. DeadInv' /\ LandedInv' /\ UnusedInv' /\ RowsReadable'
  BY <1>1, <1>3 DEF DeadInv, LandedInv, Deletes, Deleting, UnusedInv, RowsReadable, Stored, TypeOK
<1>5. CreateInv'
  BY <1>1, <1>2 DEF CreateInv, Deleting, TypeOK
<1>6. UpdateInv'
  <2> SUFFICES ASSUME NEW d \in Slots, call'[d].op = "update"
               PROVE  /\ call'[d].mail \in Mails
                      /\ \/ row'[call'[d].mail] = "stored" /\ ~deleted'
                         \/ call'[d].mail \in Dead' \cap strays'
    BY DEF UpdateInv
  <2>1. call'[d] = call[d] /\ call[d].mail \in Mails
    BY <1>1 DEF UpdateInv, Deleting
  <2>2. CASE call[d].mail = m
    BY <1>1, <1>3, <2>1, <2>2 DEF InFlight
  <2>3. CASE call[d].mail # m
    BY <1>1, <1>3, <2>1, <2>3 DEF UpdateInv, TypeOK
  <2> QED
    BY <2>2, <2>3
<1>7. NothingLeaks'
  BY <1>1 DEF NothingLeaks, InFlight, Deleting, Idle, TypeOK
<1> QED
  BY <1>4, <1>5, <1>6, <1>7

LEMMA PurgeSafe == ASSUME IndInv, NEW c \in Slots, Purge(c) PROVE SafeInv'
<1> USE DEF IndInv, SafeInv
<1>1. /\ call[c] = Idle /\ deleted' = TRUE /\ UNCHANGED blob
      /\ row' = [m \in Mails |-> IF row[m] = "stored" THEN "absent" ELSE row[m]]
      /\ pending' = pending \cup Stored
      /\ strays' = strays \cup (Stored \cap InFlight("update"))
  BY DEF Purge, Wipe
<1>2. \E k : k \in {Idle} \cup {Deleting("drain", b) : b \in SUBSET pending'} /\ Becomes(c, k)
  BY DEF Purge, NextBatch
<1>3. PICK k : k \in {Idle} \cup {Deleting("drain", b) : b \in SUBSET pending'} /\ Becomes(c, k)
  BY <1>2
<1>4. /\ \A d \in Slots : call'[d] = IF d = c THEN k ELSE call[d]
      /\ k.op \in {"idle", "drain"} /\ k.batch \subseteq pending' /\ k.landed = FALSE
  BY <1>3, CallMoves DEF Idle, Deleting
<1>5. \A op \in {"create", "update"} : InFlight(op)' = InFlight(op)
  BY <1>1, <1>4 DEF InFlight, Idle
<1>6. Stored \cap InFlight("create") = {}
  BY DEF Stored, InFlight, CreateInv
<1>7. Dead' = Dead \cup Stored
  BY <1>1, <1>5, <1>6 DEF Dead, Stored, TypeOK
<1>8. DeadInv' /\ LandedInv'
  BY <1>1, <1>4, <1>7 DEF DeadInv, LandedInv, Deletes
<1>9. CreateInv'
  BY <1>1, <1>4 DEF CreateInv
<1>10. UpdateInv'
  BY <1>1, <1>4, <1>7 DEF UpdateInv, Stored, InFlight
<1>11. UnusedInv' /\ RowsReadable'
  BY <1>1 DEF UnusedInv, RowsReadable, Stored
<1>12. NothingLeaks'
  BY <1>1, <1>5 DEF NothingLeaks, Stored, TypeOK
<1> QED
  BY <1>8, <1>9, <1>10, <1>11, <1>12

LEMMA RestartSafe == ASSUME IndInv, Restart PROVE SafeInv'
<1> USE DEF IndInv, SafeInv
<1> DEFINE saved == InFlight("create") \cup InFlight("update")
           cut == UNION {call[c].batch : c \in Slots}
<1>1. /\ \A c \in Slots : call'[c] = Idle
      /\ strays' = strays \cup saved /\ UNCHANGED <<row, pending>>
      /\ blob' \subseteq blob \cup saved /\ blob \ blob' \subseteq cut
  BY DEF Restart
<1>2. Dead \subseteq Dead' /\ cut \subseteq Dead
  BY <1>1 DEF Dead, InFlight, Idle, DeadInv
<1>3. DeadInv' /\ LandedInv' /\ CreateInv' /\ UpdateInv'
  BY <1>1, <1>2 DEF DeadInv, LandedInv, CreateInv, UpdateInv, Deletes, Idle
<1>4. saved \subseteq {m \in Mails : row[m] # "unused"}
  BY DEF InFlight, CreateInv, UpdateInv, Dead
<1>5. UnusedInv' /\ RowsReadable'
  BY <1>1, <1>2, <1>4 DEF UnusedInv, RowsReadable, Stored, Dead
<1>6. NothingLeaks'
  BY <1>1 DEF NothingLeaks
<1> QED
  BY <1>3, <1>5, <1>6

LEMMA SafeStep == IndInv /\ [Next]_vars => SafeInv'
<1> SUFFICES ASSUME IndInv, [Next]_vars PROVE SafeInv'
  OBVIOUS
<1>1. Calls \subseteq Slots /\ Alarm \in Slots
  BY DEF Slots
<1>2. ASSUME NEW c \in Calls, Request(c) PROVE SafeInv'
  <2>1. CASE Revive(c)
    BY <1>1, <2>1, DrainStartsSafe DEF Revive
  <2> QED
    BY <1>1, <1>2, <2>1, StartCreateSafe, StartUpdateSafe, DeleteEmailSafe, PurgeSafe DEF Request
<1>3. ASSUME NEW c \in Slots, Step(c) \/ Fail(c) PROVE SafeInv'
  BY <1>3, DeleteLandsSafe, SweepDoneSafe, PutLandsSafe, ResumeSafe, SweepFailsSafe, PutFailsSafe
  DEF Step, Fail
<1>4. CASE AlarmFires
  BY <1>1, <1>4, DrainStartsSafe DEF AlarmFires
<1>5. CASE Restart
  BY <1>5, RestartSafe
<1>6. CASE UNCHANGED vars
  BY <1>6 DEF vars, doVars, IndInv, SafeInv, DeadInv, CreateInv, UpdateInv, UnusedInv, LandedInv,
              RowsReadable, NothingLeaks, Dead, InFlight, Stored, Deletes
<1> QED
  BY <1>2, <1>3, <1>4, <1>5, <1>6 DEF Next

\* The inductive invariant.
THEOREM Inductive == Spec => []IndInv
<1>1. IndInv /\ [Next]_vars => IndInv'
  BY TypeStep, SafeStep DEF IndInv
<1> QED
  BY InitInd, <1>1, PTL DEF Spec

-----------------------------------------------------------------------------
\* Every variable keeps its type (durableObject/index.ts, pending-blob-deletes.ts).
THEOREM TypeCorrect == Spec => []TypeOK
<1>1. IndInv => TypeOK
  BY DEF IndInv
<1> QED
  BY Inductive, <1>1, PTL

\* The body of a row that exists is never swept, whichever calls overlap and
\* whatever fails (drainPendingBlobDeletes, createEmail, updateDraft).
THEOREM Readable == Spec => []RowsReadable
<1>1. IndInv => RowsReadable
  BY DEF IndInv, SafeInv
<1> QED
  BY Inductive, <1>1, PTL

\* An object without a row is queued or being written, but for the two named
\* exceptions (deleteEmail, purgeMailbox, #assertStillWritableAfterBlobWrite).
THEOREM NoLeak == Spec => []NothingLeaks
<1>1. IndInv => NothingLeaks
  BY DEF IndInv, SafeInv
<1> QED
  BY Inductive, <1>1, PTL

\* No row appears under the deleted flag, though the calls that would write one
\* checked the flag before they waited for R2.
THEOREM NothingLands == Spec => NothingLandsAfter
<1>1. ASSUME TypeOK, [Next]_vars, deleted
      PROVE  {m \in Mails : row'[m] = "stored"} \subseteq Stored
  <2>1. ASSUME NEW c \in Calls, Request(c) PROVE {m \in Mails : row'[m] = "stored"} \subseteq Stored
    BY <1>1, <2>1 DEF Request, StartCreate, StartUpdate, DeleteEmail, Purge, Wipe, Revive, doVars,
                      TypeOK, Stored
  <2>2. ASSUME NEW c \in Slots, Step(c) \/ Fail(c)
        PROVE  {m \in Mails : row'[m] = "stored"} \subseteq Stored
    BY <1>1, <2>2 DEF Step, Fail, DeleteLands, SweepDone, PutLands, Resume, SweepFails, PutFails,
                      doVars, Stored
  <2> QED
    BY <1>1, <2>1, <2>2 DEF Next, AlarmFires, Restart, vars, doVars, Stored
<1>2. TypeOK /\ [Next]_vars => [deleted => {m \in Mails : row'[m] = "stored"} \subseteq Stored]_vars
  BY <1>1
<1> QED
  BY TypeCorrect, <1>2, PTL DEF Spec, NothingLandsAfter

=============================================================================
