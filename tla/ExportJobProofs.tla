--------------------------- MODULE ExportJobProofs ---------------------------
(***************************************************************************)
(* Theorems about ExportJob, for any mailboxes, sizes, bounds and faults.  *)
(*                                                                         *)
(* The type invariant is not inductive by itself: the key of a scratch     *)
(* object is bounded because every slice that wrote one was cut off        *)
(* (SliceInv).  A completed export is whole because at every place of the  *)
(* slice the parts, the begun part and the cursor agree (Sound, CopyInv),  *)
(* the page in hand misses nothing after the cursor (PageInv), and a state *)
(* that is resumed agrees with the scratch object it names (Resumes).  Who *)
(* may be where when a job is over or expired (ControlInv) is what leaves  *)
(* nothing behind.  That ExportPromise is kept rests on these and on who   *)
(* acts on an open job (OpenInv).                                          *)
(***************************************************************************)
EXTENDS ExportJob, TLAPS, FiniteSetTheorems

\* The keys of the scratch objects rise with the slices that ran out of time.
SliceInv == /\ store.slice <= timeouts /\ work.slice <= timeouts
            /\ At(Runner, "save") => work.slice < timeouts

-----------------------------------------------------------------------------
(* Types.                                                                  *)

LEMMA FreshType == Fresh \in States
<1>1. <<>> \in Seq(Parts)  OBVIOUS
<1> QED BY <1>1, Positions, Bounds DEF Fresh, States

LEMMA InitType == Init => TypeOK /\ SliceInv
<1> SUFFICES ASSUME Init PROVE TypeOK /\ SliceInv  OBVIOUS
<1>1. pc \in [Parties -> Pcs] /\ held \in Statuses /\ ~At(Runner, "save")
  BY DEF Init, Parties, Pcs, Statuses, Route, Runner, At
<1>2. archive \in Seq(Parts) /\ upload \in [open : BOOLEAN, parts : Seq(Parts)]
  BY DEF Init, NoUpload
<1>3. scratch \in [Carries -> Parts] /\ buffer \in Parts  BY DEF Init, NoScratch, Parts
<1>4. rows \subseteq Places /\ kept \subseteq rows  BY DEF Init
<1>5. store \in States /\ work \in States /\ store.slice = 0 /\ work.slice = 0
  BY FreshType DEF Init, Fresh
<1>6. /\ obsolete \in 0..MaxTimeouts /\ timeouts \in 0..MaxTimeouts /\ timeouts = 0
      /\ faults \in 0..MaxFaults /\ job \in Statuses
  BY Bounds DEF Init, Statuses
<1>7. /\ expired \in BOOLEAN /\ live \in BOOLEAN /\ alarm \in BOOLEAN /\ page \subseteq Places
      /\ slips \subseteq {"unheard", "cut", "spilled", "dropped", "early"}
  BY DEF Init
<1> HIDE DEF Init
<1> QED BY <1>1, <1>2, <1>3, <1>4, <1>5, <1>6, <1>7 DEF TypeOK, SliceInv

\* What a step that ends the invocation leaves.
LEMMA ForgetType ==
  ASSUME TypeOK, Forget
  PROVE  /\ work' \in States /\ work'.slice = 0 /\ page' \subseteq Places /\ buffer' \in Parts
         /\ obsolete' \in 0..MaxTimeouts
<1>1. buffer' \in Parts  BY DEF Forget, Parts
<1> QED BY <1>1, FreshType, Bounds DEF Forget, Fresh

\* A slice that was cut off has a number of its own to save its tail under.
LEMMA NextSlice ==
  ASSUME TypeOK, SliceInv, At(Runner, "save")
  PROVE  work.slice + 1 <= timeouts /\ work.slice + 1 \in Carries
<1>1. work.slice \in 0..MaxTimeouts /\ timeouts \in 0..MaxTimeouts  BY DEF TypeOK, States
<1>2. work.slice < timeouts  BY DEF SliceInv
<1> QED BY <1>1, <1>2, Bounds DEF Carries

LEMMA MoveType ==
  ASSUME TypeOK, NEW x \in Parties, NEW there \in Pcs, Move(x, there)
  PROVE  pc' \in [Parties -> Pcs] /\ pc'[x] = there /\ \A y \in Parties \ {x} : pc'[y] = pc[y]
BY DEF TypeOK, Move

LEMMA PcNames ==
  /\ Trying \subseteq Pcs /\ Failing \subseteq Pcs
  /\ {"idle", "tidy", "sweep", "start", "drop", "forget"} \subseteq Pcs
  /\ {Route, Runner, Cron} \subseteq Parties /\ Route # Runner /\ Cron # Runner /\ Route # Cron
BY DEF Pcs, Parties, Route, Runner, Cron

LEMMA EndedType ==
  ASSUME TypeOK, SliceInv, NEW x \in {Route, Runner}, Ended(x)
  PROVE  /\ pc' \in [Parties -> Pcs] /\ pc'[x] = "idle"
         /\ live' \in BOOLEAN /\ alarm' \in BOOLEAN
         /\ store' \in States /\ store'.slice <= timeouts
         /\ work' \in States /\ page' \subseteq Places /\ buffer' \in Parts
         /\ obsolete' \in 0..MaxTimeouts
         /\ work'.slice <= timeouts
<1>1. /\ Move(x, "idle") /\ x \in Parties /\ "idle" \in Pcs
      /\ IF x = Runner THEN Wipe /\ Forget ELSE UNCHANGED <<durable, local>>
  BY PcNames DEF Ended
<1>2. timeouts >= 0 /\ timeouts \in Int  BY Bounds DEF TypeOK
<1> HIDE DEF Forget
<1>3. CASE x = Runner
  <2>1. Wipe /\ Forget  BY <1>1, <1>3
  <2> QED BY <1>1, <1>2, <2>1, MoveType, ForgetType, FreshType DEF Wipe, Fresh
<1>4. CASE x # Runner
  <2>1. UNCHANGED <<durable, local>>  BY <1>1, <1>4
  <2> QED BY <1>1, <2>1, MoveType DEF TypeOK, SliceInv, durable, local
<1> QED BY <1>3, <1>4

\* What the end of an invocation leaves alone keeps its type, and so does the rest.
LEMMA EndedKeeps ==
  ASSUME TypeOK, SliceInv, NEW x \in {Route, Runner}, Ended(x),
         UNCHANGED <<rows, kept, expired, archive, upload, scratch, held, timeouts>>,
         job' \in Statuses, faults' \in 0..MaxFaults,
         slips' \subseteq {"unheard", "cut", "spilled", "dropped", "early"}
  PROVE  TypeOK' /\ SliceInv'
<1>1. /\ pc' \in [Parties -> Pcs] /\ pc'[x] = "idle"
      /\ store' \in States /\ store'.slice <= timeouts
      /\ live' \in BOOLEAN /\ alarm' \in BOOLEAN
      /\ work' \in States /\ page' \subseteq Places /\ buffer' \in Parts
      /\ obsolete' \in 0..MaxTimeouts
      /\ work'.slice <= timeouts
  BY EndedType
<1>2. TypeOK'  BY <1>1 DEF TypeOK
<1>3. At(Runner, "save")' => work'.slice < timeouts'
  <2>1. CASE x = Runner  BY <1>1, <2>1 DEF At
  <2>2. CASE x # Runner
    <3>1. pc'[Runner] = pc[Runner] /\ work' = work
      BY <2>2, MoveType, PcNames DEF Ended, local
    <3> QED BY <3>1 DEF SliceInv, At
  <2> QED BY <2>1, <2>2
<1> QED BY <1>1, <1>2, <1>3 DEF SliceInv

\* The same for an invocation that the runner leaves without a trace.
LEMMA ForgetKeeps ==
  ASSUME TypeOK, SliceInv, Forget, pc' \in [Parties -> Pcs],
         At(Runner, "save")' => At(Runner, "save"),
         UNCHANGED <<rows, kept, job, expired, archive, upload, live, store, held, timeouts>>,
         scratch' \in [Carries -> Parts], alarm' \in BOOLEAN, faults' \in 0..MaxFaults,
         slips' \subseteq {"unheard", "cut", "spilled", "dropped", "early"}
  PROVE  TypeOK' /\ SliceInv'
<1>1. /\ work' \in States /\ work'.slice = 0 /\ page' \subseteq Places /\ buffer' \in Parts
      /\ obsolete' \in 0..MaxTimeouts
  BY ForgetType
<1>2. 0 <= timeouts /\ (At(Runner, "save") => 0 < timeouts)
  BY Bounds DEF TypeOK, SliceInv, States
<1> HIDE DEF Forget
<1>3. TypeOK'  BY <1>1 DEF TypeOK
<1> QED BY <1>1, <1>2, <1>3 DEF SliceInv, At

LEMMA BeginType ==
  ASSUME TypeOK, SliceInv, Begin
  PROVE  live' \in BOOLEAN /\ alarm' \in BOOLEAN /\ store' \in States /\ store'.slice <= timeouts
<1>1. timeouts >= 0 /\ timeouts \in Int /\ Fresh.slice = 0  BY Bounds DEF TypeOK, Fresh
<1> QED BY <1>1, FreshType DEF Begin, TypeOK, SliceInv, durable

LEMMA FaultType == ASSUME TypeOK, Fault PROVE faults' \in 0..MaxFaults
BY Bounds DEF TypeOK, Fault

\* The steps of the route and the client.
LEMMA RouteType ==
  ASSUME TypeOK, SliceInv, Ask \/ Start \/ StartFails \/ Kick \/ RefuseExpired
  PROVE  TypeOK' /\ SliceInv'
<1> USE PcNames DEF mail, record, objects, local, bounds
<1> HIDE DEF Begin, Move
<1>1. CASE Ask
  <2>1. Move(Route, "start")  BY <1>1 DEF Ask
  <2>2. pc' \in [Parties -> Pcs] /\ pc'[Runner] = pc[Runner]  BY <2>1, MoveType
  <2> QED BY <1>1, <2>2 DEF Ask, TypeOK, SliceInv, Statuses, At, durable
<1>2. CASE Start
  <2>1. Move(Route, "idle") /\ Begin  BY <1>2 DEF Start
  <2>2. pc' \in [Parties -> Pcs] /\ pc'[Runner] = pc[Runner]  BY <2>1, MoveType
  <2> QED BY <1>2, <2>1, <2>2, BeginType DEF Start, TypeOK, SliceInv, At
<1>3. CASE StartFails
  <2>1. Move(Route, "abort") /\ Fault  BY <1>3 DEF StartFails
  <2>2. pc' \in [Parties -> Pcs] /\ pc'[Runner] = pc[Runner]
    BY <2>1, MoveType DEF Failing
  <2>3. /\ live' \in BOOLEAN /\ alarm' \in BOOLEAN /\ store' \in States
        /\ store'.slice <= timeouts
    BY <1>3, BeginType DEF StartFails, TypeOK, SliceInv, durable
  <2>4. slips' \subseteq {"unheard", "cut", "spilled", "dropped", "early"}
    BY <1>3 DEF StartFails, Slip, TypeOK
  <2>5. faults' \in 0..MaxFaults  BY <2>1, FaultType
  <2> QED BY <1>3, <2>2, <2>3, <2>4, <2>5 DEF StartFails, TypeOK, SliceInv, At
<1>4. CASE Kick
  BY <1>4 DEF Kick, TypeOK, SliceInv, At
<1>5. CASE RefuseExpired
  <2>1. archive' \in Seq(Parts)  BY <1>5 DEF RefuseExpired
  <2> QED BY <1>5, <2>1 DEF RefuseExpired, TypeOK, SliceInv, At, durable
<1> QED BY <1>1, <1>2, <1>3, <1>4, <1>5

LEMMA WorkType ==
  ASSUME TypeOK
  PROVE  /\ work.cursor \in 0..Last /\ work.parts \in Seq(Parts) /\ work.carry \in 0..MaxTimeouts
         /\ work.slice \in 0..MaxTimeouts /\ work.upload \in BOOLEAN
         /\ store.attempts \in 0..MaxAttempts /\ store.carry \in 0..MaxTimeouts
         /\ store.slice \in 0..MaxTimeouts
BY DEF TypeOK, States

\* A state with other values in some fields.
LEMMA UpdateType ==
  ASSUME NEW s \in States
  PROVE  /\ \A c \in 0..Last : /\ [s EXCEPT !.cursor = c] \in States
                              /\ [s EXCEPT !.cursor = c].slice = s.slice
         /\ \A n \in 0..MaxAttempts : /\ [s EXCEPT !.attempts = n] \in States
                                     /\ [s EXCEPT !.attempts = n].slice = s.slice
BY DEF States

LEMMA CarryType ==
  ASSUME NEW s \in States, NEW k \in 0..MaxTimeouts, NEW n \in 0..MaxTimeouts,
         NEW t, t = [s EXCEPT !.carry = k, !.slice = n]
  PROVE  t \in States /\ t.slice = n /\ t.carry = k /\ t.parts = s.parts /\ t.cursor = s.cursor
         /\ t.upload = s.upload
BY DEF States

LEMMA FireType ==
  ASSUME TypeOK, SliceInv, Fire PROVE TypeOK' /\ SliceInv'
<1> USE PcNames DEF mail, record, objects, bounds
<1>1. /\ pc' \in [Parties -> Pcs] /\ store' \in States /\ work' \in States
      /\ store'.slice = store.slice /\ work'.slice \in {work.slice, store.slice}
      /\ pc'[Runner] # "save"
  <2>1. CASE ~live
    BY <2>1 DEF Fire, TypeOK, At
  <2>2. CASE live /\ store.attempts >= MaxAttempts
    <3>1. Move(Runner, "abort") /\ "abort" \in Pcs /\ UNCHANGED <<store, work>>
      <4>1. ~(~live) /\ ~(store.attempts < MaxAttempts)  BY <2>2, WorkType, Bounds
      <4> QED BY <2>2, <4>1 DEF Fire, Failing
    <3> QED BY <3>1, MoveType DEF TypeOK
  <2>3. CASE live /\ store.attempts < MaxAttempts
    <3>1. /\ Move(Runner, "load") /\ "load" \in Pcs
          /\ store' = [store EXCEPT !.attempts = @ + 1] /\ work' = store'
      <4>1. ~(live /\ store.attempts >= MaxAttempts)  BY <2>3, WorkType, Bounds
      <4> QED BY <2>3, <4>1 DEF Fire, Trying
    <3>2. store' \in States /\ store'.slice = store.slice
      <4>1. store.attempts + 1 \in 0..MaxAttempts  BY <2>3, WorkType, Bounds
      <4>2. store' = [store EXCEPT !.attempts = store.attempts + 1]  BY <3>1
      <4> QED BY <4>1, <4>2, UpdateType DEF TypeOK
    <3> QED BY <3>1, <3>2, MoveType
  <2> QED BY <2>1, <2>2, <2>3, WorkType, Bounds
<1> QED BY <1>1 DEF Fire, TypeOK, SliceInv, At

\* The steps of a slice that copy mail.
LEMMA CopyType ==
  ASSUME TypeOK, SliceInv,
         LoadJob \/ LoadCarry \/ ReadPage \/ WriteMail \/ SaveProgress \/ CreateUpload \/ UploadPart
         \/ AllRead
  PROVE  TypeOK' /\ SliceInv'
<1> USE PcNames DEF mail, record, objects, durable, local, bounds, Trying, Working
<1>1. CASE LoadJob
  <2>1. PICK there \in {"count", "clear"} : Move(Runner, there)  BY <1>1 DEF LoadJob
  <2>2. pc' \in [Parties -> Pcs] /\ pc'[Runner] # "save"  BY <2>1, MoveType
  <2> QED BY <1>1, <2>2 DEF LoadJob, TypeOK, SliceInv, At
<1>2. CASE LoadCarry
  <2>1. Move(Runner, "pages")  BY <1>2 DEF LoadCarry
  <2>2. pc' \in [Parties -> Pcs] /\ pc'[Runner] # "save"  BY <2>1, MoveType
  <2>3. buffer' \in Parts  BY <1>2, WorkType DEF LoadCarry, TypeOK, Carries, Parts
  <2>4. work' \in States /\ work'.slice = work.slice  BY <1>2 DEF LoadCarry, TypeOK, States
  <2> QED BY <1>2, <2>2, <2>3, <2>4 DEF LoadCarry, TypeOK, SliceInv, At
<1>3. CASE ReadPage
  <2>1. PICK e \in Ends : /\ page' = FirstRows(After(work.cursor, e))
                         /\ work' = [work EXCEPT !.cursor = IF After(@, e) = {} THEN e ELSE @]
    BY <1>3 DEF ReadPage
  <2>2. page' \subseteq Places  BY <2>1 DEF FirstRows, After, TypeOK
  <2>3. work' \in States /\ work'.slice = work.slice
    <3>1. e \in 0..Last /\ work.cursor \in 0..Last  BY Positions, WorkType
    <3> QED BY <2>1, <3>1, UpdateType DEF TypeOK
  <2> QED BY <1>3, <2>2, <2>3 DEF ReadPage, TypeOK, SliceInv, At
<1>4. CASE WriteMail
  <2>1. PICK p \in page : /\ page' = page \ {p} /\ buffer' = Append(buffer, p)
                         /\ work' = [work EXCEPT !.cursor = p]
    BY <1>4 DEF WriteMail
  <2>2. p \in Places /\ page' \subseteq Places /\ buffer' \in Parts  BY <2>1 DEF TypeOK, Parts
  <2>3. work' \in States /\ work'.slice = work.slice
    <3>1. p \in 0..Last  BY <2>2, Positions DEF Places
    <3> QED BY <2>1, <3>1, UpdateType DEF TypeOK
  <2>4. PICK there \in {"flush", "pages"} : Move(Runner, there)  BY <1>4 DEF WriteMail
  <2>5. pc' \in [Parties -> Pcs] /\ pc'[Runner] # "save"  BY <2>4, MoveType
  <2> QED BY <1>4, <2>2, <2>3, <2>5 DEF WriteMail, TypeOK, SliceInv, At
<1>5. CASE SaveProgress  BY <1>5 DEF SaveProgress, TypeOK, SliceInv, At, Statuses
<1>6. CASE CreateUpload
  <2>1. upload' \in [open : BOOLEAN, parts : Seq(Parts)]  BY <1>6 DEF CreateUpload
  <2>2. work' \in States /\ work'.slice = work.slice  BY <1>6 DEF CreateUpload, TypeOK, States
  <2> QED BY <1>6, <2>1, <2>2 DEF CreateUpload, TypeOK, SliceInv, At
<1>7. CASE UploadPart
  <2>1. Move(Runner, "pages")  BY <1>7 DEF UploadPart
  <2>2. pc' \in [Parties -> Pcs] /\ pc'[Runner] # "save"  BY <2>1, MoveType
  <2>3. upload' \in [open : BOOLEAN, parts : Seq(Parts)]
    <3>1. upload.parts \in Seq(Parts) /\ buffer \in Parts /\ Len(work.parts) + 1 \in Nat \ {0}
      BY WorkType DEF TypeOK
    <3>2. PartsWith(upload.parts, Len(work.parts) + 1, buffer) \in Seq(Parts)
      BY <3>1 DEF PartsWith
    <3> QED BY <1>7, <3>2 DEF UploadPart, TypeOK
  <2>4. work' \in States /\ work'.slice = work.slice
    <3>1. Append(work.parts, buffer) \in Seq(Parts)  BY WorkType DEF TypeOK
    <3> QED BY <1>7, <3>1 DEF UploadPart, TypeOK, States
  <2>5. buffer' \in Parts  BY <1>7 DEF UploadPart, Parts
  <2> QED BY <1>7, <2>2, <2>3, <2>4, <2>5 DEF UploadPart, TypeOK, SliceInv, At
<1>8. CASE AllRead
  <2>1. PICK there \in {"flush", "finish"} : Move(Runner, there)  BY <1>8 DEF AllRead
  <2>2. pc' \in [Parties -> Pcs] /\ pc'[Runner] # "save"  BY <2>1, MoveType
  <2> QED BY <1>8, <2>2 DEF AllRead, TypeOK, SliceInv, At
<1> QED BY <1>1, <1>2, <1>3, <1>4, <1>5, <1>6, <1>7, <1>8

\* The steps that end a slice or the job.
LEMMA EndType ==
  ASSUME TypeOK, SliceInv,
         PutArchive \/ CompleteUpload \/ RecordCompleted \/ Clear \/ Sweep \/ TimesOut
         \/ CountTimesOut \/ SaveCarry \/ Report \/ Persist \/ Tidy
  PROVE  TypeOK' /\ SliceInv'
<1> USE PcNames DEF mail, record, objects, durable, local, bounds, Trying, Working
<1> HIDE DEF Forget
<1>1. CASE PutArchive
  <2>1. Move(Runner, "record")  BY <1>1 DEF PutArchive
  <2>2. pc' \in [Parties -> Pcs] /\ pc'[Runner] # "save"  BY <2>1, MoveType
  <2>3. archive' \in Seq(Parts)  BY <1>1 DEF PutArchive, TypeOK
  <2> QED BY <1>1, <2>2, <2>3 DEF PutArchive, TypeOK, SliceInv, At
<1>2. CASE CompleteUpload
  <2>1. Move(Runner, "record")  BY <1>2 DEF CompleteUpload
  <2>2. pc' \in [Parties -> Pcs] /\ pc'[Runner] # "save"  BY <2>1, MoveType
  <2>3. archive' \in Seq(Parts) /\ upload' \in [open : BOOLEAN, parts : Seq(Parts)]
    BY <1>2, WorkType DEF CompleteUpload, TypeOK, NoUpload
  <2> QED BY <1>2, <2>2, <2>3 DEF CompleteUpload, TypeOK, SliceInv, At
<1>3. CASE RecordCompleted
  <2>1. Move(Runner, "clear")  BY <1>3 DEF RecordCompleted
  <2>2. pc' \in [Parties -> Pcs] /\ pc'[Runner] # "save"  BY <2>1, MoveType
  <2> QED BY <1>3, <2>2 DEF RecordCompleted, TypeOK, SliceInv, At, Statuses
<1>4. CASE Clear
  <2>1. Move(Runner, "sweep")  BY <1>4 DEF Clear
  <2>2. pc' \in [Parties -> Pcs] /\ pc'[Runner] # "save"  BY <2>1, MoveType
  <2>3. store' \in States /\ store'.slice = 0 /\ 0 <= timeouts
    BY <1>4, FreshType, Bounds DEF Clear, Wipe, Fresh, TypeOK
  <2> QED BY <1>4, <2>2, <2>3 DEF Clear, Wipe, TypeOK, SliceInv, At
<1>5. CASE Sweep \/ Tidy
  <2>1. Move(Runner, "idle") /\ Forget  BY <1>5 DEF Sweep, Tidy
  <2>2. pc' \in [Parties -> Pcs] /\ pc'[Runner] # "save"  BY <2>1, MoveType
  <2>3. scratch' \in [Carries -> Parts]
    <3>1. <<>> \in Parts  BY DEF Parts
    <3>2. CASE Sweep  BY <3>1, <3>2 DEF Sweep, NoScratch
    <3>3. CASE Tidy
      <4>1. CASE scratch' = scratch  BY <4>1 DEF TypeOK
      <4>2. CASE scratch' = [k \in Carries |-> IF k = obsolete THEN <<>> ELSE scratch[k]]
        BY <3>1, <4>2 DEF TypeOK
      <4> QED BY <3>3, <4>1, <4>2 DEF Tidy
    <3> QED BY <1>5, <3>2, <3>3
  <2>4. /\ UNCHANGED <<rows, kept, job, expired, archive, upload, live, store, alarm, held,
                      timeouts, faults, slips>>
    BY <1>5 DEF Sweep, Tidy
  <2>5. 0 <= timeouts  BY Bounds DEF TypeOK
  <2> QED BY <2>1, <2>2, <2>3, <2>4, <2>5, ForgetType DEF TypeOK, SliceInv, At
<1>6. CASE TimesOut
  <2>1. Move(Runner, "save")  BY <1>6 DEF TimesOut
  <2>2. pc' \in [Parties -> Pcs]  BY <2>1, MoveType
  <2>3. timeouts' \in 0..MaxTimeouts /\ timeouts' = timeouts + 1  BY <1>6, Bounds DEF TimesOut, TypeOK
  <2> QED BY <1>6, <2>2, <2>3, WorkType, Bounds DEF TimesOut, TypeOK, SliceInv, At
<1>7. CASE CountTimesOut
  <2>1. Move(Runner, "report")  BY <1>7 DEF CountTimesOut
  <2>2. pc' \in [Parties -> Pcs] /\ pc'[Runner] # "save"  BY <2>1, MoveType
  <2>3. timeouts' \in 0..MaxTimeouts /\ timeouts' = timeouts + 1
    BY <1>7, Bounds DEF CountTimesOut, TypeOK
  <2>4. TypeOK'  BY <1>7, <2>2, <2>3 DEF CountTimesOut, TypeOK
  <2>5. timeouts <= timeouts' /\ store' = store /\ work' = work
    BY <1>7, <2>3, Bounds DEF CountTimesOut, TypeOK
  <2>6. /\ store.slice \in Nat /\ work.slice \in Nat
        /\ store.slice <= timeouts /\ work.slice <= timeouts
    BY WorkType, Bounds DEF SliceInv
  <2>7. timeouts \in Nat /\ timeouts' \in Nat  BY <2>3, Bounds DEF TypeOK
  <2>8. store'.slice <= timeouts' /\ work'.slice <= timeouts'  BY <2>5, <2>6, <2>7
  <2> QED BY <2>2, <2>4, <2>8 DEF SliceInv, At
<1>8. CASE SaveCarry
  <2>1. Move(Runner, "report")  BY <1>8 DEF SaveCarry
  <2>2. pc' \in [Parties -> Pcs] /\ pc'[Runner] # "save"  BY <2>1, MoveType
  <2>3. work.slice + 1 <= timeouts /\ work.slice + 1 \in Carries
    BY <1>8, NextSlice DEF SaveCarry
  <2>4. /\ work' \in States /\ work'.slice = work.slice + 1
        /\ scratch' \in [Carries -> Parts]
    <3>1. work.slice + 1 \in 0..MaxTimeouts /\ 0 \in 0..MaxTimeouts /\ work \in States
      BY <2>3, Bounds DEF Carries, TypeOK
    <3>2. CASE buffer = <<>>
      <4>1. work' = [work EXCEPT !.carry = 0, !.slice = work.slice + 1] /\ scratch' = scratch
        BY <1>8, <3>2 DEF SaveCarry
      <4>2. work' \in States /\ work'.slice = work.slice + 1  BY <3>1, <4>1 DEF States
      <4> QED BY <4>1, <4>2 DEF TypeOK
    <3>3. CASE buffer # <<>>
      <4>1. /\ work' = [work EXCEPT !.carry = work.slice + 1, !.slice = work.slice + 1]
            /\ scratch' = [scratch EXCEPT ![work.slice + 1] = buffer]
        BY <1>8, <3>3 DEF SaveCarry
      <4>2. work' \in States /\ work'.slice = work.slice + 1  BY <3>1, <4>1 DEF States
      <4> QED BY <2>3, <4>1, <4>2 DEF TypeOK
    <3> QED BY <3>2, <3>3
  <2> QED BY <1>8, <2>2, <2>3, <2>4 DEF SaveCarry, TypeOK, SliceInv, At
<1>9. CASE Report
  <2>1. Move(Runner, "persist")  BY <1>9 DEF Report
  <2>2. pc' \in [Parties -> Pcs] /\ pc'[Runner] # "save"  BY <2>1, MoveType
  <2> QED BY <1>9, <2>2 DEF Report, TypeOK, SliceInv, At, Statuses
<1>10. CASE Persist
  <2>1. Move(Runner, "tidy")  BY <1>10 DEF Persist
  <2>2. pc' \in [Parties -> Pcs] /\ pc'[Runner] # "save"  BY <2>1, MoveType
  <2>3. store' \in States /\ store'.slice = work.slice
    <3>1. 0 \in 0..MaxAttempts  BY Bounds
    <3> QED BY <1>10, <3>1, UpdateType DEF Persist, TypeOK
  <2>4. obsolete' \in 0..MaxTimeouts  BY <1>10, WorkType, Bounds DEF Persist
  <2> QED BY <1>10, <2>2, <2>3, <2>4 DEF Persist, TypeOK, SliceInv, At
<1> QED BY <1>1, <1>2, <1>3, <1>4, <1>5, <1>6, <1>7, <1>8, <1>9, <1>10

LEMMA SlipType ==
  ASSUME TypeOK, NEW s \in SUBSET {"unheard", "cut", "spilled", "dropped", "early"}, Slip(s)
  PROVE  slips' \subseteq {"unheard", "cut", "spilled", "dropped", "early"}
BY DEF TypeOK, Slip

LEMMA GiveUpType ==
  ASSUME TypeOK, SliceInv, NEW x \in {Route, Runner}, GiveUp(x) PROVE TypeOK' /\ SliceInv'
<1> USE PcNames DEF mail, record, objects, bounds
<1> HIDE DEF Ended, Move
<1>0. x \in Parties  OBVIOUS
<1>1. CASE AbortUpload(x)
  <2>1. Move(x, "tidyup") /\ "tidyup" \in Pcs  BY <1>1 DEF AbortUpload, Failing
  <2>2. pc' \in [Parties -> Pcs] /\ (At(Runner, "save")' => At(Runner, "save"))
    BY <1>0, <2>1, MoveType DEF At
  <2>3. upload' \in [open : BOOLEAN, parts : Seq(Parts)]
    <3>1. upload' = upload \/ upload' = NoUpload  BY <1>1 DEF AbortUpload
    <3>2. NoUpload \in [open : BOOLEAN, parts : Seq(Parts)]  BY DEF NoUpload
    <3> QED BY <3>1, <3>2 DEF TypeOK
  <2> QED BY <1>1, <2>2, <2>3 DEF AbortUpload, TypeOK, SliceInv, durable, local
<1>2. CASE DropScratch(x)
  <2>1. Move(x, "read") /\ "read" \in Pcs  BY <1>2 DEF DropScratch, Failing
  <2>2. pc' \in [Parties -> Pcs] /\ (At(Runner, "save")' => At(Runner, "save"))
    BY <1>0, <2>1, MoveType DEF At
  <2>3. scratch' \in [Carries -> Parts]  BY <1>2 DEF DropScratch, NoScratch, Parts
  <2> QED BY <1>2, <2>2, <2>3 DEF DropScratch, TypeOK, SliceInv, durable, local
<1>3. CASE ReadJob(x) /\ job \in {"none", "completed"}
  <2>1. Ended(x) /\ UNCHANGED <<mail, record, objects, held, bounds>>  BY <1>3 DEF ReadJob
  <2> QED BY <2>1, EndedKeeps DEF TypeOK
<1>4. CASE ReadJob(x) /\ job \notin {"none", "completed"}
  <2>1. Move(x, "fail") /\ "fail" \in Pcs  BY <1>4 DEF ReadJob, Failing
  <2>2. pc' \in [Parties -> Pcs] /\ (At(Runner, "save")' => At(Runner, "save"))
    BY <1>0, <2>1, MoveType DEF At
  <2>3. held' \in Statuses  BY <1>0, <1>4 DEF ReadJob, TypeOK
  <2> QED BY <1>4, <2>2, <2>3 DEF ReadJob, TypeOK, SliceInv, durable, local
<1>5. CASE SaveFailed(x)
  <2>1. Ended(x) /\ UNCHANGED <<mail, expired, objects, held, bounds>> /\ job' \in Statuses
    BY <1>5 DEF SaveFailed, Statuses
  <2> QED BY <2>1, EndedKeeps DEF TypeOK
<1> QED BY <1>1, <1>2, <1>3, <1>4, <1>5 DEF GiveUp

LEMMA FailuresType ==
  ASSUME TypeOK, SliceInv, Failures PROVE TypeOK' /\ SliceInv'
<1> USE PcNames DEF mail, record, objects
<1> HIDE DEF Ended, Move, Slip, Fault, Forget
<1>0. 0 <= timeouts  BY Bounds DEF TypeOK
<1>1. CASE StartFails  BY <1>1, RouteType
<1>2. CASE SliceThrows
  <2>1. PICK there \in {"abort", "idle"} : Move(Runner, there)  BY <1>2 DEF SliceThrows
  <2>2. pc' \in [Parties -> Pcs] /\ pc'[Runner] # "save"  BY <2>1, MoveType DEF Failing
  <2>3. slips' \subseteq {"unheard", "cut", "spilled", "dropped", "early"}
    BY <1>2, SlipType DEF SliceThrows
  <2>4. Forget /\ alarm' \in BOOLEAN /\ UNCHANGED <<mail, record, objects, live, store, held, timeouts, faults>>
    BY <1>2 DEF SliceThrows, TypeOK
  <2> QED BY <1>0, <2>2, <2>3, <2>4, ForgetType DEF TypeOK, SliceInv, At
<1>3. CASE Dies
  <2>1. Move(Runner, "idle") /\ Forget /\ UNCHANGED <<mail, record, objects, live, store, held, timeouts>>
        /\ alarm' \in BOOLEAN
    BY <1>3 DEF Dies, TypeOK
  <2>2. pc' \in [Parties -> Pcs] /\ pc'[Runner] # "save"  BY <2>1, MoveType
  <2>3. slips' \subseteq {"unheard", "cut", "spilled", "dropped", "early"}
    <3>1. PICK s \in SUBSET {"cut", "spilled"} : Slip(s)
      <4> DEFINE s == CASE At(Runner, "record") -> {"cut"} [] At(Runner, "sweep") -> {"spilled"}
                        [] OTHER -> {}
      <4>1. s \in SUBSET {"cut", "spilled"}  OBVIOUS
      <4> HIDE DEF s
      <4>2. Slip(s)  BY <1>3 DEF Dies, s
      <4> QED BY <4>1, <4>2
    <3> QED BY <3>1, SlipType
  <2>4. faults' \in 0..MaxFaults  BY <1>3, FaultType DEF Dies, TypeOK
  <2> QED BY <1>0, <2>1, <2>2, <2>3, <2>4, ForgetType DEF TypeOK, SliceInv, At
<1>4. CASE RouteDies
  <2>1. Move(Route, "idle")  BY <1>4 DEF RouteDies
  <2>2. pc' \in [Parties -> Pcs] /\ pc'[Runner] = pc[Runner]  BY <2>1, MoveType
  <2>3. slips' \subseteq {"unheard", "cut", "spilled", "dropped", "early"} /\ faults' \in 0..MaxFaults
    BY <1>4, SlipType, FaultType DEF RouteDies
  <2> QED BY <1>4, <2>2, <2>3 DEF RouteDies, TypeOK, SliceInv, At, durable, local
<1>5. CASE CronFails
  <2>1. Move(Cron, "idle")  BY <1>5 DEF CronFails
  <2>2. pc' \in [Parties -> Pcs] /\ pc'[Runner] = pc[Runner]  BY <2>1, MoveType
  <2>3. held' \in Statuses /\ faults' \in 0..MaxFaults
    BY <1>5, FaultType DEF CronFails, TypeOK, Statuses
  <2> QED BY <1>5, <2>2, <2>3 DEF CronFails, TypeOK, SliceInv, At, durable, local
<1>6. ASSUME NEW x \in {Route, Runner}, SweepFails(x) PROVE TypeOK' /\ SliceInv'
  <2>0. x \in Parties  OBVIOUS
  <2>1. /\ slips' \subseteq {"unheard", "cut", "spilled", "dropped", "early"} /\ faults' \in 0..MaxFaults
        /\ UNCHANGED <<mail, record, objects, durable, held, timeouts>>
    BY <1>6, SlipType, FaultType DEF SweepFails
  <2>2. CASE At(x, "tidyup")
    <3>1. Move(x, "read") /\ "read" \in Pcs /\ UNCHANGED local
      BY <1>6, <2>2 DEF SweepFails, Failing
    <3>2. pc' \in [Parties -> Pcs] /\ (At(Runner, "save")' => At(Runner, "save"))
      BY <2>0, <3>1, MoveType DEF At
    <3> QED BY <2>1, <3>1, <3>2 DEF TypeOK, SliceInv, durable, local
  <2>3. CASE ~At(x, "tidyup")
    <3>1. Move(x, "idle") /\ Forget  BY <1>6, <2>3 DEF SweepFails
    <3>2. pc' \in [Parties -> Pcs] /\ (At(Runner, "save")' => At(Runner, "save"))
      BY <2>0, <3>1, MoveType DEF At
    <3>3. UNCHANGED <<live, store, scratch>> /\ alarm' \in BOOLEAN
      BY <2>1 DEF TypeOK, objects, durable
    <3> QED BY <2>1, <3>1, <3>2, <3>3, ForgetKeeps DEF TypeOK, durable
  <2> QED BY <2>2, <2>3
<1>7. ASSUME NEW x \in {Route, Runner}, FailureLost(x) PROVE TypeOK' /\ SliceInv'
  <2>1. /\ slips' \subseteq {"unheard", "cut", "spilled", "dropped", "early"} /\ faults' \in 0..MaxFaults
        /\ Ended(x) /\ UNCHANGED <<mail, record, objects, held, timeouts>>
    BY <1>7, SlipType, FaultType DEF FailureLost
  <2> QED BY <2>1, EndedKeeps DEF TypeOK
<1> QED BY <1>1, <1>2, <1>3, <1>4, <1>5, <1>6, <1>7 DEF Failures

LEMMA OthersType ==
  ASSUME TypeOK, SliceInv, Maintenance \/ Surroundings PROVE TypeOK' /\ SliceInv'
<1> USE PcNames DEF mail, record, objects, durable, local, bounds
<1> HIDE DEF Move, Slip
<1>1. CASE SeeExpired
  <2>1. Move(Cron, "drop") /\ held' \in Statuses  BY <1>1 DEF SeeExpired, TypeOK
  <2>2. pc' \in [Parties -> Pcs] /\ pc'[Runner] = pc[Runner]  BY <2>1, MoveType
  <2> QED BY <1>1, <2>1, <2>2 DEF SeeExpired, TypeOK, SliceInv, At
<1>2. CASE DropFiles
  <2>1. Move(Cron, "forget")  BY <1>2 DEF DropFiles
  <2>2. pc' \in [Parties -> Pcs] /\ pc'[Runner] = pc[Runner]  BY <2>1, MoveType
  <2>3. archive' \in Seq(Parts) /\ scratch' \in [Carries -> Parts]
    <3>1. <<>> \in Seq(Parts) /\ NoScratch \in [Carries -> Parts]  BY DEF NoScratch, Parts
    <3>2. CASE held = "completed"  BY <1>2, <3>1, <3>2 DEF DropFiles, TypeOK
    <3>3. CASE held # "completed"  BY <1>2, <3>1, <3>3 DEF DropFiles, TypeOK
    <3> QED BY <3>2, <3>3
  <2> QED BY <1>2, <2>2, <2>3 DEF DropFiles, TypeOK, SliceInv, At
<1>3. CASE DropRecord
  <2>1. Move(Cron, "idle") /\ held' \in Statuses /\ job' \in Statuses
    BY <1>3 DEF DropRecord, TypeOK, Statuses
  <2>2. pc' \in [Parties -> Pcs] /\ pc'[Runner] = pc[Runner]  BY <2>1, MoveType
  <2> QED BY <1>3, <2>1, <2>2 DEF DropRecord, TypeOK, SliceInv, At
<1>4. CASE Expire
  <2>1. slips' \subseteq {"unheard", "cut", "spilled", "dropped", "early"}
    BY <1>4, SlipType DEF Expire, TypeOK
  <2>2. faults' \in 0..MaxFaults  BY <1>4, FaultType DEF Expire, TypeOK
  <2> QED BY <1>4, <2>1, <2>2 DEF Expire, TypeOK, SliceInv, At
<1>5. ASSUME NEW p \in Places, Arrive(p) \/ Delete(p) PROVE TypeOK' /\ SliceInv'
  <2>1. rows' \subseteq Places /\ kept' \subseteq rows'  BY <1>5 DEF Arrive, Delete, TypeOK
  <2> QED BY <1>5, <2>1 DEF Arrive, Delete, TypeOK, SliceInv, At
<1> QED BY <1>1, <1>2, <1>3, <1>4, <1>5 DEF Maintenance, Surroundings

LEMMA TypeStep == TypeOK /\ SliceInv /\ [Next]_vars => TypeOK' /\ SliceInv'
<1> SUFFICES ASSUME TypeOK, SliceInv, [Next]_vars PROVE TypeOK' /\ SliceInv'  OBVIOUS
<1>1. CASE UNCHANGED vars
  BY <1>1 DEF vars, mail, record, objects, durable, local, bounds, TypeOK, SliceInv, At
<1>2. CASE Next
  BY <1>2, RouteType, FireType, CopyType, EndType, GiveUpType, FailuresType, OthersType
  DEF Next, Slice
<1> QED BY <1>1, <1>2

\* Every variable keeps its type, and no carry's key exceeds the slices that ran out of time.
THEOREM TypeCorrect == Spec => []TypeOK
<1>1. Spec => [](TypeOK /\ SliceInv)  BY InitType, TypeStep, PTL DEF Spec
<1> QED BY <1>1, PTL

-----------------------------------------------------------------------------
(* Who may be where.                                                       *)

\* Nothing of the job is under way yet.
NeverBegun == /\ ~live /\ At(Runner, "idle")
              /\ archive = <<>> /\ job # "completed"

\* The job can no longer run, and so never complete.
Over == ~At(Route, "new") /\ pc[Runner] \notin Working /\ ~Running

PlaceInv ==
  /\ pc[Route] \in {"new", "start", "idle"} \cup Failing
  /\ pc[Cron] \in {"idle", "drop", "forget"}
  /\ pc[Runner] \in Trying \cup Failing \cup {"idle", "tidy", "sweep"}

\* The route and the runner: only a job that has a state is worked on, and none that completed.
WorkInv ==
  /\ At(Route, "new") => job = "none"
  /\ pc[Route] \in {"new", "start"} => NeverBegun
  /\ pc[Route] \in Failing => NeverBegun \/ "unheard" \in slips
  /\ pc[Runner] \notin {"idle", "sweep"} => live
  /\ pc[Runner] \in Working \cup {"fail"} => job # "completed"

\* A job that expired is over, and the maintenance deletes what it names.
ExpiryInv ==
  /\ expired => Over \/ "early" \in slips
  /\ pc[Cron] \in {"drop", "forget"} =>
       IF held = "completed"
         THEN Over /\ expired /\ (At(Cron, "forget") => archive = <<>>)
         ELSE (Over /\ job # "completed") \/ "early" \in slips

\* The archive and the record that names it.
ServedInv ==
  /\ At(Runner, "record") => archive # <<>>
  /\ job = "completed" /\ ~expired => archive # <<>>
  /\ archive # <<>> => \/ At(Runner, "record") \/ job = "completed"
                       \/ slips \cap {"cut", "unheard", "early"} # {}

\* Scratch objects go with the state.
ScratchInv ==
  \/ scratch = NoScratch \/ "spilled" \in slips
  \/ live /\ pc[Runner] \notin {"read", "fail"}
  \/ At(Runner, "sweep")

ControlInv == PlaceInv /\ WorkInv /\ ExpiryInv /\ ServedInv /\ ScratchInv

-----------------------------------------------------------------------------
(* What a slice has copied.                                                *)

\* The parts hold, in order, the mail of K up to place c and nothing after it.
Sound(K, parts, c) ==
  /\ InOrder(parts)
  /\ \A i \in DOMAIN parts : \A a \in DOMAIN parts[i] : parts[i][a] <= c
  /\ \A p \in K : p <= c => Holds(parts, p)

\* A state with the scratch object it names, if that is still there.
Carried(s, objs) == IF s.carry = 0 THEN <<>> ELSE objs[s.carry]
Resumes(K, s, objs) ==
  /\ s.carry <= s.slice
  /\ s.upload <=> s.parts # <<>>
  /\ s.carry = 0 \/ objs[s.carry] # <<>> => Sound(K, Append(s.parts, Carried(s, objs)), s.cursor)

\* The page continues where the cursor is.
PageInv ==
  /\ page # {} => pc[Runner] \in {"pages", "flush"}
  /\ \A p \in page : /\ work.cursor < p
                     /\ \A k \in kept : work.cursor < k /\ k < p => k \in page

\* The persisted state can be resumed, the runner's copy is where its cursor says, and nothing but a
\* whole archive is stored.
CopyInv ==
  /\ At(Route, "new") => store = Fresh
  /\ Resumes(kept, store, scratch)
  /\ pc[Runner] \in {"load", "count", "report", "persist"} => Resumes(kept, work, scratch)
  /\ pc[Runner] \in {"load", "count", "pages", "flush", "finish", "save"} => work.slice = store.slice
  /\ pc[Runner] \in {"pages", "flush", "finish", "save"} =>
       /\ Sound(kept, Append(work.parts, buffer), work.cursor)
       /\ work.parts # <<>> => work.upload
       /\ ~At(Runner, "flush") /\ work.upload => work.parts # <<>>
  /\ At(Runner, "finish") => work.cursor = Last /\ (work.upload => buffer = <<>>)
  /\ archive # <<>> => Whole(archive)

LEMMA SoundShrinks ==
  ASSUME NEW K, NEW L \in SUBSET K, NEW parts, NEW c, Sound(K, parts, c)
  PROVE  Sound(L, parts, c)
BY DEF Sound

LEMMA SoundFresh ==
  ASSUME NEW K \in SUBSET Places PROVE Sound(K, Append(<<>>, <<>>), 0)
<1> DEFINE all == Append(<<>>, <<>>)
<1>1. DOMAIN all = {1} /\ all[1] = <<>> /\ DOMAIN all[1] = {}
  <2>1. all = << <<>> >>  OBVIOUS
  <2> QED BY <2>1
<1> HIDE DEF all
<1>2. \A p \in K : ~(p <= 0)  BY Positions DEF Places
<1>3. Sound(K, all, 0)  BY <1>1, <1>2 DEF Sound, InOrder
<1> QED BY <1>3 DEF all

\* Appending a mail to the last part.
LEMMA SoundWrite ==
  ASSUME NEW K \in SUBSET Places, NEW parts \in Seq(Parts), NEW b \in Parts,
         NEW c \in 0..Last, NEW p \in Places, c < p, \A k \in K : ~(c < k /\ k < p),
         Sound(K, Append(parts, b), c)
  PROVE  Sound(K, Append(parts, Append(b, p)), p)
<1> DEFINE old == Append(parts, b)
           new == Append(parts, Append(b, p))
           n == Len(parts) + 1
           m == Len(b) + 1
<1>0. Last \in Int /\ c \in Int /\ p \in Int /\ K \subseteq Int  BY Positions DEF Places
<1>1. /\ n \in Nat /\ 1 <= n /\ DOMAIN old = 1..n /\ DOMAIN new = 1..n
      /\ \A i \in 1..n : i # n => old[i] = new[i] /\ old[i] = parts[i]
      /\ old[n] = b /\ new[n] = Append(b, p)
      /\ \A i \in 1..n : i # n => i \in DOMAIN parts
  OBVIOUS
<1>2. /\ m \in Nat /\ 1 <= m /\ DOMAIN b = 1..(m - 1) /\ DOMAIN Append(b, p) = 1..m
      /\ Append(b, p)[m] = p
      /\ \A a \in 1..m : a # m => Append(b, p)[a] = b[a] /\ a \in DOMAIN b
  BY DEF Parts
<1>3. \A i \in 1..n : \A a \in DOMAIN old[i] : old[i][a] \in Int
  <2>1. \A i \in DOMAIN parts : \A a \in DOMAIN parts[i] : parts[i][a] \in Places  BY DEF Parts
  <2>2. \A a \in DOMAIN b : b[a] \in Places  BY DEF Parts
  <2> QED BY <1>0, <1>1, <2>1, <2>2 DEF Places
<1> HIDE DEF old, new, n, m
<1>4. \A i \in 1..n : \A a \in DOMAIN new[i] :
        \/ i = n /\ a = m /\ new[i][a] = p
        \/ a \in DOMAIN old[i] /\ new[i][a] = old[i][a] /\ (i = n => a < m)
  BY <1>1, <1>2
<1>5. \A i \in 1..n : \A a \in DOMAIN old[i] : a \in DOMAIN new[i] /\ new[i][a] = old[i][a]
  <2>1. \A a \in DOMAIN b : a \in DOMAIN Append(b, p) /\ Append(b, p)[a] = b[a]
    BY <1>2
  <2> QED BY <1>1, <2>1
<1>6. \A i \in 1..n : \A a \in DOMAIN old[i] : old[i][a] <= c
  BY <1>1 DEF Sound, old
<1>7. \A i \in DOMAIN new : \A a \in DOMAIN new[i] : new[i][a] <= p
  BY <1>0, <1>1, <1>3, <1>4, <1>6
<1>8. InOrder(new)
  <2> SUFFICES ASSUME NEW i \in 1..n, NEW j \in 1..n, NEW a \in DOMAIN new[i],
                      NEW e \in DOMAIN new[j], i < j \/ (i = j /\ a < e)
               PROVE  new[i][a] < new[j][e]
    BY <1>1 DEF InOrder
  <2>1. InOrder(old)  BY DEF Sound, old
  <2>2. ~(i = n /\ a = m)
    <3> SUFFICES ASSUME i = n, a = m PROVE FALSE  OBVIOUS
    <3>1. j = n /\ a < e  BY <1>1
    <3>2. e \in 1..m  BY <1>1, <1>2, <3>1
    <3> QED BY <1>2, <3>1, <3>2
  <2>3. a \in DOMAIN old[i] /\ new[i][a] = old[i][a] /\ old[i][a] <= c  BY <1>4, <1>6, <2>2
  <2>4. CASE j = n /\ e = m  BY <1>0, <1>3, <1>4, <2>3, <2>4, <1>1, <1>2
  <2>5. CASE ~(j = n /\ e = m)
    <3>1. e \in DOMAIN old[j] /\ new[j][e] = old[j][e]  BY <1>4, <2>5
    <3> QED BY <1>1, <2>1, <2>3, <3>1 DEF InOrder
  <2> QED BY <2>4, <2>5
<1>9. \A k \in K : k <= p => Holds(new, k)
  <2> SUFFICES ASSUME NEW k \in K, k <= p PROVE Holds(new, k)  OBVIOUS
  <2>1. CASE k = p
    <3>1. n \in DOMAIN new /\ m \in DOMAIN new[n] /\ new[n][m] = p
      <4>1. n \in 1..n  BY <1>1
      <4>2. m \in 1..m  BY <1>2
      <4> QED BY <1>1, <1>2, <4>1, <4>2
    <3> QED BY <2>1, <3>1 DEF Holds
  <2>2. CASE k # p
    <3>1. k <= c  BY <1>0, <2>2
    <3>2. Holds(old, k)  BY <3>1 DEF Sound, old
    <3> QED BY <1>1, <1>5, <3>2 DEF Holds
  <2> QED BY <2>1, <2>2
<1> QED BY <1>7, <1>8, <1>9 DEF Sound, new

\* Beginning a new part.
LEMMA SoundFlush ==
  ASSUME NEW K, NEW all \in Seq(Parts), NEW c
  PROVE  Sound(K, all, c) <=> Sound(K, Append(all, <<>>), c)
<1> DEFINE new == Append(all, <<>>)
           n == Len(all) + 1
<1>1. /\ DOMAIN new = DOMAIN all \cup {n} /\ n \notin DOMAIN all
      /\ \A i \in DOMAIN all : new[i] = all[i]
      /\ new[n] = <<>> /\ DOMAIN new[n] = {}
  <2>1. new[n] = <<>> /\ DOMAIN <<>> = {}  OBVIOUS
  <2> QED BY <2>1
<1> HIDE DEF new, n
<1>2. InOrder(all) <=> InOrder(new)  BY <1>1 DEF InOrder
<1>3. \A p : Holds(all, p) <=> Holds(new, p)  BY <1>1 DEF Holds
<1>4. (\A i \in DOMAIN all : \A a \in DOMAIN all[i] : all[i][a] <= c)
      <=> (\A i \in DOMAIN new : \A a \in DOMAIN new[i] : new[i][a] <= c)
  BY <1>1
<1>5. Sound(K, all, c) <=> Sound(K, new, c)  BY <1>2, <1>3, <1>4 DEF Sound
<1> QED BY <1>5 DEF new

\* Places without mail may be skipped.
LEMMA SoundSkip ==
  ASSUME NEW K \in SUBSET Places, NEW all \in Seq(Parts), NEW c \in 0..Last, NEW e \in 0..Last,
         c <= e, \A k \in K : ~(c < k /\ k <= e), Sound(K, all, c)
  PROVE  Sound(K, all, e)
<1>1. Last \in Int /\ K \subseteq Int /\ c \in Int /\ e \in Int  BY Positions DEF Places
<1>2. \A i \in DOMAIN all : \A a \in DOMAIN all[i] : all[i][a] \in Int
  <2> TAKE i \in DOMAIN all
  <2>1. all[i] \in Seq(Places)  BY DEF Parts
  <2>2. \A a \in DOMAIN all[i] : all[i][a] \in Places  BY <2>1
  <2> QED BY <2>2 DEF Places
<1> QED BY <1>1, <1>2 DEF Sound

LEMMA SoundAll ==
  ASSUME NEW K \in SUBSET Places, NEW all, Sound(K, all, Last)
  PROVE  InOrder(all) /\ \A p \in K : Holds(all, p)
BY Positions DEF Sound, Places

\* Scratch objects may disappear, and those of later slices be written.
LEMMA ResumesLess ==
  ASSUME NEW K, NEW s \in States, NEW objs, NEW less,
         \A k \in Carries : less[k] \in {objs[k], <<>>},
         Resumes(K, s, objs)
  PROVE  Resumes(K, s, less)
<1>1. s.carry # 0 => s.carry \in Carries  BY DEF States, Carries
<1> QED BY <1>1 DEF Resumes, Carried

LEMMA ResumesBeside ==
  ASSUME NEW K, NEW s \in States, NEW objs \in [Carries -> Parts], NEW k \in Carries, s.carry < k,
         NEW b, Resumes(K, s, objs)
  PROVE  Resumes(K, s, [objs EXCEPT ![k] = b])
<1>1. s.carry # 0 => s.carry \in Carries /\ s.carry # k  BY Bounds DEF States, Carries
<1>2. s.carry # 0 => [objs EXCEPT ![k] = b][s.carry] = objs[s.carry]  BY <1>1
<1> QED BY <1>2 DEF Resumes, Carried

LEMMA ResumesTried ==
  ASSUME NEW K, NEW s \in States, NEW n, NEW objs
  PROVE  Resumes(K, [s EXCEPT !.attempts = n], objs) <=> Resumes(K, s, objs)
<1> DEFINE t == [s EXCEPT !.attempts = n]
<1>1. /\ t.carry = s.carry /\ t.slice = s.slice /\ t.upload = s.upload /\ t.parts = s.parts
      /\ t.cursor = s.cursor
  BY DEF States
<1> HIDE DEF t
<1>2. Resumes(K, t, objs) <=> Resumes(K, s, objs)  BY <1>1 DEF Resumes, Carried
<1> QED BY <1>2 DEF t

LEMMA ResumesShrinks ==
  ASSUME NEW K, NEW L \in SUBSET K, NEW s, NEW objs, Resumes(K, s, objs)
  PROVE  Resumes(L, s, objs)
BY SoundShrinks DEF Resumes

LEMMA ResumesFresh ==
  ASSUME NEW K \in SUBSET Places, NEW objs PROVE Resumes(K, Fresh, objs)
BY SoundFresh, Bounds DEF Resumes, Carried, Fresh

LEMMA CopyInit == Init => CopyInv /\ PageInv
<1> SUFFICES ASSUME Init PROVE CopyInv /\ PageInv  OBVIOUS
<1>1. /\ store = Fresh /\ kept = {} /\ page = {} /\ archive = <<>>
      /\ pc[Runner] = "idle"
  BY DEF Init, Parties, Route, Runner, Cron
<1>2. Resumes(kept, store, scratch)
  <2>1. kept \in SUBSET Places  BY <1>1
  <2> QED BY <1>1, <2>1, ResumesFresh
<1> QED BY <1>1, <1>2 DEF CopyInv, PageInv, At

\* Steps of the route, and of the maintenance, the clock and the mailboxes.
LEMMA OutsideCopy ==
  ASSUME TypeOK, PlaceInv, WorkInv, CopyInv, PageInv,
         Ask \/ Start \/ StartFails \/ Kick \/ RefuseExpired \/ RouteDies \/ CronFails
         \/ Maintenance \/ Surroundings
  PROVE  CopyInv' /\ PageInv'
<1> USE DEF mail, record, objects, durable, local, bounds, Parties, Route, Runner, Cron, At, Move,
            CopyInv, PageInv, PlaceInv, Whole
<1>0. /\ pc \in [Parties -> Pcs] /\ store \in States /\ work \in States
      /\ kept \in SUBSET Places /\ rows \in SUBSET Places
  BY DEF TypeOK
<1>1. CASE Ask
  <2>1. store = Fresh /\ pc[Runner] = "idle" /\ archive = <<>> /\ page = {}
    BY <1>1 DEF Ask, WorkInv, NeverBegun
  <2>2. Resumes(kept', store, scratch)  BY <1>0, <1>1, <2>1, ResumesFresh DEF Ask
  <2> QED BY <1>0, <1>1, <2>1, <2>2 DEF Ask
<1>2. CASE Start \/ StartFails
  <2>1. CASE UNCHANGED durable  BY <1>0, <1>2, <2>1 DEF Start, StartFails
  <2>2. CASE ~live /\ store' = Fresh
    <3>1. pc[Runner] \in {"idle", "sweep"}  BY <2>2 DEF WorkInv
    <3>2. Resumes(kept, store', scratch)  BY <1>0, <2>2, ResumesFresh
    <3> QED BY <1>0, <1>2, <3>1, <3>2 DEF Start, StartFails
  <2> QED BY <1>2, <2>1, <2>2 DEF Start, StartFails, Begin
<1>3. CASE Kick \/ RefuseExpired \/ RouteDies \/ CronFails
  BY <1>0, <1>3 DEF Kick, RefuseExpired, RouteDies, CronFails, Failing
<1>4. CASE SeeExpired \/ DropRecord \/ Expire
  BY <1>0, <1>4 DEF SeeExpired, DropRecord, Expire
<1>5. CASE DropFiles
  <2>1. \A k \in Carries : scratch'[k] \in {scratch[k], <<>>}
    BY <1>5 DEF DropFiles, NoScratch
  <2>2. Resumes(kept, store, scratch')  BY <1>0, <2>1, ResumesLess
  <2>3. Resumes(kept, work, scratch) => Resumes(kept, work, scratch')  BY <1>0, <2>1, ResumesLess
  <2> QED BY <1>0, <1>5, <2>2, <2>3 DEF DropFiles
<1>6. ASSUME NEW p \in Places, Arrive(p) \/ Delete(p) PROVE CopyInv' /\ PageInv'
  <2>1. kept' \in SUBSET kept  BY <1>6 DEF Arrive, Delete
  <2>2. \A s : Resumes(kept, s, scratch) => Resumes(kept', s, scratch)  BY <2>1, ResumesShrinks
  <2>3. \A parts, c : Sound(kept, parts, c) => Sound(kept', parts, c)  BY <2>1, SoundShrinks
  <2>4. UNCHANGED <<record, objects, durable, pc, local, held, bounds>>  BY <1>6 DEF Arrive, Delete
  <2>5. archive # <<>> => Whole(archive)'  BY <2>1, <2>4
  <2> QED BY <2>1, <2>2, <2>3, <2>4, <2>5
<1> QED BY <1>1, <1>2, <1>3, <1>4, <1>5, <1>6 DEF Maintenance, Surroundings

\* The runner copies.
LEMMA SliceCopy ==
  ASSUME TypeOK, PlaceInv, WorkInv, CopyInv, PageInv,
         Fire \/ LoadJob \/ CountTimesOut \/ LoadCarry \/ ReadPage \/ WriteMail \/ SaveProgress
         \/ CreateUpload \/ UploadPart \/ AllRead
  PROVE  CopyInv' /\ PageInv'
<1> USE DEF mail, record, objects, durable, local, bounds, Parties, Route, Runner, Cron, At, Move,
            CopyInv, PageInv, PlaceInv, Whole
<1>0. /\ pc \in [Parties -> Pcs] /\ store \in States /\ work \in States
      /\ kept \in SUBSET Places /\ rows \in SUBSET Places /\ page \in SUBSET Places
      /\ scratch \in [Carries -> Parts] /\ buffer \in Parts
      /\ work.parts \in Seq(Parts) /\ work.cursor \in 0..Last
  BY DEF TypeOK, States
<1>1. CASE Fire
  <2>1. /\ page = {} /\ pc[Runner] = "idle"
        /\ UNCHANGED <<mail, record, objects, live, page, buffer>>
    BY <1>1 DEF Fire
  <2>2. CASE ~live
    <3>1. UNCHANGED <<store, pc, work>>  BY <1>1, <2>2 DEF Fire
    <3> QED BY <2>1, <3>1
  <2>3. CASE live /\ store.attempts >= MaxAttempts
    <3>1. Move(Runner, "abort") /\ UNCHANGED <<store, work>>
      <4>1. ~(~live) /\ ~(store.attempts < MaxAttempts)  BY <2>3, WorkType, Bounds
      <4> QED BY <1>1, <2>3, <4>1 DEF Fire
    <3>2. pc'[Runner] = "abort" /\ pc'[Route] = pc[Route]  BY <1>0, <3>1
    <3> QED BY <2>1, <3>1, <3>2
  <2>4. CASE live /\ store.attempts < MaxAttempts
    <3>1. Move(Runner, "load") /\ store' = [store EXCEPT !.attempts = @ + 1] /\ work' = store'
      <4>1. ~(live /\ store.attempts >= MaxAttempts)  BY <2>4, WorkType, Bounds
      <4> QED BY <1>1, <2>4, <4>1 DEF Fire
    <3>2. pc'[Runner] = "load" /\ pc'[Route] = pc[Route]  BY <1>0, <3>1
    <3>3. Resumes(kept, store', scratch)  BY <1>0, <3>1, ResumesTried
    <3>4. ~At(Route, "new")  BY <2>4 DEF WorkInv, NeverBegun
    <3> QED BY <2>1, <3>1, <3>2, <3>3, <3>4
  <2> QED BY <2>2, <2>3, <2>4, WorkType, Bounds
<1>2. CASE LoadJob \/ CountTimesOut \/ SaveProgress
  BY <1>0, <1>2 DEF LoadJob, CountTimesOut, SaveProgress
<1>3. CASE LoadCarry
  <2>1. Resumes(kept, work, scratch) /\ page = {}  BY <1>3 DEF LoadCarry
  <2>2. /\ work'.parts = work.parts /\ work'.cursor = work.cursor /\ work'.upload = work.upload
        /\ work'.slice = work.slice
    BY <1>0, <1>3 DEF LoadCarry, States
  <2>3. buffer' = Carried(work, scratch)  BY <1>3 DEF LoadCarry, Carried
  <2>4. Sound(kept, Append(work.parts, buffer'), work.cursor)
    BY <1>3, <2>1, <2>3 DEF LoadCarry, Resumes
  <2>5. work.upload <=> work.parts # <<>>  BY <2>1 DEF Resumes
  <2>6. pc[Runner] = "count" /\ pc'[Runner] = "pages" /\ pc'[Route] = pc[Route]
    BY <1>0, <1>3 DEF LoadCarry
  <2>7. UNCHANGED <<mail, record, objects, durable, page>>  BY <1>3 DEF LoadCarry
  <2> QED BY <2>1, <2>2, <2>4, <2>5, <2>6, <2>7
<1>4. CASE ReadPage
  <2>1. PICK e \in Ends :
          /\ EndOfBox(work.cursor, e)
          /\ page' = FirstRows(After(work.cursor, e))
          /\ work' = [work EXCEPT !.cursor = IF After(@, e) = {} THEN e ELSE @]
    BY <1>4 DEF ReadPage
  <2>2. e \in 0..Last /\ work.cursor < e  BY <2>1, Positions DEF EndOfBox
  <2>3. /\ work'.parts = work.parts /\ work'.upload = work.upload /\ work'.slice = work.slice
        /\ work'.cursor = IF After(work.cursor, e) = {} THEN e ELSE work.cursor
    BY <1>0, <2>1 DEF States
  <2>4. Sound(kept, Append(work.parts, buffer), work.cursor)  BY <1>4 DEF ReadPage
  <2>5. Sound(kept, Append(work.parts, buffer), work'.cursor)
    <3>1. CASE After(work.cursor, e) = {}
      <4>1. \A k \in kept : ~(work.cursor < k /\ k <= e)
        BY <3>1 DEF After, TypeOK
      <4>2. Append(work.parts, buffer) \in Seq(Parts)  BY <1>0
      <4>3. work.cursor <= e  BY <1>0, <2>2, Positions
      <4>4. Sound(kept, Append(work.parts, buffer), e)
        BY <1>0, <2>2, <2>4, <4>1, <4>2, <4>3, SoundSkip
      <4> QED BY <2>3, <3>1, <4>4
    <3>2. CASE After(work.cursor, e) # {}  BY <2>3, <2>4, <3>2
    <3> QED BY <3>1, <3>2
  <2>6. \A p \in page' : /\ work'.cursor < p
                         /\ \A k \in kept : work'.cursor < k /\ k < p => k \in page'
    <3> SUFFICES ASSUME NEW p \in page'
                 PROVE  /\ work'.cursor < p
                        /\ \A k \in kept : work'.cursor < k /\ k < p => k \in page'
      OBVIOUS
    <3> DEFINE S == After(work.cursor, e)
    <3>1. p \in S /\ Cardinality({q \in S : q < p}) < PageSize  BY <2>1 DEF FirstRows
    <3>2. work'.cursor = work.cursor /\ work.cursor < p /\ p <= e  BY <2>3, <3>1 DEF After
    <3>3. S \subseteq Places /\ IsFiniteSet(Places)
      <4>1. IsFiniteSet(1..Last)  BY Positions, FS_Interval
      <4> QED BY <1>0, <4>1 DEF After, Places
    <3>4. ASSUME NEW k \in kept, work.cursor < k, k < p PROVE k \in page'
      <4>1. k \in rows /\ k \in Places /\ p \in Places /\ e \in Int
        BY <1>0, <2>2, <3>1, <3>3 DEF TypeOK
      <4>2. k \in S  BY <3>2, <3>4, <4>1 DEF After, Places
      <4> DEFINE lo == {q \in S : q < k}
                 hi == {q \in S : q < p}
      <4>3. lo \subseteq hi  BY <3>3, <3>4, <4>1 DEF Places
      <4>4. IsFiniteSet(hi)  BY <3>3, FS_Subset
      <4>5. /\ Cardinality(lo) \in Nat /\ Cardinality(hi) \in Nat
            /\ Cardinality(lo) <= Cardinality(hi)
        BY <4>3, <4>4, FS_Subset, FS_CardinalityType
      <4>6. Cardinality(lo) < PageSize  BY <3>1, <4>5, Sizes
      <4> QED BY <2>1, <4>2, <4>6 DEF FirstRows
    <3> QED BY <3>2, <3>4
  <2>7. pc' = pc /\ pc[Runner] = "pages" /\ UNCHANGED <<mail, record, objects, durable, buffer>>
    BY <1>4 DEF ReadPage
  <2> QED BY <2>3, <2>5, <2>6, <2>7
<1>5. CASE WriteMail
  <2>1. PICK p \in page : /\ \A q \in page : p <= q
                         /\ page' = page \ {p}
                         /\ buffer' = Append(buffer, p)
                         /\ work' = [work EXCEPT !.cursor = p]
    BY <1>5 DEF WriteMail
  <2>2. /\ work'.parts = work.parts /\ work'.upload = work.upload /\ work'.slice = work.slice
        /\ work'.cursor = p
    BY <1>0, <2>1 DEF States
  <2>3. p \in Places /\ work.cursor < p /\ pc[Runner] = "pages"  BY <1>0, <1>5 DEF WriteMail
  <2>4. \A k \in kept : ~(work.cursor < k /\ k < p)
    <3> SUFFICES ASSUME NEW k \in kept, work.cursor < k, k < p PROVE FALSE  OBVIOUS
    <3>1. k \in page  OBVIOUS
    <3>2. p <= k /\ k \in Int /\ p \in Int  BY <1>0, <2>1, <2>3, <3>1 DEF Places
    <3> QED BY <3>2
  <2>5. Sound(kept, Append(work.parts, buffer'), p)
    <3>1. Sound(kept, Append(work.parts, buffer), work.cursor)  BY <2>3
    <3> QED BY <1>0, <2>1, <2>3, <2>4, <3>1, SoundWrite
  <2>6. pc'[Runner] \in {"pages", "flush"} /\ pc'[Route] = pc[Route]  BY <1>0, <1>5 DEF WriteMail
  <2>7. UNCHANGED <<mail, record, objects, durable>>  BY <1>5 DEF WriteMail
  <2>8. \A q \in page' : /\ p < q
                         /\ \A k \in kept : p < k /\ k < q => k \in page'
    <3> SUFFICES ASSUME NEW q \in page'
                 PROVE  p < q /\ \A k \in kept : p < k /\ k < q => k \in page'
      OBVIOUS
    <3>1. q \in page /\ q # p /\ q \in Int /\ p \in Int /\ work.cursor \in Int
      BY <1>0, <2>1, <2>3, Positions DEF Places
    <3>2. p < q  BY <2>1, <3>1
    <3>3. ASSUME NEW k \in kept, p < k, k < q PROVE k \in page'
      <4>1. k \in Int  BY <1>0 DEF Places
      <4>2. k \in page /\ k # p  BY <2>3, <3>1, <3>3, <4>1
      <4> QED BY <2>1, <4>2
    <3> QED BY <3>2, <3>3
  <2> QED BY <2>2, <2>3, <2>5, <2>6, <2>7, <2>8
<1>6. CASE CreateUpload
  <2>1. /\ work'.parts = work.parts /\ work'.cursor = work.cursor /\ work'.upload = TRUE
        /\ work'.slice = work.slice
    BY <1>0, <1>6 DEF CreateUpload, States
  <2> QED BY <1>0, <1>6, <2>1 DEF CreateUpload
<1>7. CASE UploadPart
  <2>1. /\ work'.parts = Append(work.parts, buffer) /\ work'.cursor = work.cursor
        /\ work'.upload = work.upload /\ work'.slice = work.slice
    BY <1>0, <1>7 DEF UploadPart, States
  <2>2. Append(work.parts, buffer) # <<>> /\ Append(work.parts, buffer) \in Seq(Parts)
    <3>1. Append(work.parts, buffer) \in Seq(Parts)  BY <1>0
    <3>2. Len(Append(work.parts, buffer)) = Len(work.parts) + 1 /\ Len(work.parts) \in Nat
      BY <1>0
    <3>3. Len(<<>>) = 0  OBVIOUS
    <3> QED BY <3>1, <3>2, <3>3
  <2>3. Sound(kept, Append(Append(work.parts, buffer), <<>>), work.cursor)
    <3>1. Sound(kept, Append(work.parts, buffer), work.cursor)  BY <1>7 DEF UploadPart
    <3> QED BY <2>2, <3>1, SoundFlush
  <2>4. pc'[Runner] = "pages" /\ pc'[Route] = pc[Route] /\ work.upload /\ pc[Runner] = "flush"
    BY <1>0, <1>7 DEF UploadPart
  <2>5. buffer' = <<>> /\ UNCHANGED <<mail, record, archive, scratch, durable, page>>
    BY <1>7 DEF UploadPart
  <2> QED BY <2>1, <2>2, <2>3, <2>4, <2>5
<1>8. CASE AllRead
  BY <1>0, <1>8 DEF AllRead
<1> QED BY <1>1, <1>2, <1>3, <1>4, <1>5, <1>6, <1>7, <1>8

\* The runner ends a slice or the job.
LEMMA EndCopy ==
  ASSUME TypeOK, SliceInv, PlaceInv, WorkInv, CopyInv, PageInv,
         PutArchive \/ CompleteUpload \/ RecordCompleted \/ Clear \/ Sweep \/ TimesOut
         \/ SaveCarry \/ Report \/ Persist \/ Tidy
  PROVE  CopyInv' /\ PageInv'
<1> USE DEF mail, record, objects, durable, local, bounds, Parties, Route, Runner, Cron, At, Move,
            CopyInv, PageInv, PlaceInv
<1>0. /\ pc \in [Parties -> Pcs] /\ store \in States /\ work \in States
      /\ kept \in SUBSET Places
      /\ scratch \in [Carries -> Parts] /\ buffer \in Parts
      /\ work.parts \in Seq(Parts) /\ work.cursor \in 0..Last
  BY DEF TypeOK, States
<1>1. CASE PutArchive
  <2>1. Sound(kept, Append(work.parts, buffer), Last) /\ work.parts = <<>>
    BY <1>1 DEF PutArchive
  <2>2. Append(work.parts, buffer) = <<buffer>>  BY <1>0, <2>1
  <2>3. InOrder(<<buffer>>) /\ \A p \in kept : Holds(<<buffer>>, p)
    BY <1>0, <2>1, <2>2, SoundAll
  <2>4. archive' = <<buffer>> /\ UNCHANGED <<mail, scratch, durable, local>>  BY <1>1 DEF PutArchive
  <2>5. Whole(archive)'  BY <2>3, <2>4 DEF Whole
  <2>6. pc'[Runner] = "record" /\ pc'[Route] = pc[Route] /\ pc[Runner] = "finish"
    BY <1>0, <1>1 DEF PutArchive
  <2> QED BY <2>4, <2>5, <2>6
<1>2. CASE CompleteUpload
  <2>1. Sound(kept, Append(work.parts, <<>>), Last)
    BY <1>2 DEF CompleteUpload
  <2>2. Sound(kept, work.parts, Last)  BY <1>0, <2>1, SoundFlush
  <2>3. InOrder(work.parts) /\ \A p \in kept : Holds(work.parts, p)
    BY <1>0, <2>2, SoundAll
  <2>4. archive' = work.parts /\ UNCHANGED <<mail, scratch, durable, local>>
    BY <1>2 DEF CompleteUpload
  <2>5. Whole(archive)'  BY <2>3, <2>4 DEF Whole
  <2>6. pc'[Runner] = "record" /\ pc'[Route] = pc[Route] /\ pc[Runner] = "finish"
    BY <1>0, <1>2 DEF CompleteUpload
  <2> QED BY <2>4, <2>5, <2>6
<1>3. CASE RecordCompleted \/ TimesOut \/ Report
  BY <1>0, <1>3 DEF RecordCompleted, TimesOut, Report, Whole
<1>4. CASE Clear
  <2>1. Resumes(kept, store', scratch)  BY <1>0, <1>4, ResumesFresh DEF Clear, Wipe
  <2> QED BY <1>0, <1>4, <2>1 DEF Clear, Wipe, Whole
<1>5. CASE Sweep \/ Tidy
  <2>1. \A k \in Carries : scratch'[k] \in {scratch[k], <<>>}
    BY <1>5 DEF Sweep, Tidy, NoScratch
  <2>2. Resumes(kept, store, scratch')  BY <1>0, <2>1, ResumesLess
  <2>3. pc'[Runner] = "idle" /\ pc'[Route] = pc[Route] /\ page' = {}
    BY <1>0, <1>5 DEF Sweep, Tidy, Forget
  <2> QED BY <1>5, <2>2, <2>3 DEF Sweep, Tidy, Whole
<1>6. CASE SaveCarry
  <2> DEFINE next == work.slice + 1
  <2>1. next \in Carries /\ store.carry < next
    <3>1. next \in Carries
      BY <1>6, NextSlice DEF SaveCarry
    <3>2. store.carry <= store.slice /\ work.slice = store.slice  BY <1>6 DEF SaveCarry, Resumes
    <3> QED BY <3>1, <3>2, WorkType, Bounds
  <2>2. Sound(kept, Append(work.parts, buffer), work.cursor) /\ (work.upload <=> work.parts # <<>>)
    BY <1>6 DEF SaveCarry
  <2>3. pc'[Runner] = "report" /\ pc'[Route] = pc[Route] /\ page = {} /\ pc[Runner] = "save"
    BY <1>0, <1>6 DEF SaveCarry
  <2>4. UNCHANGED <<mail, record, archive, durable, page, buffer>>  BY <1>6 DEF SaveCarry
  <2>5. CASE buffer = <<>>
    <3>1. work' = [work EXCEPT !.carry = 0, !.slice = next] /\ scratch' = scratch
      BY <1>6, <2>5 DEF SaveCarry
    <3>2. /\ work'.carry = 0 /\ work'.slice = next /\ work'.parts = work.parts
          /\ work'.cursor = work.cursor /\ work'.upload = work.upload
      BY <1>0, <3>1 DEF States
    <3>3. Resumes(kept, work', scratch')
      BY <2>1, <2>2, <2>5, <3>2, Bounds DEF Resumes, Carried, Carries
    <3> QED BY <2>3, <2>4, <3>1, <3>3 DEF Whole
  <2>6. CASE buffer # <<>>
    <3>1. /\ work' = [work EXCEPT !.carry = next, !.slice = next]
          /\ scratch' = [scratch EXCEPT ![next] = buffer]
      BY <1>6, <2>6 DEF SaveCarry
    <3>2. /\ work'.carry = next /\ work'.slice = next /\ work'.parts = work.parts
          /\ work'.cursor = work.cursor /\ work'.upload = work.upload
      BY <1>0, <3>1 DEF States
    <3>3. scratch'[next] = buffer /\ next # 0 /\ next <= next
      BY <1>0, <2>1, <3>1, Bounds DEF Carries
    <3>4. Resumes(kept, work', scratch')
      BY <2>2, <3>2, <3>3 DEF Resumes, Carried
    <3>5. Resumes(kept, store, scratch')  BY <1>0, <2>1, <3>1, ResumesBeside
    <3> QED BY <2>3, <2>4, <3>4, <3>5 DEF Whole
  <2> QED BY <2>5, <2>6
<1>7. CASE Persist
  <2>1. store' = [work EXCEPT !.attempts = 0] /\ pc[Runner] = "persist"  BY <1>7 DEF Persist
  <2>2. Resumes(kept, store', scratch)  BY <1>0, <2>1, ResumesTried
  <2>3. pc'[Runner] = "tidy" /\ pc'[Route] = pc[Route] /\ page = {}
    BY <1>0, <1>7 DEF Persist
  <2>4. ~At(Route, "new")  BY <2>1 DEF WorkInv, NeverBegun
  <2> QED BY <1>7, <2>2, <2>3, <2>4 DEF Persist, Whole
<1> QED BY <1>1, <1>2, <1>3, <1>4, <1>5, <1>6, <1>7

\* An invocation fails, or gives the job up.
LEMMA FailureCopy ==
  ASSUME TypeOK, PlaceInv, WorkInv, CopyInv, PageInv, NEW x \in {Route, Runner},
         SliceThrows \/ Dies \/ GiveUp(x) \/ SweepFails(x) \/ FailureLost(x)
  PROVE  CopyInv' /\ PageInv'
<1> USE DEF mail, record, objects, durable, local, bounds, Parties, Route, Runner, Cron, At, Move,
            CopyInv, PageInv, PlaceInv, Whole, Failing, Trying, Working
<1>0. /\ pc \in [Parties -> Pcs] /\ store \in States /\ work \in States
      /\ kept \in SUBSET Places
  BY DEF TypeOK
<1>1. CASE SliceThrows \/ Dies  BY <1>0, <1>1 DEF SliceThrows, Dies, Forget
<1>2. CASE AbortUpload(x) \/ SweepFails(x)  BY <1>0, <1>2 DEF AbortUpload, SweepFails, Forget
<1>3. CASE DropScratch(x)
  <2>1. \A k \in Carries : scratch'[k] \in {scratch[k], <<>>}
    BY <1>3 DEF DropScratch, NoScratch
  <2>2. Resumes(kept, store, scratch')  BY <1>0, <2>1, ResumesLess
  <2>3. Resumes(kept, work, scratch) => Resumes(kept, work, scratch')  BY <1>0, <2>1, ResumesLess
  <2> QED BY <1>0, <1>3, <2>2, <2>3 DEF DropScratch
<1>4. ASSUME Ended(x), UNCHANGED <<mail, expired, objects>> PROVE CopyInv' /\ PageInv'
  <2>1. CASE x = Route  BY <1>0, <1>4, <2>1 DEF Ended
  <2>2. CASE x = Runner
    <3>1. store' = Fresh /\ page' = {} /\ pc'[Runner] = "idle" /\ pc'[Route] = pc[Route]
      BY <1>0, <1>4, <2>2 DEF Ended, Wipe, Forget
    <3>2. Resumes(kept, store', scratch)  BY <1>0, <3>1, ResumesFresh
    <3> QED BY <1>4, <3>1, <3>2
  <2> QED BY <2>1, <2>2
<1>5. CASE ReadJob(x) \/ SaveFailed(x) \/ FailureLost(x)
  <2>1. CASE Ended(x) /\ UNCHANGED <<mail, expired, objects>>  BY <1>4, <2>1
  <2>2. CASE At(x, "read") /\ Move(x, "fail") /\ UNCHANGED <<mail, objects, durable, local>>
    BY <1>0, <2>2
  <2> QED BY <1>5, <2>1, <2>2 DEF ReadJob, SaveFailed, FailureLost
<1> QED BY <1>1, <1>2, <1>3, <1>5 DEF GiveUp

LEMMA CopyStep ==
  TypeOK /\ SliceInv /\ PlaceInv /\ WorkInv /\ CopyInv /\ PageInv /\ [Next]_vars
    => CopyInv' /\ PageInv'
<1> SUFFICES ASSUME TypeOK, SliceInv, PlaceInv, WorkInv, CopyInv, PageInv, [Next]_vars
             PROVE  CopyInv' /\ PageInv'
  OBVIOUS
<1>1. CASE UNCHANGED vars
  BY <1>1 DEF vars, mail, record, objects, durable, local, CopyInv, PageInv, At, Whole
<1>2. CASE Next
  BY <1>2, OutsideCopy, SliceCopy, EndCopy, FailureCopy DEF Next, Slice, Failures
<1> QED BY <1>1, <1>2

-----------------------------------------------------------------------------
(* The control invariant is inductive.                                     *)

LEMMA ControlInit == Init => ControlInv
BY DEF Init, ControlInv, PlaceInv, WorkInv, ExpiryInv, ServedInv, ScratchInv, NeverBegun, Working,
       Failing, Trying, At, Parties, Route, Runner, Cron

\* That an upload is completed with parts is what CopyInv adds.
LEMMA ControlNext == TypeOK /\ CopyInv /\ ControlInv /\ Next => ControlInv'
<1> SUFFICES ASSUME TypeOK, CopyInv, ControlInv, Next PROVE ControlInv'  OBVIOUS
<1> USE DEF mail, record, objects, durable, local, bounds, Working, Trying, Failing, Parties, Route,
            Runner, Cron, At, Move, Slip, ControlInv, PlaceInv, WorkInv, ExpiryInv, ServedInv,
            ScratchInv, NeverBegun, Over, Running
<1>0. pc \in [Parties -> Pcs] /\ job \in Statuses  BY DEF TypeOK
<1>1. CASE Ask \/ Start \/ StartFails \/ Kick \/ RefuseExpired \/ RouteDies
  <2>1. CASE Ask  BY <1>0, <2>1 DEF Ask
  <2>2. CASE Start  BY <1>0, <2>2 DEF Start, Begin
  <2>3. CASE StartFails  BY <1>0, <2>3 DEF StartFails, Begin, Fault
  <2>4. CASE Kick  BY <1>0, <2>4 DEF Kick
  <2>5. CASE RefuseExpired  BY <1>0, <2>5 DEF RefuseExpired
  <2>6. CASE RouteDies  BY <1>0, <2>6 DEF RouteDies
  <2> QED BY <1>1, <2>1, <2>2, <2>3, <2>4, <2>5, <2>6
<1>2. CASE Fire
  <2>1. At(Runner, "idle") /\ UNCHANGED <<mail, record, objects, live, held, bounds>>
    BY <1>2 DEF Fire
  <2>2. /\ pc' \in {pc, [pc EXCEPT ![Runner] = "abort"], [pc EXCEPT ![Runner] = "load"]}
        /\ ~live => pc' = pc
    <3>1. CASE ~live  BY <1>2, <3>1 DEF Fire
    <3>2. CASE live /\ store.attempts >= MaxAttempts
      <4>1. ~(~live) /\ ~(store.attempts < MaxAttempts)  BY <3>2, WorkType, Bounds
      <4> QED BY <1>2, <3>2, <4>1 DEF Fire
    <3>3. CASE live /\ store.attempts < MaxAttempts
      <4>1. ~(~live) /\ ~(store.attempts >= MaxAttempts)  BY <3>3, WorkType, Bounds
      <4> QED BY <1>2, <3>3, <4>1 DEF Fire
    <3> QED BY <3>1, <3>2, <3>3, WorkType, Bounds
  <2> QED BY <1>0, <2>1, <2>2
<1>3. CASE Slice
  <2>1. CASE LoadJob  BY <1>0, <2>1 DEF LoadJob
  <2>2. CASE CountTimesOut  BY <1>0, <2>2 DEF CountTimesOut
  <2>3. CASE LoadCarry  BY <1>0, <2>3 DEF LoadCarry
  <2>4. CASE ReadPage  BY <1>0, <2>4 DEF ReadPage
  <2>5. CASE WriteMail  BY <1>0, <2>5 DEF WriteMail
  <2>6. CASE SaveProgress  BY <1>0, <2>6 DEF SaveProgress
  <2>7. CASE CreateUpload  BY <1>0, <2>7 DEF CreateUpload
  <2>8. CASE UploadPart  BY <1>0, <2>8 DEF UploadPart
  <2>9. CASE AllRead  BY <1>0, <2>9 DEF AllRead
  <2>10. CASE PutArchive  BY <1>0, <2>10 DEF PutArchive
  <2>11. CASE CompleteUpload
    <3>1. work.parts # <<>>  BY <2>11 DEF CompleteUpload, CopyInv
    <3> QED BY <1>0, <2>11, <3>1 DEF CompleteUpload
  <2>12. CASE RecordCompleted  BY <1>0, <2>12 DEF RecordCompleted
  <2>13. CASE Clear  BY <1>0, <2>13 DEF Clear, Wipe
  <2>14. CASE Sweep  BY <1>0, <2>14 DEF Sweep
  <2>15. CASE TimesOut  BY <1>0, <2>15 DEF TimesOut
  <2>16. CASE SaveCarry  BY <1>0, <2>16 DEF SaveCarry
  <2>17. CASE Report  BY <1>0, <2>17 DEF Report
  <2>18. CASE Persist  BY <1>0, <2>18 DEF Persist
  <2>19. CASE Tidy  BY <1>0, <2>19 DEF Tidy
  <2> QED BY <1>3, <2>1, <2>2, <2>3, <2>4, <2>5, <2>6, <2>7, <2>8, <2>9, <2>10, <2>11, <2>12,
             <2>13, <2>14, <2>15, <2>16, <2>17, <2>18, <2>19 DEF Slice
<1>4. ASSUME NEW x \in {Route, Runner}, GiveUp(x) \/ SweepFails(x) \/ FailureLost(x)
      PROVE  ControlInv'
  <2>1. CASE AbortUpload(x)  BY <1>0, <2>1 DEF AbortUpload
  <2>2. CASE DropScratch(x)  BY <1>0, <2>2 DEF DropScratch
  <2>3. CASE ReadJob(x)  BY <1>0, <2>3 DEF ReadJob, Ended, Wipe
  <2>4. CASE SaveFailed(x)  BY <1>0, <2>4 DEF SaveFailed, Ended, Wipe
  <2>5. CASE SweepFails(x)  BY <1>0, <2>5 DEF SweepFails
  <2>6. CASE FailureLost(x)  BY <1>0, <2>6 DEF FailureLost, Ended, Wipe
  <2> QED BY <1>4, <2>1, <2>2, <2>3, <2>4, <2>5, <2>6 DEF GiveUp
<1>5. CASE SliceThrows  BY <1>0, <1>5 DEF SliceThrows
<1>6. CASE Dies  BY <1>0, <1>6 DEF Dies
<1>7. CASE CronFails \/ Maintenance
  <2>1. CASE CronFails  BY <1>0, <2>1 DEF CronFails
  <2>2. CASE SeeExpired  BY <1>0, <2>2 DEF SeeExpired
  <2>3. CASE DropFiles  BY <1>0, <2>3 DEF DropFiles
  <2>4. CASE DropRecord  BY <1>0, <2>4 DEF DropRecord
  <2> QED BY <1>7, <2>1, <2>2, <2>3, <2>4 DEF Maintenance
<1>8. CASE Surroundings
  <2>1. CASE Expire  BY <1>0, <2>1 DEF Expire, Fault, Statuses
  <2>2. ASSUME NEW p \in Places, Arrive(p) \/ Delete(p) PROVE ControlInv'
    BY <1>0, <2>2 DEF Arrive, Delete
  <2> QED BY <1>8, <2>1, <2>2 DEF Surroundings
<1> QED BY <1>1, <1>2, <1>3, <1>4, <1>5, <1>6, <1>7, <1>8 DEF Next, Failures

LEMMA ControlStep == TypeOK /\ CopyInv /\ ControlInv /\ [Next]_vars => ControlInv'
<1>1. UNCHANGED vars /\ ControlInv => ControlInv'
  BY DEF vars, record, objects, durable, bounds, ControlInv, PlaceInv, WorkInv, ExpiryInv,
         ServedInv, ScratchInv, NeverBegun, Over, Running, At
<1> QED BY <1>1, ControlNext

-----------------------------------------------------------------------------
(* What the export promises.                                               *)

ExportInv == TypeOK /\ SliceInv /\ ControlInv /\ PageInv /\ CopyInv

LEMMA ExportInductive == Spec => []ExportInv
<1>1. Init => ExportInv  BY InitType, ControlInit, CopyInit DEF ExportInv
<1>2. ExportInv /\ [Next]_vars => ExportInv'
  BY TypeStep, ControlStep, CopyStep DEF ExportInv, ControlInv
<1> QED BY <1>1, <1>2, PTL DEF Spec

\* Every mailbox, page size and part size, any failures, any mail that comes and goes: what a
\* completed record names is there until it expires, holds its mails in order and none twice, and
\* misses none that was there all along.
THEOREM CompletedExportsAreWhole == Spec => []CompletedIsWhole
<1>1. ExportInv => CompletedIsWhole
  BY DEF ExportInv, ControlInv, ServedInv, CopyInv, CompletedIsWhole
<1> QED BY <1>1, ExportInductive, PTL

\* A job that is over leaves no scratch object and no archive without its record, but for the
\* failures that NothingLeft names.
THEOREM OverLeavesNothing == Spec => []NothingLeft
<1>1. ExportInv => NothingLeft
  BY DEF ExportInv, ControlInv, WorkInv, ScratchInv, ServedInv, NothingLeft, At
<1> QED BY <1>1, ExportInductive, PTL

-----------------------------------------------------------------------------
(* The export keeps ExportPromise.                                         *)

\* While no job came loose: who works on one, or is about to give it up, works on an open job; one
\* that failed is left alone; and the maintenance deletes what expired, as it read it.
OpenInv ==
  ~Loose =>
    /\ pc[Runner] \in Working \cup {"fail"} => Running
    /\ pc[Route] \in {"start"} \cup Failing => job = "pending"
    /\ job = "failed" => ~live /\ At(Runner, "idle")
    /\ pc[Cron] \in {"drop", "forget"} => expired /\ (held = "completed" => job = "completed")

LEMMA OpenInit == Init => OpenInv
BY DEF Init, OpenInv, Working, Failing, At, Parties, Route, Runner, Cron

\* A job that came loose stays so.
LEMMA LooseStays == [Next]_vars /\ Loose => Loose'
<1> USE DEF Loose, bounds, Slip
<1>1. CASE UNCHANGED vars  BY <1>1 DEF vars
<1>2. CASE Ask \/ Start \/ StartFails \/ Kick \/ RefuseExpired \/ Fire
  BY <1>2 DEF Ask, Start, StartFails, Kick, RefuseExpired, Fire
<1>3. CASE Slice
  BY <1>3 DEF Slice, LoadJob, CountTimesOut, LoadCarry, ReadPage, WriteMail, SaveProgress,
     CreateUpload, UploadPart, AllRead, PutArchive, CompleteUpload, RecordCompleted, Clear, Sweep,
     TimesOut, SaveCarry, Report, Persist, Tidy
<1>4. CASE \E x \in {Route, Runner} : GiveUp(x)
  BY <1>4 DEF GiveUp, AbortUpload, DropScratch, ReadJob, SaveFailed
<1>5. CASE Failures
  BY <1>5 DEF Failures, StartFails, SliceThrows, Dies, RouteDies, CronFails, SweepFails, FailureLost
<1>6. CASE Maintenance \/ Surroundings
  BY <1>6 DEF Maintenance, SeeExpired, DropFiles, DropRecord, Surroundings, Expire, Arrive, Delete
<1> QED BY <1>1, <1>2, <1>3, <1>4, <1>5, <1>6 DEF Next

LEMMA OpenNext ==
  TypeOK /\ ControlInv /\ OpenInv /\ Next => OpenInv'
<1> SUFFICES ASSUME TypeOK, ControlInv, OpenInv, Next, ~Loose' PROVE OpenInv'
  BY DEF OpenInv
<1> USE DEF mail, record, objects, durable, local, bounds, Working, Trying, Failing, Parties, Route,
            Runner, Cron, At, Move, ControlInv, PlaceInv, WorkInv, ExpiryInv, NeverBegun, Over,
            Running
<1>0. pc \in [Parties -> Pcs] /\ job \in Statuses  BY DEF TypeOK
<1>a. /\ ~Loose /\ "unheard" \notin slips /\ "early" \notin slips
      /\ "unheard" \notin slips' /\ "early" \notin slips'
  BY LooseStays DEF Loose
<1>b. /\ pc[Runner] \in Working \cup {"fail"} => Running
      /\ pc[Route] \in {"start"} \cup Failing => job = "pending"
      /\ job = "failed" => ~live /\ At(Runner, "idle")
      /\ pc[Cron] \in {"drop", "forget"} => expired /\ (held = "completed" => job = "completed")
  BY <1>a DEF OpenInv
<1> DEFINE Kept ==
      /\ pc'[Runner] \in Working \cup {"fail"} => Running'
      /\ pc'[Route] \in {"start"} \cup Failing => job' = "pending"
      /\ job' = "failed" => ~live' /\ pc'[Runner] = "idle"
      /\ pc'[Cron] \in {"drop", "forget"} => expired' /\ (held' = "completed" => job' = "completed")
<1>c. Kept
  <2>1. CASE Ask \/ Start \/ StartFails \/ Kick \/ RefuseExpired \/ RouteDies
    <3>1. CASE Ask  BY <1>0, <1>a, <1>b, <3>1 DEF Ask
    <3>2. CASE Start  BY <1>0, <1>a, <1>b, <3>2 DEF Start, Begin
    <3>3. CASE StartFails  BY <1>0, <1>a, <1>b, <3>3 DEF StartFails, Begin, Slip
    <3>4. CASE Kick  BY <1>0, <1>a, <1>b, <3>4 DEF Kick
    <3>5. CASE RefuseExpired  BY <1>0, <1>a, <1>b, <3>5 DEF RefuseExpired
    <3>6. CASE RouteDies  BY <1>0, <1>a, <1>b, <3>6 DEF RouteDies
    <3> QED BY <2>1, <3>1, <3>2, <3>3, <3>4, <3>5, <3>6
  <2>2. CASE Fire
    <3>1. At(Runner, "idle") /\ UNCHANGED <<mail, record, objects, live, held, bounds>>
      BY <2>2 DEF Fire
    <3>2. /\ pc' \in {pc, [pc EXCEPT ![Runner] = "abort"], [pc EXCEPT ![Runner] = "load"]}
          /\ ~live => pc' = pc
      <4>1. CASE ~live  BY <2>2, <4>1 DEF Fire
      <4>2. CASE live /\ store.attempts >= MaxAttempts
        <5>1. ~(~live) /\ ~(store.attempts < MaxAttempts)  BY <4>2, WorkType, Bounds
        <5> QED BY <2>2, <4>2, <5>1 DEF Fire
      <4>3. CASE live /\ store.attempts < MaxAttempts
        <5>1. ~(~live) /\ ~(store.attempts >= MaxAttempts)  BY <4>3, WorkType, Bounds
        <5> QED BY <2>2, <4>3, <5>1 DEF Fire
      <4> QED BY <4>1, <4>2, <4>3, WorkType, Bounds
    <3> QED BY <1>0, <1>b, <3>1, <3>2
  <2>3. CASE Slice
    <3>1. CASE LoadJob  BY <1>0, <1>b, <3>1 DEF LoadJob
    <3>2. CASE CountTimesOut \/ LoadCarry \/ ReadPage \/ WriteMail
      BY <1>0, <1>b, <3>2 DEF CountTimesOut, LoadCarry, ReadPage, WriteMail
    <3>3. CASE SaveProgress  BY <1>0, <1>a, <1>b, <3>3 DEF SaveProgress
    <3>4. CASE CreateUpload \/ UploadPart \/ AllRead \/ PutArchive \/ CompleteUpload
      BY <1>0, <1>b, <3>4 DEF CreateUpload, UploadPart, AllRead, PutArchive, CompleteUpload
    <3>5. CASE RecordCompleted  BY <1>0, <1>a, <1>b, <3>5 DEF RecordCompleted
    <3>6. CASE Clear \/ Sweep  BY <1>0, <1>b, <3>6 DEF Clear, Sweep, Wipe
    <3>7. CASE TimesOut \/ SaveCarry  BY <1>0, <1>b, <3>7 DEF TimesOut, SaveCarry
    <3>8. CASE Report  BY <1>0, <1>a, <1>b, <3>8 DEF Report
    <3>9. CASE Persist \/ Tidy  BY <1>0, <1>b, <3>9 DEF Persist, Tidy
    <3> QED BY <2>3, <3>1, <3>2, <3>3, <3>4, <3>5, <3>6, <3>7, <3>8, <3>9 DEF Slice
  <2>4. ASSUME NEW x \in {Route, Runner}, GiveUp(x) \/ SweepFails(x) \/ FailureLost(x)
        PROVE  Kept
    <3>1. CASE AbortUpload(x) \/ DropScratch(x)  BY <1>0, <1>b, <3>1 DEF AbortUpload, DropScratch
    <3>2. CASE ReadJob(x)  BY <1>0, <1>a, <1>b, <3>2 DEF ReadJob, Ended, Wipe, Statuses
    <3>3. CASE SaveFailed(x)  BY <1>0, <1>a, <1>b, <3>3 DEF SaveFailed, Ended, Wipe
    <3>4. CASE SweepFails(x)  BY <1>0, <1>b, <3>4 DEF SweepFails
    <3>5. CASE FailureLost(x)  BY <1>0, <1>b, <3>5 DEF FailureLost, Ended, Wipe
    <3> QED BY <2>4, <3>1, <3>2, <3>3, <3>4, <3>5 DEF GiveUp
  <2>5. CASE SliceThrows \/ Dies  BY <1>0, <1>b, <2>5 DEF SliceThrows, Dies
  <2>6. CASE CronFails \/ SeeExpired \/ DropFiles \/ DropRecord
    BY <1>0, <1>a, <1>b, <2>6 DEF CronFails, SeeExpired, DropFiles, DropRecord
  <2>7. CASE Expire  BY <1>0, <1>a, <1>b, <2>7 DEF Expire, Slip
  <2>8. ASSUME NEW p \in Places, Arrive(p) \/ Delete(p) PROVE Kept
    BY <1>b, <2>8 DEF Arrive, Delete
  <2> QED BY <2>1, <2>2, <2>3, <2>4, <2>5, <2>6, <2>7, <2>8
          DEF Next, Failures, Maintenance, Surroundings
<1> QED BY <1>c DEF OpenInv

LEMMA OpenStep == TypeOK /\ ControlInv /\ OpenInv /\ [Next]_vars => OpenInv'
<1>1. UNCHANGED vars /\ OpenInv => OpenInv'
  BY DEF vars, record, durable, bounds, OpenInv, Loose, Running, At
<1> QED BY <1>1, OpenNext

\* Nothing but a whole archive is ever stored.
LEMMA CopyWhole ==
  /\ CopyInv => Copy = IF archive = <<>> THEN "none" ELSE "whole"
  /\ CopyInv' => Copy' = IF archive' = <<>> THEN "none" ELSE "whole"
BY DEF CopyInv, Copy

\* The maintenance looks at a job once it was asked for.
AskedInv == At(Route, "new") => At(Cron, "idle")

\* The route asks once, and the maintenance begins with an expired job.
LEMMA AskedStays ==
  ASSUME TypeOK, PlaceInv, [Next]_vars
  PROVE  \/ Ask
         \/ /\ UNCHANGED At(Route, "new")
            /\ At(Cron, "idle") => SeeExpired \/ At(Cron, "idle")'
<1> USE DEF mail, record, objects, durable, local, bounds, Parties, Route, Runner, Cron, At, Move,
            PlaceInv, Failing
<1>0. pc \in [Parties -> Pcs]  BY DEF TypeOK
<1>1. CASE UNCHANGED vars  BY <1>1 DEF vars
<1>2. CASE Start \/ StartFails \/ Kick \/ RefuseExpired
  BY <1>0, <1>2 DEF Start, StartFails, Kick, RefuseExpired
<1>7. CASE Fire
  <2>1. CASE ~live  BY <1>7, <2>1 DEF Fire
  <2>2. CASE live /\ store.attempts >= MaxAttempts
    <3>1. ~(~live) /\ ~(store.attempts < MaxAttempts)  BY <2>2, WorkType, Bounds
    <3>2. pc' = [pc EXCEPT ![Runner] = "abort"]  BY <1>7, <2>2, <3>1 DEF Fire
    <3> QED BY <1>0, <3>2
  <2>3. CASE live /\ store.attempts < MaxAttempts
    <3>1. ~(~live) /\ ~(store.attempts >= MaxAttempts)  BY <2>3, WorkType, Bounds
    <3>2. pc' = [pc EXCEPT ![Runner] = "load"]  BY <1>7, <2>3, <3>1 DEF Fire
    <3> QED BY <1>0, <3>2
  <2> QED BY <2>1, <2>2, <2>3, WorkType, Bounds
<1>3. CASE Slice
  <2>1. CASE LoadJob \/ CountTimesOut \/ LoadCarry \/ ReadPage \/ WriteMail \/ SaveProgress
    BY <1>0, <2>1 DEF LoadJob, CountTimesOut, LoadCarry, ReadPage, WriteMail, SaveProgress
  <2>2. CASE CreateUpload \/ UploadPart \/ AllRead \/ PutArchive \/ CompleteUpload
    BY <1>0, <2>2 DEF CreateUpload, UploadPart, AllRead, PutArchive, CompleteUpload
  <2>3. CASE RecordCompleted \/ Clear \/ Sweep \/ TimesOut \/ SaveCarry
    BY <1>0, <2>3 DEF RecordCompleted, Clear, Sweep, TimesOut, SaveCarry
  <2>4. CASE Report \/ Persist \/ Tidy
    BY <1>0, <2>4 DEF Report, Persist, Tidy
  <2> QED BY <1>3, <2>1, <2>2, <2>3, <2>4 DEF Slice
<1>4. ASSUME NEW x \in {Route, Runner}, GiveUp(x) \/ SweepFails(x) \/ FailureLost(x)
      PROVE  UNCHANGED At(Route, "new") /\ UNCHANGED At(Cron, "idle")
  BY <1>0, <1>4
     DEF GiveUp, AbortUpload, DropScratch, ReadJob, SaveFailed, SweepFails, FailureLost, Ended
<1>5. CASE SliceThrows \/ Dies \/ RouteDies \/ CronFails
  BY <1>0, <1>5 DEF SliceThrows, Dies, RouteDies, CronFails
<1>6. CASE Maintenance \/ Surroundings
  BY <1>0, <1>6 DEF Maintenance, SeeExpired, DropFiles, DropRecord, Surroundings, Expire, Arrive,
                    Delete
<1> QED BY <1>1, <1>2, <1>3, <1>4, <1>5, <1>6, <1>7 DEF Next, Failures

LEMMA AskedStep == TypeOK /\ ControlInv /\ AskedInv /\ [Next]_vars => AskedInv'
<1> SUFFICES ASSUME TypeOK, ControlInv, AskedInv, [Next]_vars, At(Route, "new")'
             PROVE  At(Cron, "idle")'
  BY DEF AskedInv
<1>1. ~Ask
  BY DEF Ask, Move, At, TypeOK, Parties, Route
<1>2. At(Route, "new") /\ (At(Cron, "idle") => SeeExpired \/ At(Cron, "idle")')
  BY <1>1, AskedStays DEF ControlInv
<1>3. job = "none" /\ At(Cron, "idle")
  BY <1>2 DEF ControlInv, WorkInv, AskedInv
<1> QED BY <1>2, <1>3 DEF SeeExpired

\* A step that touches neither record nor archive, on which mail may be deleted.
LEMMA QuietPromised ==
  ASSUME CopyInv, CopyInv', Loose => Loose', UNCHANGED <<record, archive, At(Route, "new")>>
  PROVE  Promise!Next
<1>1. Copy' = Copy  BY CopyWhole
<1> QED BY <1>1 DEF Promise!Next, Promise!Come, record

\* The runner's steps that do.
LEMMA SlicePromised ==
  ASSUME ExportInv, OpenInv, CopyInv', Loose => Loose', UNCHANGED At(Route, "new"), Slice
  PROVE  Promise!Next
<1> USE DEF record, At
<1>0. /\ Copy = IF archive = <<>> THEN "none" ELSE "whole"
      /\ Copy' = IF archive' = <<>> THEN "none" ELSE "whole"
  BY CopyWhole DEF ExportInv
<1>1. pc[Runner] \in Working => ~At(Route, "new") /\ (~Loose => Promise!Open)
  BY DEF ExportInv, ControlInv, WorkInv, NeverBegun, OpenInv, Running, Promise!Open, Working
<1>2. CASE UNCHANGED <<record, archive>>
  BY <1>2, QuietPromised DEF ExportInv
<1>3. CASE SaveProgress \/ Report
  <2>1. job' = "processing" /\ UNCHANGED <<expired, archive>> /\ pc[Runner] \in Working
    BY <1>3 DEF SaveProgress, Report, objects, Working
  <2>2. Promise!Progress
    BY <1>0, <1>1, <2>1 DEF Promise!Progress
  <2> QED BY <2>2 DEF Promise!Next
<1>4. CASE PutArchive \/ CompleteUpload
  <2>1. UNCHANGED record /\ archive' # <<>> /\ pc[Runner] \in Working
    <3>1. CASE PutArchive  BY <3>1 DEF PutArchive, Working
    <3>2. CASE CompleteUpload
      BY <3>2 DEF CompleteUpload, Working, ExportInv, CopyInv
    <3> QED BY <1>4, <3>1, <3>2
  <2>2. Promise!Make
    BY <1>0, <1>1, <2>1 DEF Promise!Make
  <2> QED BY <2>2 DEF Promise!Next
<1>5. CASE RecordCompleted
  <2>1. /\ job' = "completed" /\ expired' = FALSE /\ UNCHANGED archive
        /\ archive # <<>> /\ pc[Runner] \in Working
    BY <1>5 DEF RecordCompleted, objects, Working, ExportInv, ControlInv, ServedInv
  <2>2. Promise!Complete
    BY <1>0, <1>1, <2>1 DEF Promise!Complete
  <2> QED BY <2>2 DEF Promise!Next
<1> QED BY <1>2, <1>3, <1>4, <1>5
        DEF Slice, LoadJob, CountTimesOut, LoadCarry, ReadPage, WriteMail, CreateUpload, UploadPart,
            AllRead, Clear, Sweep, TimesOut, SaveCarry, Persist, Tidy, objects

\* Whoever gives a job up.
LEMMA GiveUpPromised ==
  ASSUME ExportInv, OpenInv, CopyInv', Loose => Loose', UNCHANGED At(Route, "new"),
         NEW x \in {Route, Runner}, GiveUp(x) \/ SweepFails(x) \/ FailureLost(x)
  PROVE  Promise!Next
<1> USE DEF record, At
<1>1. CASE UNCHANGED <<record, archive>>
  BY <1>1, QuietPromised DEF ExportInv
<1>2. CASE SaveFailed(x)
  <2>1. job' = "failed" /\ UNCHANGED <<expired, archive>> /\ pc[x] = "fail"
    BY <1>2 DEF SaveFailed, objects
  <2>2. ~At(Route, "new") /\ (~Loose => Promise!Open)
    BY <2>1 DEF ExportInv, ControlInv, WorkInv, NeverBegun, OpenInv, Running, Promise!Open, Failing
  <2>3. Copy' = Copy
    BY <2>1, CopyWhole DEF ExportInv
  <2>4. Promise!Fail
    BY <2>1, <2>2, <2>3 DEF Promise!Fail
  <2> QED BY <2>4 DEF Promise!Next
<1> QED BY <1>1, <1>2
        DEF GiveUp, AbortUpload, DropScratch, ReadJob, SweepFails, FailureLost, objects

\* The request, the expiry and the maintenance.
LEMMA OutsidePromised ==
  ASSUME ExportInv, OpenInv, AskedInv, CopyInv', Loose => Loose', Ask \/ UNCHANGED At(Route, "new"),
         Ask \/ RefuseExpired \/ Maintenance \/ Surroundings
  PROVE  Promise!Next
<1> USE DEF record, objects, At
<1>0. /\ Copy = IF archive = <<>> THEN "none" ELSE "whole"
      /\ Copy' = IF archive' = <<>> THEN "none" ELSE "whole"
      /\ pc \in [Parties -> Pcs]
  BY CopyWhole DEF ExportInv, TypeOK
<1>1. CASE Ask
  <2>1. /\ job' = "pending" /\ UNCHANGED <<expired, archive>>
        /\ pc[Route] = "new" /\ pc'[Route] = "start"
    BY <1>0, <1>1 DEF Ask, Move, Parties
  <2>2. Promise!Ask
    BY <1>0, <2>1 DEF Promise!Ask
  <2> QED BY <2>2 DEF Promise!Next
<1>2. CASE RefuseExpired
  <2>1. Promise!Discard
    <3>1. ~At(Route, "new")
      BY <1>2 DEF RefuseExpired, ExportInv, ControlInv, WorkInv
    <3>2. UNCHANGED At(Route, "new")
      BY <1>2 DEF RefuseExpired
    <3> QED BY <1>0, <1>2, <3>1, <3>2 DEF RefuseExpired, Promise!Discard
  <2> QED BY <2>1 DEF Promise!Next
<1>3. CASE DropFiles
  <2>1. UNCHANGED <<record, At(Route, "new")>> /\ pc[Cron] = "drop"
    BY <1>0, <1>3 DEF DropFiles, Move, Route, Cron, Parties
  <2>2. CASE held = "completed"
    <3>1. archive' = <<>> /\ expired /\ (~Loose => job = "completed")
      BY <1>3, <2>1, <2>2 DEF DropFiles, ExportInv, ControlInv, ExpiryInv, OpenInv
    <3>2. Promise!Discard
      BY <1>0, <2>1, <3>1 DEF Promise!Discard
    <3> QED BY <3>2 DEF Promise!Next
  <2>3. CASE held # "completed"
    <3>1. UNCHANGED archive
      BY <1>3, <2>3 DEF DropFiles
    <3> QED BY <2>1, <3>1, QuietPromised DEF ExportInv
  <2> QED BY <2>2, <2>3
<1>4. CASE DropRecord
  <2>1. job' = "none" /\ UNCHANGED <<expired, archive, At(Route, "new")>> /\ pc[Cron] = "forget"
    BY <1>0, <1>4 DEF DropRecord, Move, Route, Cron, Parties
  <2>2. ~At(Route, "new") /\ (~Loose => expired)
    BY <2>1 DEF ExportInv, ControlInv, ExpiryInv, OpenInv, AskedInv
  <2>3. Promise!Drop
    BY <1>0, <2>1, <2>2 DEF Promise!Drop
  <2> QED BY <2>3 DEF Promise!Next
<1>5. CASE Expire
  <2>1. /\ expired' = TRUE /\ UNCHANGED <<job, archive, At(Route, "new")>>
        /\ ~At(Route, "new")
    BY <1>5 DEF Expire, ExportInv, ControlInv, WorkInv
  <2>2. Promise!Expire
    BY <1>0, <2>1 DEF Promise!Expire
  <2> QED BY <2>2 DEF Promise!Next
<1>6. CASE UNCHANGED <<record, archive, At(Route, "new")>>
  BY <1>6, QuietPromised DEF ExportInv
<1>7. SeeExpired => UNCHANGED <<record, archive>> /\ ~Ask
  <2>1. SeeExpired => ~Ask
    BY DEF SeeExpired, Ask, ExportInv, ControlInv, WorkInv
  <2> QED BY <2>1 DEF SeeExpired
<1>8. ASSUME NEW p \in Places, Arrive(p) \/ Delete(p)
      PROVE  UNCHANGED <<record, archive, At(Route, "new")>>
  BY <1>8 DEF Arrive, Delete
<1> QED BY <1>1, <1>2, <1>3, <1>4, <1>5, <1>6, <1>7, <1>8 DEF Maintenance, Surroundings

\* Route, runner and maintenance act on a record each of them has read before, and any of them may
\* fail on the way; still the job ends once, completed on a whole archive or failed, and neither
\* the record nor the archive goes before it expired.
THEOREM Implements == Spec => KeepsExport
<1> DEFINE Inv == ExportInv /\ OpenInv /\ AskedInv
<1>1. Init => Inv
  <2>1. Init => AskedInv
    BY DEF Init, AskedInv, At, Parties, Cron, Route
  <2> QED BY <2>1, InitType, ControlInit, CopyInit, OpenInit DEF ExportInv
<1>2. Inv /\ [Next]_vars => Inv'
  BY TypeStep, ControlStep, CopyStep, OpenStep, AskedStep DEF ExportInv, ControlInv
<1>3. Init => Promise!Init
  BY DEF Init, Promise!Init, Copy, Loose, At, Parties, Route, Runner, Cron
<1>4. Inv /\ [Next]_vars => [Promise!Next]_(Promise!vars)
  <2> SUFFICES ASSUME Inv, [Next]_vars PROVE Promise!Next
    OBVIOUS
  <2>1. (Loose => Loose') /\ (Ask \/ UNCHANGED At(Route, "new"))
    BY LooseStays, AskedStays DEF ExportInv, ControlInv
  <2>2. CopyInv /\ CopyInv'
    BY <1>2 DEF ExportInv
  <2>3. CASE Ask \/ RefuseExpired \/ Maintenance \/ Surroundings
    BY <2>1, <2>2, <2>3, OutsidePromised
  <2>4. CASE UNCHANGED At(Route, "new") /\ Slice
    BY <2>1, <2>2, <2>4, SlicePromised
  <2>5. ASSUME UNCHANGED At(Route, "new"),
               NEW x \in {Route, Runner}, GiveUp(x) \/ SweepFails(x) \/ FailureLost(x)
        PROVE  Promise!Next
    BY <2>1, <2>2, <2>5, GiveUpPromised
  <2>6. CASE UNCHANGED <<record, archive, At(Route, "new")>>
    BY <2>1, <2>2, <2>6, QuietPromised
  <2>7. /\ Start \/ StartFails \/ Kick \/ Fire => UNCHANGED <<record, archive>>
        /\ SliceThrows \/ Dies \/ RouteDies \/ CronFails => UNCHANGED <<record, archive>>
        /\ UNCHANGED vars => UNCHANGED <<record, archive>>
    BY DEF Start, StartFails, Kick, Fire, SliceThrows, Dies, RouteDies, CronFails, vars, objects
  <2> QED BY <2>1, <2>3, <2>4, <2>5, <2>6, <2>7 DEF Next, Failures
<1> QED
  <2> HIDE DEF Inv
  <2> QED BY <1>1, <1>2, <1>3, <1>4, PTL DEF Spec, KeepsExport, Promise!Spec

\* The promise says enough: whoever keeps it has a whole archive for a completed record until that
\* expires.
THEOREM PromiseSuffices == KeepsExport => []CompletedIsWhole
<1> DEFINE Served == /\ Copy \in {"none", "whole"}
                     /\ expired \in BOOLEAN
                     /\ job = "completed" /\ ~expired => Copy = "whole"
<1>1. Promise!Init => Served
  BY DEF Promise!Init
<1>2. Served /\ [Promise!Next]_(Promise!vars) => Served'
  BY DEF Promise!Next, Promise!vars, Promise!Ask, Promise!Progress, Promise!Make, Promise!Complete,
         Promise!Fail, Promise!Expire, Promise!Discard, Promise!Drop, Promise!Come
<1>3. Served => CompletedIsWhole
  BY DEF Copy, CompletedIsWhole
<1> QED
  <2> HIDE DEF Served
  <2> QED BY <1>1, <1>2, <1>3, PTL DEF KeepsExport, Promise!Spec

=============================================================================
