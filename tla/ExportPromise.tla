---------------------------- MODULE ExportPromise ----------------------------
(***************************************************************************)
(* What an export promises who asked for it: its job is asked for once and *)
(* ends once, completed or failed; it is completed on an archive that is   *)
(* whole, and that archive stays as it is until the job expires; only then *)
(* does the record go.  Once a job came loose (it was given up by one who  *)
(* did not hear that it had started, or outlived its own record) its       *)
(* outcome may change, but never to an archive that is not whole.          *)
(***************************************************************************)
VARIABLES
  asked,    \* the export was asked for
  job,      \* what the record says, or "none"
  copy,     \* the archive: "none", "whole" or "partial"
  expired,  \* the download window is over
  loose     \* the job came loose
vars == <<asked, job, copy, expired, loose>>

Init == asked = FALSE /\ job = "none" /\ copy = "none" /\ expired = FALSE /\ loose = FALSE

Open == job \in {"pending", "processing"}

Ask == /\ ~asked /\ asked' = TRUE
       /\ job' = "pending"
       /\ UNCHANGED <<copy, expired>>

Progress == /\ asked /\ (~loose => Open)
            /\ job' = "processing"
            /\ UNCHANGED <<asked, copy, expired>>

\* A slice may make the archive again, as long as nobody was told of it.
Make == /\ asked /\ (~loose => Open)
        /\ copy' = "whole"
        /\ UNCHANGED <<asked, job, expired>>

Complete == /\ copy = "whole" /\ (~loose => Open)
            /\ job' = "completed" /\ expired' = FALSE
            /\ UNCHANGED <<asked, copy>>

Fail == /\ asked /\ (~loose => Open)
        /\ job' = "failed"
        /\ UNCHANGED <<asked, copy, expired>>

Expire == /\ asked /\ expired' = TRUE
          /\ UNCHANGED <<asked, job, copy>>

Discard == /\ expired /\ (~loose => job = "completed")
           /\ copy' = "none"
           /\ UNCHANGED <<asked, job, expired>>

Drop == /\ asked /\ (~loose => expired)
        /\ job' = "none"
        /\ UNCHANGED <<asked, copy, expired>>

Come == UNCHANGED <<asked, job, copy, expired>>

Next == /\ loose => loose'
        /\ \/ Ask \/ Progress \/ Make \/ Complete \/ Fail
           \/ Expire \/ Discard \/ Drop \/ Come

Spec == Init /\ [][Next]_vars

=============================================================================
