---------------------------- MODULE DomainReturns ----------------------------
(***************************************************************************)
(* A domain that left comes back: once its row, its metadata and its zone  *)
(* are gone, somebody who controls its DNS connects it again, with new     *)
(* mailboxes, and may decommission it again.  The row of its first         *)
(* decommission is still there.                                            *)
(***************************************************************************)
EXTENDS DomainOffboarding

\* POST .../domains: not registered here, DNS control proven, a zone created, then the row and
\* the metadata.  Nobody bought it here this time.
Connect ==
  /\ d1 = "none" /\ meta = "none"
  /\ ~zone
  /\ zone' = TRUE
  /\ \E s \in {"pending", "active"} : d1' = s /\ meta' = s
  /\ bought' = FALSE
  /\ mailboxes' = Mailboxes /\ aliases' = TRUE
  /\ UNCHANGED <<customer, paying, renews, registered, row, time, local, around, faults>>

SpecReturns == Init /\ [][Next \/ Connect]_vars /\ Fairness
=============================================================================
