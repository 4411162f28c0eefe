------------------------ MODULE MCDomainOffboarding ------------------------
(* Instances of DomainOffboarding for TLC.                                  *)
EXTENDS DomainReturns, TLC
CONSTANTS m1, m2, q1, h1, cron

(***************************************************************************)
(* A view of the state without what no step and no property reads before   *)
(* it is written again: the days, the warning and the request of a row     *)
(* whose finalize has started, but for what they say of the announcement,  *)
(* and the row and the outcome in the hands of a runner that reads the row *)
(* anew, or none any more.                                                 *)
(***************************************************************************)
ToldRow == [row EXCEPT !.stamps = @ \ {"warned", "requested"}]
RowInView == IF Has(row, "started") THEN <<ToldRow, Announced>> ELSE <<row, time>>

Reads == {"check", "recheck", "metadata", "begin"} \cup CloudflarePcs
Knows == {"billing", "record", "list", "purge", "aliases", "unlist"}
SnapInView(r) == CASE pc[r] \in Reads -> <<snap[r]>>
                   [] pc[r] \in Knows -> <<snap[r].kept, Has(snap[r], "unbilled")>>
                   [] pc[r] \notin Reads \cup Knows -> <<>>

View == <<bought, hosting, services, RowInView, pc, [r \in Runners |-> SnapInView(r)],
          seen, todo, outcome, around, faults>>
=============================================================================
