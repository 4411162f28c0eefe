--------------------------- MODULE DeliveryPromise ---------------------------
(***************************************************************************)
(* What outbound delivery promises about a Sent row, whatever queue,       *)
(* consumer, dead letter or sweep handles it: the message is given to the  *)
(* Email binding at most once, the row is settled once, as "accepted" only *)
(* if it was given and as "failed" only if it was not.  The promise ends   *)
(* for a row with the first slip, a step after which nobody knows that a   *)
(* copy was, or is about to be, taken.                                     *)
(***************************************************************************)
EXTENDS Naturals

CONSTANT Mails
VARIABLES status, copies, slips
vars == <<status, copies, slips>>

Init == /\ status = [e \in Mails |-> "none"]
        /\ copies = [e \in Mails |-> 0]
        /\ slips = [e \in Mails |-> 0]

Sound(e) == slips[e] = 0

\* The user presses Send.
Write(e) == /\ status[e] = "none"
            /\ status' = [status EXCEPT ![e] = "queued"]
            /\ UNCHANGED <<copies, slips>>

\* The binding takes a copy; a deleted row may be past the point of return.
Transmit(e) == /\ Sound(e) => copies[e] = 0 /\ status[e] \in {"queued", "gone"}
               /\ copies' = [copies EXCEPT ![e] = @ + 1]
               /\ slips' \in {slips, [slips EXCEPT ![e] = @ + 1]}
               /\ UNCHANGED status

Report(e, s) == /\ status[e] \in {"queued", "accepted", "failed"}
                /\ Sound(e) => /\ status[e] = "queued"
                               /\ s = "accepted" <=> copies[e] > 0
                /\ status' = [status EXCEPT ![e] = s]
                /\ UNCHANGED <<copies, slips>>

Delete(e) == /\ status[e] \in {"queued", "accepted", "failed"}
             /\ status' = [status EXCEPT ![e] = "gone"]
             /\ UNCHANGED <<copies, slips>>

LoseTrack(e) == /\ slips' = [slips EXCEPT ![e] = @ + 1]
                /\ UNCHANGED <<status, copies>>

Next == \E e \in Mails : \/ Write(e) \/ Transmit(e) \/ Delete(e) \/ LoseTrack(e)
                         \/ \E s \in {"accepted", "failed"} : Report(e, s)

Spec == Init /\ [][Next]_vars

=============================================================================
