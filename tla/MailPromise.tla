----------------------------- MODULE MailPromise -----------------------------
(***************************************************************************)
(* What a mailbox promises the senders of one message, which reaches it in *)
(* several envelopes, each offered until it is answered, and every offer   *)
(* in a delivery of its own: of two deliveries that both put a row into    *)
(* the mailbox one lost its claim on the way; a row is put there once and  *)
(* does not come back; and an envelope is accepted on a row, or on another *)
(* envelope whose delivery goes on.  The last ends with the first slip, a  *)
(* failure of a delivery that nobody is left to know of.                   *)
(***************************************************************************)
EXTENDS Naturals

CONSTANTS Deliveries, Envelopes
VARIABLES row, envelope, overtaken, slips
vars == <<row, envelope, overtaken, slips>>

Init == /\ row = [d \in Deliveries |-> "none"]
        /\ envelope = [v \in Envelopes |-> "new"]
        /\ overtaken = {} /\ slips = 0

Stored == {d \in Deliveries : row[d] = "stored"}
EverStored == \E d \in Deliveries : row[d] # "none"

Offer(v) == /\ envelope[v] \in {"new", "retry"}
            /\ envelope' = [envelope EXCEPT ![v] = "open"]
            /\ UNCHANGED row

Store(d) == /\ row[d] = "none"
            /\ \A e \in Stored : d \in overtaken \/ e \in overtaken
            /\ row' = [row EXCEPT ![d] = "stored"]
            /\ UNCHANGED envelope

Remove(S) == /\ row' = [d \in Deliveries |-> IF d \in S THEN "gone" ELSE row[d]]
             /\ UNCHANGED envelope

Accept(v) == /\ envelope[v] = "open"
             /\ slips = 0 => EverStored \/ \E u \in Envelopes \ {v} : envelope[u] = "open"
             /\ envelope' = [envelope EXCEPT ![v] = "accepted"]
             /\ UNCHANGED row

TurnAway(v) == /\ envelope[v] = "open"
               /\ \E a \in {"retry", "refused"} : envelope' = [envelope EXCEPT ![v] = a]
               /\ UNCHANGED row

\* What was overtaken, and that something slipped, is for good.
Next == /\ overtaken \subseteq overtaken'
        /\ slips' \in Nat /\ slips <= slips'
        /\ \/ UNCHANGED <<row, envelope>>
           \/ \E v \in Envelopes : Offer(v) \/ Accept(v) \/ TurnAway(v)
           \/ \E d \in Deliveries : Store(d)
           \/ \E S \in SUBSET Stored : Remove(S)

Spec == Init /\ [][Next]_vars

=============================================================================
