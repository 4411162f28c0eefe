--------------------------- MODULE PurchasePromise ---------------------------
(***************************************************************************)
(* What the purchase of one domain promises its buyers: a payment ends in  *)
(* the domain or comes back, never both, and its event is closed only      *)
(* after one of the two; the domain is bought at the registrar for a       *)
(* payment that is still due it, before anybody owns it, and passes to     *)
(* nobody else; what a record says of its outcome is so.  The promise ends *)
(* once a session was handled in two ways at once.                         *)
(***************************************************************************)
CONSTANTS Sessions, NoOne
VARIABLES
  paid,    \* sessions that paid
  closed,  \* those whose payment Stripe need not report again
  back,    \* those whose payment was given back
  bought,  \* the domain is ours at the registrar
  owner,   \* the session that has the domain
  mark,    \* what a session's record says of its outcome
  torn     \* a session was handled in two ways at once
payments == <<paid, closed, back>>
domain == <<bought, owner>>
vars == <<payments, domain, mark, torn>>

Init == /\ paid = {} /\ closed = {} /\ back = {}
        /\ bought = FALSE /\ owner = NoOne
        /\ mark = [s \in Sessions |-> "open"]
        /\ torn = FALSE

Due(s) == s \in paid \ back /\ owner = NoOne

Pay(s) == /\ paid' = paid \cup {s}
          /\ UNCHANGED <<closed, back, domain, mark>>

Buy(s) == /\ s \in paid /\ (~torn => Due(s))
          /\ bought' = TRUE
          /\ UNCHANGED <<payments, owner, mark>>

\* The owner may be written again.
Own(s) == /\ s \in paid /\ bought
          /\ ~torn => Due(s) \/ owner = s
          /\ owner' = s
          /\ UNCHANGED <<payments, bought, mark>>

GiveBack(s) == /\ s \in paid /\ (~torn => owner # s)
               /\ back' = back \cup {s}
               /\ UNCHANGED <<paid, closed, domain, mark>>

\* A late save may open a record again.
Mark(s) == /\ \E m \in {"open", "ready", "refunded"} :
                /\ mark' = [mark EXCEPT ![s] = m]
                /\ ~torn /\ m = "ready" => owner = s
                /\ ~torn /\ m = "refunded" => s \in back
           /\ UNCHANGED <<payments, domain>>

Close(s) == /\ s \in paid /\ (~torn => owner = s \/ s \in back)
            /\ closed' = closed \cup {s}
            /\ UNCHANGED <<paid, back, domain, mark>>

Tear == UNCHANGED <<payments, domain, mark>>

Next == /\ torn => torn'
        /\ \/ Tear
           \/ \E s \in Sessions : \/ Pay(s) \/ Buy(s) \/ Own(s) \/ GiveBack(s)
                                  \/ Mark(s) \/ Close(s)

Spec == Init /\ [][Next]_vars

=============================================================================
