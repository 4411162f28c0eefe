----------------------------- MODULE KeyedSends -----------------------------
(***************************************************************************)
(* What an Idempotency-Key promises the client that retries a send: of the *)
(* requests with one key at most one has a Sent row at any time, only a    *)
(* request that stored its own row is handed to delivery, once and before  *)
(* it is answered, and a request that is told of a message is told of one  *)
(* that was stored under its key.                                          *)
(***************************************************************************)
CONSTANTS Requests, KeyOf, NoKey
VARIABLES mail, handed, answer
vars == <<mail, handed, answer>>

SameKey(r, q) == KeyOf[r] = KeyOf[q] /\ KeyOf[r] # NoKey
Open(r) == answer[r] = "open"

Init == /\ mail = [r \in Requests |-> "none"]
        /\ handed = {}
        /\ answer = [r \in Requests |-> "open"]

Tell(r, a) == /\ Open(r)
              /\ answer' = [answer EXCEPT ![r] = a]

Store(r) == /\ mail[r] = "none" /\ Open(r)
            /\ \A q \in Requests : SameKey(r, q) => mail[q] # "stored"
            /\ mail' = [mail EXCEPT ![r] = "stored"]
            /\ UNCHANGED <<handed, answer>>

\* The row may have been deleted since; the request may end without an answer.
HandOver(r) == /\ mail[r] # "none" /\ r \notin handed
               /\ handed' = handed \cup {r}
               /\ Tell(r, r) \/ Tell(r, "error")
               /\ UNCHANGED mail

Replay(r, q) == /\ SameKey(r, q) /\ mail[q] # "none" /\ mail[r] = "none"
                /\ Tell(r, q)
                /\ UNCHANGED <<mail, handed>>

Fail(r) == Tell(r, "error") /\ UNCHANGED <<mail, handed>>

Delete(r) == /\ mail[r] = "stored"
             /\ mail' = [mail EXCEPT ![r] = "gone"]
             /\ UNCHANGED <<handed, answer>>

Next == \E r \in Requests : \/ Store(r) \/ HandOver(r) \/ Fail(r) \/ Delete(r)
                            \/ \E q \in Requests : Replay(r, q)

Spec == Init /\ [][Next]_vars

=============================================================================
