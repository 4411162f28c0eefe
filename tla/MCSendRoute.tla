---------------------------- MODULE MCSendRoute ----------------------------
(* Instances of SendRoute for TLC.                                         *)
EXTENDS SendRoute, TLC
CONSTANTS r1, r2, r3, d1, d2, k1, s1

EveryFault == {"put", "rpc", "delete", "send", "crash"}

\* Two requests with one key, and one without when it is there.
RetriedKey == [r \in Requests |-> IF r = r3 THEN NoKey ELSE k1]
SameSender == [d \in Directs |-> s1]

\* The two requests with a key send the larger message.
LargerWithKey == [p \in Parties |-> IF p \in {r1, r2} THEN 2 ELSE 1]

Alike == Permutations({r1, r2}) \cup Permutations(Directs)
=============================================================================
