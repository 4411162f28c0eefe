------------------------- MODULE MCInboundDelivery -------------------------
(* Instances of InboundDelivery for TLC.                                   *)
EXTENDS InboundDelivery, TLC

Interchangeable == Permutations(Deliveries) \cup Permutations(Envelopes)

EveryFault == {"timeout", "rpc", "claim", "put", "putUnsure", "store", "abandon",
               "delete", "crash", "purge"}
\* Faults a retry makes good.
Retried == {"rpc", "put", "store", "putUnsure", "delete", "purge"}
=============================================================================
