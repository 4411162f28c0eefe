--------------------------- MODULE MCOutboundSend ---------------------------
(* Instances of OutboundSend for TLC.                                      *)
EXTENDS OutboundSend, TLC

Interchangeable == Permutations(Workers)

EveryFault == {"crash", "restart", "loss", "duplicate", "rpc", "get", "put", "delete",
               "queue", "queueUnsure", "sendUnsure", "overrun", "storage"}
\* What the sweeper is there for: messages lost, and parties that fail or end.
LostMessages == {"loss", "crash", "restart", "rpc"}
=============================================================================
