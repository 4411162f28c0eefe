-------------------------- MODULE MCDeliveryEvents --------------------------
(* Instances of DeliveryEvents for TLC.                                    *)
EXTENDS DeliveryEvents, TLC

EveryFault == {"rpc", "crash", "duplicate", "alias", "d1", "put"}
=============================================================================
