--------------------------- MODULE MCTrackingSync ---------------------------
(***************************************************************************)
(* Instances of TrackingSync for TLC: what the carriers may report.        *)
(***************************************************************************)
EXTENDS TrackingSync

CONSTANTS tracker, request, s1, s2, none

At(raw, t) == [raw |-> raw, at |-> t]

\* A scan with a status string of its own, then the delivery.
Delivery == [s \in Shipments |-> {At("vendor_code", 1), At("delivered", 2)}]

\* A failed attempt before the delivery.
Attempt == [s \in Shipments |-> {At("exception", 1), At("delivered", 2)}]

\* s1: a dated and an undated event, which 17TRACK and Ship24 read differently.
Undated == [s \in Shipments |->
              IF s = s1 THEN {At("exception", 1), At("undelivered", none)}
                        ELSE {At("exception", 1)}]

=============================================================================
