------------------------- MODULE MCEmailIngestion -------------------------
(***************************************************************************)
(* Instances of EmailIngestion for TLC.  Messages m1 and m2 are an order   *)
(* confirmation and the shipping mail of the same order, m3 a carrier's    *)
(* own notification, m4 an order mail without an order number, m5 and m6   *)
(* anything else.                                                          *)
(***************************************************************************)
EXTENDS EmailIngestion

CONSTANTS worker, request, a1, a2, f1, f2, none

AllContent ==
    [m1 |-> [kind |-> "order", number |-> "n1", trks |-> {}, carrier |-> none],
     m2 |-> [kind |-> "order", number |-> "n1", trks |-> {"t1"}, carrier |-> "dhl"],
     m3 |-> [kind |-> "carrier", number |-> "dhl-t1", trks |-> {"t1"}, carrier |-> "dhl"],
     m4 |-> [kind |-> "order", number |-> none, trks |-> {"t1", "t2"}, carrier |-> "dhl"],
     m5 |-> [kind |-> "other", number |-> none, trks |-> {}, carrier |-> none],
     m6 |-> [kind |-> "other", number |-> none, trks |-> {}, carrier |-> none]]

MCContent == [m \in Msgs |-> AllContent[m]]

OneOwner == [a \in Accounts |-> "ann"]
TwoOwners == [a \in Accounts |-> IF a = a1 THEN "ann" ELSE "bob"]

\* Every account may use every folder / each account has its own.
AnyFolder == [a \in Accounts |-> Folders]
OwnFolder == [a \in Accounts |-> IF a = a1 THEN {f1} ELSE {f2}]

\* Any message may arrive anywhere / m1 arrives in both folders, with m2 or
\* with m3 / m5 arrives in both, m6 in f2 only.
AnyMail == [f \in Folders |-> Msgs]
SharedMail == [f \in Folders |-> IF f = f1 THEN {"m1", "m2"} ELSE {"m1", "m3"}]
KnownMail == [f \in Folders |-> IF f = f1 THEN {"m5"} ELSE {"m5", "m6"}]

=============================================================================
