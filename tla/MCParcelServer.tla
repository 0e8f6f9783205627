--------------------------- MODULE MCParcelServer ---------------------------
(* Instances of ParcelServer for TLC.                                      *)
EXTENDS ParcelServer

CONSTANTS ann, bob, o1, o2, o3, s1, s2, a1, a2

MCOwnerOf == [o \in Orders |-> IF o = o2 THEN bob ELSE ann]
MCOrderOf == [s \in Shipments |-> IF s = s1 THEN o1 ELSE o2]
MCAuthType == [a \in Mailboxes |-> IF a = a1 THEN "oauth_microsoft" ELSE "password"]

Nothing == [imported |-> {}, entries |-> {}, tracking |-> FALSE, polled |-> {},
            driver |-> "postgresql", unsortable |-> {}, unreadable |-> {},
            unstorable |-> {}, days |-> 0, writes |-> 0, faults |-> 0]

(* Home Assistant with one account while users write, also with a request  *)
(* that fails, with two accounts, and with a bad connection over midnight; *)
(* the tracking worker, also with a crash or a lost message, and with a    *)
(* shipment whose events do not sort; the import worker with one mailbox,  *)
(* with two, and with a mail in one of them that cannot be read or stored. *)
OneEntry == [Nothing EXCEPT !.imported = {o1}, !.entries = {ann}, !.writes = 2]
OneEntryFails == [OneEntry EXCEPT !.writes = 1, !.faults = 1]
TwoEntries == [Nothing EXCEPT !.entries = {ann, bob}]
Flaky == [Nothing EXCEPT !.imported = {o1}, !.entries = {ann}, !.days = 1, !.faults = 2]
Publishing == [Nothing EXCEPT !.imported = {o1}, !.tracking = TRUE, !.days = 1, !.writes = 2]
PublishingFails == [Publishing EXCEPT !.writes = 1, !.faults = 1]
Unsorted == [Publishing EXCEPT !.unsortable = {s1}, !.days = 0, !.writes = 1, !.faults = 1]
OneMailbox == [Nothing EXCEPT !.polled = {a1}, !.writes = 2, !.faults = 1]
TwoMailboxes == [Nothing EXCEPT !.polled = {a1, a2}, !.writes = 1, !.faults = 1]
Unreadable == [Nothing EXCEPT !.polled = {a1, a2}, !.unreadable = {a2}, !.writes = 1]
Unstorable == [Nothing EXCEPT !.polled = {a1, a2}, !.unstorable = {a1}, !.faults = 1]

Sqlite == [Nothing EXCEPT !.polled = {a1, a2}, !.driver = "sqlite"]

MCDeployments == {OneEntry, OneEntryFails, TwoEntries, Flaky, Publishing, PublishingFails, Unsorted,
                  OneMailbox, TwoMailboxes, Unreadable, Unstorable, Sqlite}
DefaultDriver == {Sqlite}
=============================================================================
