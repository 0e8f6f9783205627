--------------------------- MODULE EmailIngestion ---------------------------
(***************************************************************************)
(* Mail import: EmailIngestionService.sync_account run concurrently by the *)
(* import worker and by "Sync now" requests of the API server, over IMAP   *)
(* folders that keep receiving mail and one shared SQL database.           *)
(*                                                                         *)
(* A sync is one database transaction (services/email_ingestion_service.py *)
(* lines 78-135): it loads the account row, fetches a batch of messages    *)
(* above the watermark last_seen_uid, and for each message checks whether  *)
(* its Message-ID is known, persists order and shipment rows and the email *)
(* row, and commits once at the end.  Each of these is an action, so that  *)
(* two syncs interleave at every statement that reads or writes shared     *)
(* rows.  The database is PostgreSQL at READ COMMITTED (the one of         *)
(* docker-compose.yml): a session sees committed rows and its own, and an  *)
(* INSERT on a unique column waits for the session that holds the key.     *)
(*                                                                         *)
(* The primary key of an order is the message whose processing created it. *)
(***************************************************************************)
EXTENDS Integers, FiniteSets

CONSTANTS
    Worker,        \* the import worker process (worker.py)
    Requests,      \* threads of the API server running sync_mail_account
    Accounts,      \* primary keys of mail_accounts, each given out once
    Users,
    Owner,         \* Owner[a]: the user an account belongs to
    Folders,       \* IMAP folders, of all mailboxes
    FoldersOf,     \* FoldersOf[a]: the folders of the mailbox of an account
    MaxUid,        \* bound: the highest IMAP UID a folder gives out
    Limit,         \* MAX_EMAILS_PER_SYNC
    Msgs,          \* Message-IDs
    Delivers,      \* Delivers[f]: the messages that may arrive in a folder
    Poison,        \* messages parse_raw_message raises on (unknown charset)
    Content,       \* Content[m]: what the parsers find in a message
    Numbers,       \* (merchant, order_number) pairs
    Trackings,
    Carriers,
    None,
    MaxFailures    \* bound: crashes and lost connections in a behaviour

Syncers == {Worker} \cup Requests
Uids == 1 .. MaxUid

ASSUME SyncersAssumption == Worker \notin Requests
ASSUME AccountsAssumption ==
    Owner \in [Accounts -> Users] /\ FoldersOf \in [Accounts -> SUBSET Folders]
ASSUME BoundsAssumption ==
    MaxUid \in Nat /\ Limit \in Nat \ {0} /\ MaxFailures \in Nat
ASSUME MailAssumption ==
    Delivers \in [Folders -> SUBSET Msgs] /\ Poison \subseteq Msgs
ASSUME NoneAssumption ==
    /\ None \notin Msgs
    /\ None \notin Numbers
    /\ None \notin Carriers
    /\ None \notin Accounts
    /\ None \notin Folders

(***************************************************************************)
(* detect() and find_tracking_numbers(), applied to a message: a merchant  *)
(* parser matched ("order"), only a tracking number was found ("carrier"), *)
(* or nothing ("other").  A carrier mail stands for a placeholder order    *)
(* numbered by its tracking number; an order mail may have no number.      *)
(***************************************************************************)
ContentSet ==
    [kind    : {"order", "carrier", "other"},
     number  : Numbers \cup {None},
     trks    : SUBSET Trackings,
     carrier : Carriers \cup {None}]

ASSUME ContentAssumption ==
    /\ Content \in [Msgs -> ContentSet]
    /\ \A m \in Msgs :
         /\ Content[m].kind = "carrier" =>
              Content[m].number # None /\ \E t \in Trackings : Content[m].trks = {t}
         /\ Content[m].kind = "other" => Content[m].trks = {}
         /\ Content[m].trks # {} => Content[m].carrier # None

\* No merchant parser has the name of a carrier, so that a placeholder order
\* never has the merchant and number of a real one.
ASSUME PlaceholderAssumption ==
    \A m, n \in Msgs :
        Content[m].kind = "carrier" /\ Content[n].kind = "order"
        => Content[m].number # Content[n].number

VARIABLES
    \* the IMAP servers
    mail,          \* mail[f][u]: the message with UID u, or None
    \* committed rows
    created,       \* primary keys given out so far
    exists,        \* rows of mail_accounts
    folder,        \* mail_accounts.folder
    lastSeen,      \* mail_accounts.last_seen_uid
    emails,        \* message_ids of the emails table
    orders,        \* rows of the orders table
    shipments,     \* rows of the shipments table
    carriers,      \* names in the carriers table
    \* one sync per syncer: locals of sync_account and the open transaction
    pc,
    acct,          \* the account being synced
    src,           \* the folder its mailbox session opened
    since,         \* last_seen_uid as loaded from the row
    seen,          \* last_seen_uid of the in-memory account
    batch,         \* UIDs fetch_since returned
    todo,          \* the ones the loop has not finished
    order,         \* the order of the message in hand
    newEmails,     \* uncommitted emails
    rows,          \* uncommitted orders, shipments, carriers, status updates
    \* outcomes
    announced,     \* orders a new_confirmation notification was sent for
    failures,      \* failures so far
    \* history variables of the properties, never read by an action
    switched,      \* accounts whose folder was changed after creation
    there          \* UIDs in the folder when the batch was fetched

mailVars == <<mail>>
accountVars == <<created, exists, folder, lastSeen, switched>>
tableVars == <<emails, orders, shipments, carriers>>
sessionVars == <<pc, acct, src, since, seen, batch, todo, order, newEmails, rows, there>>
outcomeVars == <<announced, failures>>
vars == <<mailVars, accountVars, tableVars, sessionVars, outcomeVars>>

OrderRow ==
    [id : Msgs, user : Users, number : Numbers \cup {None},
     status : {"CONFIRMED", "SHIPPED"},
     via : Syncers]   \* history: who created it
ShipmentRow == [order : Msgs, trk : Trackings, by : Msgs]

RowsType ==
    [orders : SUBSET OrderRow, shipped : SUBSET Msgs,
     shipments : SUBSET ShipmentRow, carriers : SUBSET Carriers]

EmptyRows == [orders |-> {}, shipped |-> {}, shipments |-> {}, carriers |-> {}]

Init ==
    /\ mail = [f \in Folders |-> [u \in Uids |-> None]]
    /\ created = {} /\ exists = {}
    /\ folder = [a \in Accounts |-> None]
    /\ lastSeen = [a \in Accounts |-> 0]
    /\ switched = [a \in Accounts |-> FALSE]
    /\ emails = {} /\ orders = {} /\ shipments = {} /\ carriers = {}
    /\ pc = [s \in Syncers |-> "idle"]
    /\ acct = [s \in Syncers |-> None]
    /\ src = [s \in Syncers |-> None]
    /\ since = [s \in Syncers |-> 0]
    /\ seen = [s \in Syncers |-> 0]
    /\ batch = [s \in Syncers |-> {}]
    /\ todo = [s \in Syncers |-> {}]
    /\ order = [s \in Syncers |-> None]
    /\ newEmails = [s \in Syncers |-> {}]
    /\ rows = [s \in Syncers |-> EmptyRows]
    /\ there = [s \in Syncers |-> {}]
    /\ announced = {}
    /\ failures = 0

-----------------------------------------------------------------------------
(* The mailboxes and the account endpoints.                                *)

Present(f) == {u \in Uids : mail[f][u] # None}

\* A message arrives; IMAP gives out UIDs in increasing order, with gaps.
Arrive(f, m, u) ==
    /\ m \in Delivers[f]
    /\ \A w \in Present(f) : w < u
    /\ mail' = [mail EXCEPT ![f][u] = m]
    /\ UNCHANGED <<accountVars, tableVars, sessionVars, outcomeVars>>

\* MailAccountService.create_account: a new row under a new primary key.
CreateAccount(a, f) ==
    /\ a \notin created
    /\ f \in FoldersOf[a]
    /\ created' = created \cup {a}
    /\ exists' = exists \cup {a}
    /\ folder' = [folder EXCEPT ![a] = f]
    /\ UNCHANGED <<mailVars, lastSeen, switched, tableVars, sessionVars, outcomeVars>>

\* MailAccountService.update_account with a new folder: last_seen_uid stays.
UpdateAccount(a, f) ==
    /\ a \in exists
    /\ f \in FoldersOf[a] \ {folder[a]}
    /\ folder' = [folder EXCEPT ![a] = f]
    /\ switched' = [switched EXCEPT ![a] = TRUE]
    /\ UNCHANGED <<mailVars, created, exists, lastSeen, tableVars, sessionVars, outcomeVars>>

\* MailAccountService.delete_account: the row goes, emails and orders stay.
DeleteAccount(a) ==
    /\ a \in exists
    /\ exists' = exists \ {a}
    /\ folder' = [folder EXCEPT ![a] = None]
    /\ lastSeen' = [lastSeen EXCEPT ![a] = 0]
    /\ switched' = [switched EXCEPT ![a] = FALSE]
    /\ UNCHANGED <<mailVars, created, tableVars, sessionVars, outcomeVars>>

-----------------------------------------------------------------------------
(* sync_account.                                                           *)

SmallestUid(S) == CHOOSE u \in S : \A w \in S : u <= w

\* The uid and the message the loop of sync_account is at.
CurrentUid(s) == SmallestUid(todo[s])
Current(s) == mail[src[s]][CurrentUid(s)]

\* End of a sync: the session is closed or reused with nothing pending.
EndSync(s) ==
    /\ pc' = [pc EXCEPT ![s] = "idle"]
    /\ acct' = [acct EXCEPT ![s] = None]
    /\ src' = [src EXCEPT ![s] = None]
    /\ since' = [since EXCEPT ![s] = 0]
    /\ seen' = [seen EXCEPT ![s] = 0]
    /\ batch' = [batch EXCEPT ![s] = {}]
    /\ todo' = [todo EXCEPT ![s] = {}]
    /\ order' = [order EXCEPT ![s] = None]
    /\ newEmails' = [newEmails EXCEPT ![s] = {}]
    /\ rows' = [rows EXCEPT ![s] = EmptyRows]
    /\ there' = [there EXCEPT ![s] = {}]

\* Mutant: the watermark was stored outside the transaction.
RollbackKeepsWatermark(s) ==
    /\ EndSync(s)
    /\ lastSeen' = [lastSeen EXCEPT ![acct[s]] = IF acct[s] \in exists THEN seen[s] ELSE @]
    /\ UNCHANGED <<mailVars, created, exists, folder, switched, tableVars, outcomeVars>>

\* An exception leaves sync_account; its transaction is rolled back.
Rollback(s) ==
    /\ EndSync(s)
    /\ UNCHANGED <<mailVars, accountVars, tableVars, outcomeVars>>

\* The account row is loaded (and its folder and watermark with it).
Begin(s, a) ==
    /\ pc[s] = "idle"
    /\ a \in exists
    /\ pc' = [pc EXCEPT ![s] = "fetch"]
    /\ acct' = [acct EXCEPT ![s] = a]
    /\ src' = [src EXCEPT ![s] = folder[a]]
    /\ since' = [since EXCEPT ![s] = lastSeen[a]]
    /\ seen' = [seen EXCEPT ![s] = lastSeen[a]]
    /\ UNCHANGED <<mailVars, accountVars, tableVars, batch, todo, order,
                   newEmails, rows, there, outcomeVars>>

\* Mutant: the UIDs are not sorted oldest first before the cut.
Newest(S, n) == {u \in S : Cardinality({w \in S : w > u}) < n}

\* The n smallest elements of a set of UIDs: sorted(uids)[:limit].
Oldest(S, n) == {u \in S : Cardinality({w \in S : w < u}) < n}

\* What fetch_since(uid, limit) returns for a folder.
FetchSince(f, uid) == Oldest({u \in Present(f) : u > uid}, Limit)

\* mailbox.fetch_since; parse_raw_message runs on every message of the batch
\* and an exception from one of them fails the whole sync.
Fetch(s) ==
    LET fetched == FetchSince(src[s], since[s]) IN
    /\ pc[s] = "fetch"
    /\ \A u \in fetched : mail[src[s]][u] \notin Poison
    /\ pc' = [pc EXCEPT ![s] = "check"]
    /\ batch' = [batch EXCEPT ![s] = fetched]
    /\ todo' = [todo EXCEPT ![s] = fetched]
    /\ there' = [there EXCEPT ![s] = Present(src[s])]
    /\ UNCHANGED <<mailVars, accountVars, tableVars, acct, src, since, seen, order,
                   newEmails, rows, outcomeVars>>

FetchRaises(s) ==
    /\ pc[s] = "fetch"
    /\ \E u \in FetchSince(src[s], since[s]) : mail[src[s]][u] \in Poison
    /\ Rollback(s)

\* Mutant: a known message ends the loop.
CheckBreaks(s) ==
    LET known == Current(s) \in emails \cup newEmails[s]
    IN
    /\ pc[s] = "check"
    /\ todo[s] # {}
    /\ todo' = [todo EXCEPT ![s] = IF known THEN {} ELSE @]
    /\ pc' = [pc EXCEPT ![s] =
                CASE known -> "check"
                  [] ~known /\ Content[Current(s)].kind = "other" -> "email"
                  [] ~known /\ Content[Current(s)].kind # "other" -> "order"]
    /\ order' = [order EXCEPT ![s] = None]
    /\ UNCHANGED <<mailVars, accountVars, tableVars, acct, src, since, seen, batch,
                   newEmails, rows, there, outcomeVars>>

\* emails.get_by_message_id: a known message is skipped, and the watermark
\* is not moved for it.
Check(s) ==
    LET known == Current(s) \in emails \cup newEmails[s]
    IN
    /\ pc[s] = "check"
    /\ todo[s] # {}
    /\ todo' = [todo EXCEPT ![s] = IF known THEN @ \ {CurrentUid(s)} ELSE @]
    /\ pc' = [pc EXCEPT ![s] =
                CASE known -> "check"
                  [] ~known /\ Content[Current(s)].kind = "other" -> "email"
                  [] ~known /\ Content[Current(s)].kind # "other" -> "order"]
    /\ order' = [order EXCEPT ![s] = None]
    /\ UNCHANGED <<mailVars, accountVars, tableVars, acct, src, since, seen, batch,
                   newEmails, rows, there, outcomeVars>>

\* Mutant: the look-up does not see what the transaction has added.
FoundCommitted(s, m) ==
    {o \in orders :
        /\ Content[m].number # None
        /\ o.user = Owner[acct[s]]
        /\ o.number = Content[m].number}

\* orders.get_by_merchant_and_number: only an order with a number is looked up.
FoundOrders(s, m) ==
    {o \in orders \cup rows[s].orders :
        /\ Content[m].number # None
        /\ o.user = Owner[acct[s]]
        /\ o.number = Content[m].number}

\* An order mail with tracking numbers moves its order to SHIPPED.
Ships(m) == Content[m].kind = "order" /\ Content[m].trks # {}

\* Order lookup of _persist_parsed_order and _persist_carrier_only_shipment:
\* an order is found, and only CONFIRMED is advanced ...
FindOrder(s) ==
    LET m == Current(s) IN
    /\ pc[s] = "order"
    /\ \E o \in FoundOrders(s, m) :
         /\ order' = [order EXCEPT ![s] = o.id]
         /\ rows' = [rows EXCEPT ![s].shipped =
                       IF Ships(m) /\ o.status = "CONFIRMED" THEN @ \cup {o.id} ELSE @]
    /\ pc' = [pc EXCEPT ![s] = "ship"]
    /\ UNCHANGED <<mailVars, accountVars, tableVars, acct, src, since, seen, batch, todo,
                   newEmails, there, outcomeVars>>

\* Mutant: an order without a number is not announced.
NotifiedIfNumbered(s, m) == IF s = Worker /\ Content[m].number # None THEN {m} ELSE {}

\* The dispatcher is the worker's; sync_mail_account has none.
Notified(s, m) == IF s = Worker THEN {m} ELSE {}

\* ... or one is added, and announced at once when there is a dispatcher.
AddOrder(s) ==
    LET m == Current(s)
        new == [id |-> m, user |-> Owner[acct[s]], number |-> Content[m].number,
                status |-> IF Content[m].kind = "carrier" THEN "SHIPPED" ELSE "CONFIRMED",
                via |-> s]
    IN
    /\ pc[s] = "order"
    /\ FoundOrders(s, m) = {}
    /\ order' = [order EXCEPT ![s] = m]
    /\ rows' = [rows EXCEPT ![s].orders = @ \cup {new},
                            ![s].shipped = IF Ships(m) THEN @ \cup {m} ELSE @]
    /\ announced' = announced \cup Notified(s, m)
    /\ pc' = [pc EXCEPT ![s] = "ship"]
    /\ UNCHANGED <<mailVars, accountVars, tableVars, acct, src, since, seen, batch, todo,
                   newEmails, there, failures>>

\* Mutant: a tracking number known in any order counts.
MissingAnywhere(s) ==
    {t \in Content[Current(s)].trks :
        ~ \E r \in shipments \cup rows[s].shipments : r.trk = t}

\* Tracking numbers of the message without a shipment row in its order.
Missing(s) ==
    {t \in Content[Current(s)].trks :
        ~ \E r \in shipments \cup rows[s].shipments : r.order = order[s] /\ r.trk = t}

\* _persist_shipments: add the missing shipments, once the carrier is there.
AddShipments(s) ==
    LET m == Current(s) IN
    /\ pc[s] = "ship"
    /\ \/ Missing(s) = {}
       \/ Content[m].carrier \in carriers \cup rows[s].carriers
    /\ rows' = [rows EXCEPT ![s].shipments = @ \cup
                  {[order |-> order[s], trk |-> t, by |-> m] : t \in Missing(s)}]
    /\ pc' = [pc EXCEPT ![s] = "email"]
    /\ UNCHANGED <<mailVars, accountVars, tableVars, acct, src, since, seen, batch, todo,
                   order, newEmails, there, outcomeVars>>

\* _get_or_create_carrier does not find the carrier ...
CarrierAbsent(s) ==
    /\ pc[s] = "ship"
    /\ Missing(s) # {}
    /\ Content[Current(s)].carrier \notin carriers \cup rows[s].carriers
    /\ pc' = [pc EXCEPT ![s] = "carrier"]
    /\ UNCHANGED <<mailVars, accountVars, tableVars, acct, src, since, seen, batch, todo,
                   order, newEmails, rows, there, outcomeVars>>

\* ... and inserts it: carriers.name is unique, so the INSERT waits for a
\* session that holds the name and fails if it was committed meanwhile.
AddCarrier(s) ==
    LET c == Content[Current(s)].carrier IN
    /\ pc[s] = "carrier"
    /\ \A t \in Syncers \ {s} : c \notin rows[t].carriers
    /\ c \notin carriers
    /\ rows' = [rows EXCEPT ![s].carriers = @ \cup {c}]
    /\ pc' = [pc EXCEPT ![s] = "ship"]
    /\ UNCHANGED <<mailVars, accountVars, tableVars, acct, src, since, seen, batch, todo,
                   order, newEmails, there, outcomeVars>>

CarrierConflict(s) ==
    /\ pc[s] = "carrier"
    /\ Content[Current(s)].carrier \in carriers
    /\ Rollback(s)

\* Mutant: the next UID is stored instead of the last.
AdvancePastNext(uid, u) == IF u >= uid THEN u + 1 ELSE uid

\* The watermark after a message: max(last_seen_uid, uid).
Advance(uid, u) == IF u > uid THEN u ELSE uid

\* emails.add, then the watermark of the in-memory account moves.
AddEmail(s) ==
    LET m == Current(s)
        u == CurrentUid(s)
    IN
    /\ pc[s] = "email"
    /\ \A t \in Syncers \ {s} : m \notin newEmails[t]
    /\ m \notin emails
    /\ newEmails' = [newEmails EXCEPT ![s] = @ \cup {m}]
    /\ seen' = [seen EXCEPT ![s] = Advance(@, u)]
    /\ todo' = [todo EXCEPT ![s] = @ \ {u}]
    /\ pc' = [pc EXCEPT ![s] = "check"]
    /\ UNCHANGED <<mailVars, accountVars, tableVars, acct, src, since, batch, order, rows,
                   there, outcomeVars>>

\* emails.message_id is unique: the flush fails on a message that another
\* sync committed after the check.
EmailConflict(s) ==
    /\ pc[s] = "email"
    /\ Current(s) \in emails
    /\ Rollback(s)

\* Mutant: the comparison is off by one.
TruncatedBeyond(s) == Cardinality(batch[s]) > Limit

\* MailAccountSyncResult.truncated
Truncated(s) == Cardinality(batch[s]) = Limit

\* Mutant: the column is written whether or not the sync changed it.
StoredBlindly(s) == seen[s]

\* The value the UPDATE of the commit leaves in last_seen_uid: SQLAlchemy
\* writes the column only when the in-memory value differs from the loaded one.
StoredUid(s) == IF seen[s] # since[s] THEN seen[s] ELSE lastSeen[acct[s]]

\* The commit: every row of the transaction becomes visible at once.
Commit(s) ==
    /\ pc[s] = "check"
    /\ todo[s] = {}
    /\ acct[s] \in exists
    /\ lastSeen' = [lastSeen EXCEPT ![acct[s]] = StoredUid(s)]
    /\ emails' = emails \cup newEmails[s]
    /\ orders' = {[o EXCEPT !.status = IF o.id \in rows[s].shipped THEN "SHIPPED" ELSE @] :
                    o \in orders \cup rows[s].orders}
    /\ shipments' = shipments \cup rows[s].shipments
    /\ carriers' = carriers \cup rows[s].carriers
    /\ EndSync(s)
    /\ UNCHANGED <<mailVars, created, exists, folder, switched, outcomeVars>>

\* The account was deleted meanwhile: the UPDATE matches no row and the
\* flush raises StaleDataError.
CommitStale(s) ==
    /\ pc[s] = "check"
    /\ todo[s] = {}
    /\ acct[s] \notin exists
    /\ Rollback(s)

-----------------------------------------------------------------------------
(* Failures.                                                               *)

\* s waits for a unique key that t has inserted and not yet committed.
WaitsFor(s, t) ==
    /\ s # t
    /\ \/ pc[s] = "email" /\ Current(s) \in newEmails[t]
       \/ pc[s] = "carrier" /\ Content[Current(s)].carrier \in rows[t].carriers

\* The database aborts a transaction on a cycle of waits.
DeadlockVictim(s) ==
    /\ \E S \in SUBSET Syncers :
         /\ s \in S
         /\ \A x \in S : \E y \in S : WaitsFor(x, y)
         /\ \A x \in S : \E y \in S : WaitsFor(y, x)
    /\ Rollback(s)

\* A lost IMAP or database connection, or a crash of the process (docker
\* restarts it), at any point of a sync.
Fail(s) ==
    /\ pc[s] # "idle"
    /\ failures < MaxFailures
    /\ failures' = failures + 1
    /\ EndSync(s)
    /\ UNCHANGED <<mailVars, accountVars, tableVars, announced>>

-----------------------------------------------------------------------------
Step(s) ==
    \/ Fetch(s) \/ FetchRaises(s)
    \/ Check(s)
    \/ FindOrder(s) \/ AddOrder(s)
    \/ AddShipments(s) \/ CarrierAbsent(s) \/ AddCarrier(s) \/ CarrierConflict(s)
    \/ AddEmail(s) \/ EmailConflict(s)
    \/ Commit(s) \/ CommitStale(s)
    \/ DeadlockVictim(s)

Next ==
    \/ \E f \in Folders, m \in Msgs, u \in Uids : Arrive(f, m, u)
    \/ \E a \in Accounts, f \in Folders : CreateAccount(a, f)
    \/ \E a \in Accounts, f \in Folders : UpdateAccount(a, f)
    \/ \E a \in Accounts : DeleteAccount(a)
    \/ \E s \in Syncers, a \in Accounts : Begin(s, a)
    \/ \E s \in Syncers : Step(s) \/ Fail(s)

Spec == Init /\ [][Next]_vars

(***************************************************************************)
(* Every started sync goes on (a process and a request thread run until    *)
(* they end; strong fairness, because an INSERT that waits for a key is    *)
(* served by the database's lock queue even if the key is taken again and  *)
(* again), and the worker's endless loop over list_active() comes back to  *)
(* every account.  Nobody is obliged to press "Sync now".                  *)
(***************************************************************************)
Fairness ==
    /\ \A s \in Syncers : SF_vars(Step(s))
    /\ \A a \in Accounts : SF_vars(Begin(Worker, a))

FairSpec == Spec /\ Fairness

-----------------------------------------------------------------------------
(* Properties.                                                             *)

PCs == {"idle", "fetch", "check", "order", "ship", "carrier", "email"}

\* Every variable has its type, and a sync that is not idle has its account
\* and folder.
TypeOK ==
    /\ mail \in [Folders -> [Uids -> Msgs \cup {None}]]
    /\ created \subseteq Accounts /\ exists \subseteq created
    /\ folder \in [Accounts -> Folders \cup {None}]
    /\ \A a \in exists : folder[a] \in Folders
    /\ lastSeen \in [Accounts -> 0 .. MaxUid]
    /\ switched \in [Accounts -> BOOLEAN]
    /\ emails \subseteq Msgs
    /\ orders \subseteq OrderRow
    /\ shipments \subseteq ShipmentRow
    /\ carriers \subseteq Carriers
    /\ pc \in [Syncers -> PCs]
    /\ acct \in [Syncers -> Accounts \cup {None}]
    /\ src \in [Syncers -> Folders \cup {None}]
    /\ \A s \in Syncers : pc[s] # "idle" => acct[s] \in Accounts /\ src[s] \in Folders
    /\ since \in [Syncers -> 0 .. MaxUid]
    /\ seen \in [Syncers -> 0 .. MaxUid]
    /\ batch \in [Syncers -> SUBSET Uids]
    /\ todo \in [Syncers -> SUBSET Uids]
    /\ order \in [Syncers -> Msgs \cup {None}]
    /\ newEmails \in [Syncers -> SUBSET Msgs]
    /\ rows \in [Syncers -> RowsType]
    /\ there \in [Syncers -> SUBSET Uids]
    /\ announced \subseteq Msgs
    /\ failures \in 0 .. MaxFailures

\* No mail is skipped: whatever syncs ran, raced, failed or were rolled back,
\* a message at or below an account's last_seen_uid is in the emails table,
\* unless the account's folder was changed (fetch_since will never return it
\* again).
WatermarkSafe ==
    \A a \in exists : ~switched[a] =>
        \A u \in Present(folder[a]) : u <= lastSeen[a] => mail[folder[a]][u] \in emails

\* last_seen_uid of an account never goes back, although every sync writes a
\* value it computed from a row it read earlier (unless the folder changed).
WatermarkMonotone ==
    [][\A a \in exists \cap exists' :
          ~switched[a] => lastSeen'[a] >= lastSeen[a]]_vars

\* An email row is never committed without the rows its content stands for:
\* an order with its number, and in one such order a shipment for every
\* tracking number.
RecordedIsPersisted ==
    \A m \in emails : Content[m].kind # "other" =>
        \E o \in orders :
            /\ IF Content[m].number = None THEN o.id = m
                                           ELSE o.number = Content[m].number
            /\ Content[m].trks # {} => o.status = "SHIPPED"
            /\ \A t \in Content[m].trks :
                 \E r \in shipments : r.order = o.id /\ r.trk = t

\* A sync that returns truncated = False leaves the mailbox caught up: all
\* that was in the folder when it fetched is in the emails table.
CaughtUp ==
    [][\A s \in Syncers :
          Commit(s) /\ ~Truncated(s) /\ ~switched[acct[s]]
          => \A u \in there[s] : mail[src[s]][u] \in emails']_vars

\* An order the worker imported was announced: the notification is sent
\* before the commit, so no crash leaves a visible order unannounced.
ImportedIsAnnounced ==
    \A o \in orders : o.via = Worker => o.id \in announced

\* What a reader of the tables sees of the imports.
Imported == INSTANCE ImportedMail

\* sync_account keeps the promise of ImportedMail: however the syncs of several
\* mailboxes and users interleave and fail, each commit enters its mails wholly,
\* for the user of the mailbox and for the first time.
ImplementsImportedMail == Imported!Spec

Unrecorded(f, u) == mail[f][u] # None /\ mail[f][u] \notin emails

\* A message within the first Limit messages above the watermark is recorded
\* in the end, whatever the other syncs do, unless the account is deleted or
\* pointed to another folder.
BatchProgress ==
    \A a \in Accounts, u \in Uids :
        (/\ a \in exists /\ ~switched[a]
         /\ u \in FetchSince(folder[a], lastSeen[a]) /\ Unrecorded(folder[a], u))
        ~> (a \notin exists \/ switched[a] \/ ~Unrecorded(folder[a], u))

-----------------------------------------------------------------------------
(* What the repository says of this code and the code does not keep: each  *)
(* is refuted by a run.                                                    *)

\* email_ingestion_service.py:41-43, "repeated syncs make steady progress
\* through a large backlog instead of re-fetching the same batch": every
\* message of an account's folder above the watermark is recorded in the end.
SteadyProgress ==
    \A a \in Accounts, u \in Uids :
        (/\ a \in exists /\ ~switched[a] /\ u > lastSeen[a]
         /\ Unrecorded(folder[a], u))
        ~> (a \notin exists \/ switched[a] \/ ~Unrecorded(folder[a], u))

\* docs/mailboxes.md:229-238: a changed folder looks like a first-ever sync,
\* and a sync that is not truncated leaves the mailbox "fully caught up".
CaughtUpAfterFolderChange ==
    [][\A s \in Syncers :
          Commit(s) /\ ~Truncated(s) /\ src[s] = folder[acct[s]]
          => \A u \in there[s] : mail[src[s]][u] \in emails']_vars

=============================================================================
