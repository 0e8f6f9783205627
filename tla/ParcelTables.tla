---------------------------- MODULE ParcelTables ----------------------------
(***************************************************************************)
(* Orders and shipments as the rest of the household sees them: who writes *)
(* them (the API, the importer, the tracking refresh), and the statements  *)
(* by which the dashboard, the statistics, the order list and the MQTT     *)
(* sensors count them.                                                     *)
(*                                                                         *)
(* Every write below is one committed transaction.  A summary is several   *)
(* SELECTs at READ COMMITTED (on SQLite without a transaction at all), so  *)
(* each of them sees the tables of its own moment: a reader is a program   *)
(* of statements with other sessions' commits in between.                  *)
(***************************************************************************)
EXTENDS Integers, Sequences, FiniteSets

CONSTANTS
    Users,
    Orders, OwnerOf,      \* primary keys of orders, and whose they are
    Shipments, OrderOf,   \* primary keys of shipments, and of which order
    NewStatuses,          \* statuses that users and carriers report
    Mailboxes,            \* mail accounts
    Limit,                \* orders on a page of GET /orders
    Mqtt,                 \* the reader behind the MQTT sensors
    None,
    MaxDay,               \* the last date
    Deployments           \* which parts are in use, with bounds (see Deployment)

Readers == Users \cup {Mqtt}
Days == 0 .. MaxDay
Statuses == {"unknown", "label_created", "in_transit", "out_for_delivery",
             "delivered", "delayed", "exception", "returned"}
TERMINAL_STATUSES == {"delivered", "returned"}

(***************************************************************************)
(* The workers and the Home Assistant integration are optional.            *)
(* imported: the orders imported before; entries: the accounts added to    *)
(* Home Assistant; polled: the mail accounts of the import worker; driver: *)
(* database.driver of config.yaml; unsortable: shipments whose events the  *)
(* provider sends so that every sync raises (TrackingSync!Unsortable);     *)
(* unreadable, unstorable: mailboxes with a mail that cannot be parsed or  *)
(* whose flush fails, in every sync; days, writes, faults: bounds of the   *)
(* midnights, of the commits by users and of what else may go wrong.       *)
(***************************************************************************)
Deployment == [imported : SUBSET Orders, entries : SUBSET Users, tracking : BOOLEAN,
               polled : SUBSET Mailboxes, driver : {"postgresql", "sqlite"},
               unsortable : SUBSET Shipments, unreadable : SUBSET Mailboxes,
               unstorable : SUBSET Mailboxes, days : Days, writes : Nat, faults : Nat]

ASSUME KeysAssumption ==
    OwnerOf \in [Orders -> Users] /\ OrderOf \in [Shipments -> Orders] /\ Mqtt \notin Users
ASSUME NoneAssumption == None \notin Int \cup Users \cup Orders
ASSUME StatusAssumption == NewStatuses \subseteq Statuses
ASSUME LimitAssumption == Limit \in Nat \ {0} /\ MaxDay \in Nat
ASSUME DeploymentsAssumption == Deployments \subseteq Deployment

VARIABLES
    deployed,         \* the parts in use
    today,            \* the calendar
    order,            \* state of each order
    rows,             \* rows of shipments
    ship,             \* their columns
    read,             \* one reader per summary in the making
    writes, faults

tableVars == <<today, order, rows, ship>>
parcelVars == <<deployed, tableVars, read, writes, faults>>

OrderState == {"none", "open", "archived", "deleted"}
Present == {"open", "archived"}

\* delayed: the history has a DELAYED event.
Ship == [status : Statuses, est : Days \cup {None}, delivered : Days \cup {None},
         delayed : BOOLEAN]
Fields == {"status", "est", "delivered"}
NewShip == [status |-> "unknown", est |-> None, delivered |-> None, delayed |-> FALSE]

\* The statements of the summaries; each counts the rows it selects.
DashboardStatements == {"in_transit", "out_for_delivery", "delayed", "delivered_today",
                        "expected_tomorrow", "label_created"}
StatisticsStatements == {"dated", "delivered", "returned", "total", "ever_delayed"}
Statements == DashboardStatements \cup StatisticsStatements

(***************************************************************************)
(* at: the next step of the reader's program, 0 when it is idle; day: what *)
(* date.today() gave; rows: what each statement selected; page: orders of  *)
(* the list whose shipments are not loaded yet; next, last: soonest and    *)
(* latest date so far; changed: the shipments committed since it began     *)
(* (history, read by properties only).                                     *)
(***************************************************************************)
Reader == [at : Nat, day : Days, rows : [Statements -> SUBSET Shipments],
           page : SUBSET Orders, next : Days \cup {None}, last : Days \cup {None},
           changed : SUBSET Shipments]

Idle == [at |-> 0, day |-> 0, rows |-> [q \in Statements |-> {}], page |-> {},
         next |-> None, last |-> None, changed |-> {}]

TablesTypeOK ==
    /\ deployed \in Deployments /\ today \in Days
    /\ order \in [Orders -> OrderState]
    /\ rows \subseteq Shipments /\ ship \in [Shipments -> Ship]
    /\ read \in [Readers -> Reader]
    /\ writes \in Nat /\ faults \in Nat

TablesInit ==
    /\ deployed \in Deployments
    /\ today = 0
    /\ order = [o \in Orders |-> IF o \in deployed.imported THEN "open" ELSE "none"]
    /\ rows = {s \in Shipments : OrderOf[s] \in deployed.imported}
    /\ ship = [s \in Shipments |->
                 IF s \in rows THEN [NewShip EXCEPT !.status = "label_created"] ELSE NewShip]
    /\ read = [r \in Readers |-> Idle]
    /\ writes = 0 /\ faults = 0

-----------------------------------------------------------------------------
(* Writers.                                                                *)

\* The commit is seen by every later statement of the readers under way.
Changes(S) ==
    read' = [r \in Readers |->
               IF read[r].at = 0 THEN read[r] ELSE [read[r] EXCEPT !.changed = @ \cup S]]

\* A commit on behalf of a user, counted by the bound.
ByUser == writes < deployed.writes /\ writes' = writes + 1 /\ UNCHANGED <<deployed, faults>>

\* Something goes wrong: counted by the bound, unless it is certain to.
Fault(certain) ==
    IF certain THEN UNCHANGED faults ELSE faults < deployed.faults /\ faults' = faults + 1

\* OrderService.create_order
create_order(o) ==
    /\ order[o] = "none"
    /\ order' = [order EXCEPT ![o] = "open"]
    /\ Changes({})
    /\ UNCHANGED <<today, rows, ship>>

\* ShipmentService.create_shipment, of any user for any order (without an order
\* it would be in no user's counts).  A shipment created as DELAYED has no event
\* of it.
create_shipment(s, st, e, d) ==
    /\ order[OrderOf[s]] \in Present
    /\ s \notin rows
    /\ rows' = rows \cup {s}
    /\ ship' = [ship EXCEPT ![s] = [status |-> st, est |-> e, delivered |-> d, delayed |-> FALSE]]
    /\ Changes({s})
    /\ UNCHANGED <<today, order>>

\* ShipmentService.update_status with the fields F of the request; a status gets
\* an event in the history.
update_status(s, F, st, e, d) ==
    /\ s \in rows
    /\ ship' = [ship EXCEPT ![s] =
                  [status |-> IF "status" \in F THEN st ELSE ship[s].status,
                   est |-> IF "est" \in F THEN e ELSE ship[s].est,
                   delivered |-> IF "delivered" \in F THEN d ELSE ship[s].delivered,
                   delayed |-> ship[s].delayed \/ ("status" \in F /\ st = "delayed")]]
    /\ Changes({s})
    /\ UNCHANGED <<today, order, rows>>

\* Mutant: the carrier's own word is stored.
sync_shipment_unmapped(s) ==
    /\ s \in rows
    /\ ship' = [ship EXCEPT ![s].status = "pending"]
    /\ Changes({s})
    /\ UNCHANGED <<today, order, rows>>

\* The commit of TrackingSyncService.sync_shipment (module TrackingSync), which
\* adds events with the statuses N.  Only columns that differ from the session's
\* copy are written, and the copy may be older than the row: so the status is
\* that of one of the events or stays, and the date may change if one of them is
\* a delivery.  Any status may be reported here, also those that no table of
\* TrackingProviders has.
sync_shipment(s) ==
    /\ s \in rows
    /\ \E N \in SUBSET NewStatuses :
         \E st \in {ship[s].status} \cup N,
            d \in {ship[s].delivered} \cup {t \in Days : "delivered" \in N} :
           ship' = [ship EXCEPT ![s] =
                      [status |-> st, est |-> ship[s].est, delivered |-> d,
                       delayed |-> ship[s].delayed \/ "delayed" \in N]]
    /\ Changes({s})
    /\ UNCHANGED <<today, order, rows>>

\* OrderService.set_archived for user u.
set_archived(u, o, b) ==
    /\ order[o] \in Present /\ OwnerOf[o] = u
    /\ order' = [order EXCEPT ![o] = IF b THEN "archived" ELSE "open"]
    /\ Changes({s \in rows : OrderOf[s] = o})
    /\ UNCHANGED <<today, rows, ship>>

\* OrderService.delete_order; the shipments and their history go with it.
delete_order(o) ==
    /\ order[o] \in Present
    /\ order' = [order EXCEPT ![o] = "deleted"]
    /\ rows' = {s \in rows : OrderOf[s] # o}
    /\ ship' = [s \in Shipments |-> IF OrderOf[s] = o THEN NewShip ELSE ship[s]]
    /\ Changes({s \in rows : OrderOf[s] = o})
    /\ UNCHANGED today

\* The commit of EmailIngestionService.sync_account (module EmailIngestion) for a
\* mailbox of u: the orders, new or known, and the shipments of them that a batch
\* of mails tells of.
import_mail(u, O, S) ==
    /\ \A o \in O : OwnerOf[o] = u /\ order[o] \in {"none"} \cup Present
    /\ S \subseteq {s \in Shipments \ rows : OrderOf[s] \in O}
    /\ order' = [o \in Orders |-> IF o \in O /\ order[o] = "none" THEN "open" ELSE order[o]]
    /\ rows' = rows \cup S
    /\ ship' = [s \in Shipments |->
                  IF s \in S THEN [NewShip EXCEPT !.status = "label_created"] ELSE ship[s]]
    /\ Changes(S)
    /\ UNCHANGED today

Midnight ==
    /\ today < deployed.days
    /\ today' = today + 1
    /\ UNCHANGED <<deployed, order, rows, ship, read, writes, faults>>

\* The requests of users; a tracking refresh can be one of them.
UserStep ==
    /\ ByUser
    /\ \/ \E o \in Orders : \/ create_order(o) \/ delete_order(o)
                            \/ \E b \in BOOLEAN : set_archived(OwnerOf[o], o, b)
       \/ \E s \in Shipments :
             \/ s \notin deployed.unsortable /\ sync_shipment(s)
             \/ \E st \in NewStatuses, e, d \in Days \cup {None} :
                   \/ create_shipment(s, st, e, d)
                   \/ \E F \in SUBSET Fields : update_status(s, F, st, e, d)

-----------------------------------------------------------------------------
(* ShipmentRepository: what the statements select.                         *)

\* Mutant: the dashboard counts archived orders.
_all_user_query(u, exclude_archived) == {s \in rows : OwnerOf[OrderOf[s]] = u}

_base_user_query(u, exclude_archived) ==
    {s \in rows : /\ OwnerOf[OrderOf[s]] = u
                  /\ exclude_archived => order[OrderOf[s]] # "archived"}

count_by_status(u, st, ex) == {s \in _base_user_query(u, ex) : ship[s].status = st}
count_delivered_on(u, day) == {s \in _base_user_query(u, TRUE) : ship[s].delivered = day}
count_expected_on(u, day) == {s \in _base_user_query(u, TRUE) : ship[s].est = day}
count_for_user(u) == _base_user_query(u, FALSE)
delivery_durations_for_user(u) == {s \in _base_user_query(u, FALSE) : ship[s].delivered # None}

\* Currently delayed, or with a DELAYED event in their history.
delayed_shipment_count_for_user(u) ==
    {s \in _base_user_query(u, FALSE) : ship[s].status = "delayed" \/ ship[s].delayed}

\* The same across all users, for the MQTT sensors.
count_all_by_status(st) == {s \in rows : ship[s].status = st}
count_all_delivered_on(day) == {s \in rows : ship[s].delivered = day}

\* The shipments that still have an estimated date to come to.
Expected(S) == {s \in S : ship[s].status \notin TERMINAL_STATUSES /\ ship[s].est # None}
Delivered(S) == {s \in S : ship[s].status = "delivered" /\ ship[s].delivered # None}

\* The earliest and the latest of some dates, any of which may be missing.
Sooner(D) == IF D \subseteq {None} THEN None
             ELSE CHOOSE d \in D \ {None} : \A e \in D \ {None} : d <= e
Later(D) == IF D \subseteq {None} THEN None
            ELSE CHOOSE d \in D \ {None} : \A e \in D \ {None} : d >= e

next_delivery_date == Sooner({ship[s].est : s \in Expected(rows)})

\* DashboardService.get_summary, for the day it takes for today.
DashboardSummary(u, q, day) ==
    CASE q = "delivered_today"   -> count_delivered_on(u, day)
      [] q = "expected_tomorrow" -> count_expected_on(u, day + 1)
      [] OTHER                   -> count_by_status(u, q, TRUE)

\* StatisticsService.get_summary
StatisticsSummary(u, q) ==
    CASE q = "dated"        -> delivery_durations_for_user(u)
      [] q = "total"        -> count_for_user(u)
      [] q = "ever_delayed" -> delayed_shipment_count_for_user(u)
      [] OTHER              -> count_by_status(u, q, FALSE)

-----------------------------------------------------------------------------
(* Steps of a reader.                                                      *)

\* The reader runs statement q, which selects S.
Count(r, q, S) ==
    /\ read' = [read EXCEPT ![r].rows[q] = S, ![r].at = @ + 1]
    /\ UNCHANGED <<deployed, tableVars, writes, faults>>

\* OrderRepository.list_for_user: LIMIT without ORDER BY, so any page.
ListOrders(r) ==
    LET mine == {o \in Orders : OwnerOf[o] = r /\ order[o] \in Present} IN
    /\ \E page \in SUBSET mine :
         /\ Cardinality(page) = IF Cardinality(mine) <= Limit THEN Cardinality(mine) ELSE Limit
         /\ read' = [read EXCEPT ![r].page = page, ![r].at = @ + 1]
    /\ UNCHANGED <<deployed, tableVars, writes, faults>>

\* What the client makes of the shipments S of one more order.
_find_next_delivery(best, S) == Sooner({best} \cup {ship[s].est : s \in Expected(S)})
_find_last_delivery(best, S) == Later({best} \cup {ship[s].delivered : s \in Delivered(S)})

\* The shipments of an order of the page are loaded when it is serialised.
LoadShipments(r, o) ==
    LET S == {s \in rows : OrderOf[s] = o} IN
    /\ o \in read[r].page
    /\ read' = [read EXCEPT ![r].page = @ \ {o},
                            ![r].next = _find_next_delivery(@, S),
                            ![r].last = _find_last_delivery(@, S)]
    /\ UNCHANGED <<deployed, tableVars, writes, faults>>

=============================================================================
