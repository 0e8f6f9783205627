------------------------- MODULE ParcelServerProofs -------------------------
(***************************************************************************)
(* Proofs about the whole installation: types, the services of Home        *)
(* Assistant, the tokens of the mailboxes, and the counts of a poll.       *)
(***************************************************************************)
EXTENDS ParcelServer, FiniteSetTheorems, WellFoundedInduction, TLAPS

-----------------------------------------------------------------------------
(* Types of the tables: one lemma per writer and per step of a reader.     *)

Writes == \/ \E o \in Orders : \/ create_order(o) \/ delete_order(o)
                               \/ \E u \in Users, b \in BOOLEAN : set_archived(u, o, b)
          \/ \E u \in Users, O \in SUBSET Orders, S \in SUBSET Shipments : import_mail(u, O, S)
          \/ \E s \in Shipments :
                \/ sync_shipment(s)
                \/ \E st \in NewStatuses, e, d \in Days \cup {None} :
                      \/ create_shipment(s, st, e, d)
                      \/ \E F \in SUBSET Fields : update_status(s, F, st, e, d)

\* What every commit leaves of the readers: only the history of changes grows.
LEMMA ChangesType ==
    ASSUME read \in [Readers -> Reader], NEW S \in SUBSET Shipments, Changes(S)
    PROVE  /\ read' \in [Readers -> Reader]
           /\ \A r \in Readers : read'[r].at = read[r].at /\ read'[r].rows = read[r].rows
           /\ \A r \in Readers : read[r].at # 0 => read'[r].changed = read[r].changed \cup S
           /\ \A r \in Readers : read[r].at = 0 => read'[r] = read[r]
<1>1. ASSUME NEW r \in Readers
      PROVE  /\ read'[r] \in Reader
             /\ read'[r].at = read[r].at /\ read'[r].rows = read[r].rows
             /\ read[r].at # 0 => read'[r].changed = read[r].changed \cup S
             /\ read[r].at = 0 => read'[r] = read[r]
  <2>1. read[r] \in Reader
    OBVIOUS
  <2>2. CASE read[r].at = 0
    BY <2>1, <2>2 DEF Changes
  <2>3. CASE read[r].at # 0
    <3>1. read'[r] = [read[r] EXCEPT !.changed = @ \cup S]
      BY <2>3 DEF Changes
    <3> QED BY <2>1, <2>3, <3>1 DEF Reader
  <2> QED BY <2>2, <2>3
<1>2. read' = [r \in Readers |-> read'[r]]
  BY DEF Changes
<1> QED BY <1>1, <1>2

\* The columns of a shipment stay of their types.
LEMMA ShipType ==
    ASSUME NEW st \in Statuses, NEW e \in Days \cup {None}, NEW d \in Days \cup {None}
    PROVE  [status |-> st, est |-> e, delivered |-> d, delayed |-> FALSE] \in Ship /\ NewShip \in Ship
                /\ [NewShip EXCEPT !.status = st] \in Ship
BY DEF NewShip, Ship, Statuses

LEMMA WritesType ==
    ASSUME TablesTypeOK, Writes, UNCHANGED deployed, writes' \in Nat, faults' \in Nat
    PROVE  /\ TablesTypeOK'
           /\ \A r \in Readers : read'[r].at = read[r].at
<1> USE KeysAssumption, StatusAssumption, NoneAssumption, LimitAssumption
<1>1. ASSUME NEW o \in Orders, create_order(o) PROVE TablesTypeOK' /\ \A r \in Readers : read'[r].at = read[r].at
  <2>1. order' \in [Orders -> OrderState]
    BY <1>1 DEF TablesTypeOK, create_order, OrderState
  <2> QED BY <1>1, <2>1, ChangesType DEF TablesTypeOK, create_order
<1>2. ASSUME NEW o \in Orders, delete_order(o) PROVE TablesTypeOK' /\ \A r \in Readers : read'[r].at = read[r].at
  <2>1. order' \in [Orders -> OrderState] /\ rows' \subseteq Shipments
    BY <1>2 DEF TablesTypeOK, delete_order, OrderState
  <2>2. ship' \in [Shipments -> Ship]
    BY <1>2, ShipType DEF TablesTypeOK, delete_order, Statuses
  <2>3. {s \in rows : OrderOf[s] = o} \in SUBSET Shipments
    BY DEF TablesTypeOK
  <2> QED BY <1>2, <2>1, <2>2, <2>3, ChangesType DEF TablesTypeOK, delete_order
<1>3. ASSUME NEW o \in Orders, NEW u \in Users, NEW b \in BOOLEAN, set_archived(u, o, b)
      PROVE TablesTypeOK' /\ \A r \in Readers : read'[r].at = read[r].at
  <2>1. order' \in [Orders -> OrderState]
    BY <1>3 DEF TablesTypeOK, set_archived, OrderState
  <2>3. {s \in rows : OrderOf[s] = o} \in SUBSET Shipments
    BY DEF TablesTypeOK
  <2> QED BY <1>3, <2>1, <2>3, ChangesType DEF TablesTypeOK, set_archived
<1>4. ASSUME NEW u \in Users, NEW O \in SUBSET Orders, NEW S \in SUBSET Shipments,
             import_mail(u, O, S)
      PROVE TablesTypeOK' /\ \A r \in Readers : read'[r].at = read[r].at
  <2>1. order' \in [Orders -> OrderState] /\ rows' \subseteq Shipments
    BY <1>4 DEF TablesTypeOK, import_mail, OrderState, Present
  <2>2. ship' \in [Shipments -> Ship]
    <3>1. [NewShip EXCEPT !.status = "label_created"] \in Ship
      BY ShipType DEF Statuses
    <3> QED BY <1>4, <3>1 DEF TablesTypeOK, import_mail
  <2> QED BY <1>4, <2>1, <2>2, ChangesType DEF TablesTypeOK, import_mail
<1>5. ASSUME NEW s \in Shipments, NEW st \in NewStatuses, NEW e \in Days \cup {None},
             NEW d \in Days \cup {None}, NEW F \in SUBSET Fields, update_status(s, F, st, e, d)
      PROVE TablesTypeOK' /\ \A r \in Readers : read'[r].at = read[r].at
  <2>1. ship' \in [Shipments -> Ship]
    <3> DEFINE late == ship[s].delayed \/ ("status" \in F /\ st = "delayed")
               new == [status |-> IF "status" \in F THEN st ELSE ship[s].status,
                       est |-> IF "est" \in F THEN e ELSE ship[s].est,
                       delivered |-> IF "delivered" \in F THEN d ELSE ship[s].delivered,
                       delayed |-> late]
    <3>1. late \in BOOLEAN /\ ship[s] \in Ship /\ st \in Statuses
      BY DEF TablesTypeOK
    <3>2. ship' = [ship EXCEPT ![s] = new]
      BY <1>5 DEF update_status
    <3> HIDE DEF late
    <3>3. new \in Ship
      BY <3>1 DEF Ship
    <3> HIDE DEF new
    <3> QED BY <3>2, <3>3 DEF TablesTypeOK
  <2> QED BY <1>5, <2>1, ChangesType DEF TablesTypeOK, update_status
<1>6. ASSUME NEW s \in Shipments, sync_shipment(s)
      PROVE TablesTypeOK' /\ \A r \in Readers : read'[r].at = read[r].at
  <2>a. PICK N \in SUBSET NewStatuses :
          \E st \in {ship[s].status} \cup N,
             d \in {ship[s].delivered} \cup {t \in Days : "delivered" \in N} :
            ship' = [ship EXCEPT ![s] =
                       [status |-> st, est |-> ship[s].est, delivered |-> d,
                        delayed |-> ship[s].delayed \/ "delayed" \in N]]
    BY <1>6 DEF sync_shipment
  <2>0. PICK st \in {ship[s].status} \cup N,
             d \in {ship[s].delivered} \cup {t \in Days : "delivered" \in N} :
            ship' = [ship EXCEPT ![s] =
                       [status |-> st, est |-> ship[s].est, delivered |-> d,
                        delayed |-> ship[s].delayed \/ "delayed" \in N]]
    BY <2>a
  <2>1. ship' \in [Shipments -> Ship]
    <3> DEFINE late == ship[s].delayed \/ "delayed" \in N
               new == [status |-> st, est |-> ship[s].est, delivered |-> d, delayed |-> late]
    <3>1. late \in BOOLEAN /\ ship[s] \in Ship
      BY DEF TablesTypeOK
    <3>2. st \in Statuses /\ d \in Days \cup {None}
      BY <2>0, <3>1 DEF Ship
    <3>3. ship' = [ship EXCEPT ![s] = new]
      BY <2>0
    <3> HIDE DEF late
    <3>4. new \in Ship
      BY <3>1, <3>2 DEF Ship
    <3> HIDE DEF new
    <3> QED BY <3>3, <3>4 DEF TablesTypeOK
  <2> QED BY <1>6, <2>1, ChangesType DEF TablesTypeOK, sync_shipment
<1>7. ASSUME NEW s \in Shipments, NEW st \in NewStatuses, NEW e \in Days \cup {None},
             NEW d \in Days \cup {None}, create_shipment(s, st, e, d)
      PROVE TablesTypeOK' /\ \A r \in Readers : read'[r].at = read[r].at
  <2>1. ship' \in [Shipments -> Ship] /\ rows' \subseteq Shipments
    BY <1>7, ShipType DEF TablesTypeOK, create_shipment
  <2>2. Changes({s}) /\ UNCHANGED <<today, order>>
    BY <1>7 DEF create_shipment
  <2>3. read' \in [Readers -> Reader] /\ \A r \in Readers : read'[r].at = read[r].at
    BY <2>2, ChangesType DEF TablesTypeOK
  <2> QED BY <2>1, <2>2, <2>3 DEF TablesTypeOK
<1> DEFINE OfOrder == \E o \in Orders :
               \/ create_order(o) \/ delete_order(o)
               \/ \E u \in Users, b \in BOOLEAN : set_archived(u, o, b)
           OfImport == \E u \in Users, O \in SUBSET Orders, S \in SUBSET Shipments :
               import_mail(u, O, S)
           OfShipment == \E s \in Shipments :
               \/ sync_shipment(s)
               \/ \E st \in NewStatuses, e, d \in Days \cup {None} :
                     \/ create_shipment(s, st, e, d)
                     \/ \E F \in SUBSET Fields : update_status(s, F, st, e, d)
<1>8. CASE OfOrder
  BY <1>8, <1>1, <1>2, <1>3
<1>9. CASE OfShipment
  BY <1>9, <1>5, <1>6, <1>7
<1>10. CASE OfImport
  BY <1>10, <1>4
<1>11. OfOrder \/ OfImport \/ OfShipment
  BY Zenon DEF Writes
<1> HIDE DEF OfOrder, OfImport, OfShipment
<1> QED BY <1>8, <1>9, <1>10, <1>11

-----------------------------------------------------------------------------
(* The program of a poll, and the steps of a reader.                       *)

\* The statements whose results PollCountsOnce speaks of.
Watched == ActiveStatuses \cup {"total", "delivered", "ever_delayed"}

\* The poll of u has run statement q.
Ran(u, q) == \E i \in 1 .. 16 : i < read[u].at /\ Poll[i] = q

LEMMA PollProgram ==
    /\ Len(Poll) = 16
    /\ \A i \in 1 .. 16 : Poll[i] = "load" <=> i = 16
    /\ \A q \in Watched : \E i \in 1 .. 15 : Poll[i] = q
<1>1. Len(Poll) = 16
  BY DEF Poll
<1>2. /\ Poll[1] = "get_dashboard" /\ Poll[2] = "in_transit" /\ Poll[3] = "out_for_delivery"
      /\ Poll[4] = "delayed" /\ Poll[5] = "delivered_today" /\ Poll[6] = "expected_tomorrow"
      /\ Poll[7] = "label_created" /\ Poll[8] = "get_statistics" /\ Poll[9] = "dated"
      /\ Poll[10] = "delivered" /\ Poll[11] = "returned" /\ Poll[12] = "total"
      /\ Poll[13] = "ever_delayed" /\ Poll[14] = "list_orders" /\ Poll[15] = "page"
      /\ Poll[16] = "load"
  BY DEF Poll
<1>3. ASSUME NEW i \in 1 .. 15
      PROVE  Poll[i] # "load"
  <2>1. \/ i \in 1 .. 5 \/ i \in 6 .. 10 \/ i \in 11 .. 15
    OBVIOUS
  <2>2. CASE i \in 1 .. 5
    BY <1>2, <2>2, SMT
  <2>3. CASE i \in 6 .. 10
    BY <1>2, <2>3, SMT
  <2>4. CASE i \in 11 .. 15
    BY <1>2, <2>4, SMT
  <2> QED BY <2>1, <2>2, <2>3, <2>4
<1>4. \A i \in 1 .. 16 : Poll[i] = "load" <=> i = 16
  BY <1>2, <1>3
<1>5. \A q \in Watched : \E i \in 1 .. 15 : Poll[i] = q
  BY <1>2, 2 \in 1 .. 15, 3 \in 1 .. 15, 4 \in 1 .. 15, 7 \in 1 .. 15, 10 \in 1 .. 15,
     12 \in 1 .. 15, 13 \in 1 .. 15 DEF Watched, ActiveStatuses
<1> QED BY <1>1, <1>4, <1>5

LEMMA IdleType ==
    /\ Idle \in Reader /\ Idle.at = 0
    /\ [Idle EXCEPT !.at = 1] \in Reader /\ [Idle EXCEPT !.at = 1].at = 1
BY LimitAssumption DEF Idle, Reader, Days

\* A statement.
LEMMA CountType ==
    ASSUME TablesTypeOK, NEW r \in Readers, NEW q \in Statements, NEW S \in SUBSET Shipments,
           Count(r, q, S)
    PROVE  TablesTypeOK' /\ read'[r].at = read[r].at + 1
                /\ \A v \in Readers \ {r} : read'[v] = read[v]
<1>1. read[r] \in Reader
  BY DEF TablesTypeOK
<1>2. [read[r].rows EXCEPT ![q] = S] \in [Statements -> SUBSET Shipments]
  BY <1>1 DEF Reader
<1>3. read' \in [Readers -> Reader]
  BY <1>1, <1>2 DEF TablesTypeOK, Count, Reader
<1> QED BY <1>1, <1>3 DEF TablesTypeOK, Count, tableVars, Reader

LEMMA ListOrdersType ==
    ASSUME TablesTypeOK, NEW r \in Readers, ListOrders(r)
    PROVE  TablesTypeOK' /\ read'[r].at = read[r].at + 1 /\ read'[r].rows = read[r].rows
                /\ read'[r].changed = read[r].changed /\ \A v \in Readers \ {r} : read'[v] = read[v]
<1>1. read[r] \in Reader
  BY DEF TablesTypeOK
<1>2. PICK page \in SUBSET Orders : read' = [read EXCEPT ![r].page = page, ![r].at = @ + 1]
  BY DEF ListOrders
<1> QED BY <1>1, <1>2 DEF TablesTypeOK, ListOrders, tableVars, Reader

LEMMA SmallestExists ==
    ASSUME NEW F \in SUBSET Nat, F # {}
    PROVE  \E d \in F : \A e \in F : d <= e
<1> DEFINE R == OpToRel(<, Nat)
<1>1. \E d \in F : \A e \in F : ~(<<e, d>> \in R)
  BY NatLessThanWellFounded, WFMin
<1>2. \A d, e \in Nat : e < d => <<e, d>> \in R
  BY DEF OpToRel
<1> HIDE DEF R
<1>3. PICK d \in F : \A e \in F : ~(<<e, d>> \in R)
  BY <1>1
<1>4. ASSUME NEW e \in F PROVE d <= e
  <2>1. d \in Nat /\ e \in Nat /\ ~(<<e, d>> \in R)
    BY <1>3
  <2>2. ~(e < d)
    BY <1>2, <2>1
  <2> QED BY <2>1, <2>2
<1> QED BY <1>4

\* The earliest and the latest of some dates are dates.
LEMMA DatesType ==
    ASSUME NEW D \in SUBSET (Days \cup {None})
    PROVE  Sooner(D) \in Days \cup {None} /\ Later(D) \in Days \cup {None}
<1>1. CASE D \subseteq {None}
  BY <1>1 DEF Sooner, Later
<1>2. CASE ~(D \subseteq {None})
  <2> DEFINE E == D \ {None}
  <2>1. E \subseteq 0 .. MaxDay /\ E # {}
    BY <1>2 DEF Days
  <2>2. E \in SUBSET Nat
    BY <2>1, LimitAssumption
  <2> HIDE DEF E
  <2>3. \E d \in E : \A e \in E : d <= e
    BY <2>1, <2>2, SmallestExists
  <2>4. \E d \in E : \A e \in E : d >= e
    <3> DEFINE F == {MaxDay - e : e \in E}
    <3>1. F \in SUBSET Nat /\ F # {}
      <4>1. \A e \in E : MaxDay - e \in Nat
        BY <2>1, LimitAssumption
      <4>2. \E e \in E : MaxDay - e \in F
        BY <2>1
      <4> QED BY <4>1, <4>2
    <3>2. PICK f \in F : \A e \in F : f <= e
      <4> HIDE DEF F
      <4> QED BY <3>1, SmallestExists
    <3>3. PICK d \in E : f = MaxDay - d
      BY <3>2
    <3>4. ASSUME NEW e \in E PROVE d >= e
      <4>0. MaxDay - e \in F
        OBVIOUS
      <4>1. f <= MaxDay - e
        BY <3>2, <4>0
      <4>2. d \in Int /\ e \in Int /\ MaxDay \in Int
        BY <2>1, LimitAssumption
      <4> QED BY <3>3, <4>1, <4>2
    <3> QED BY <3>4
  <2> QED BY <1>2, <2>1, <2>3, <2>4 DEF E, Sooner, Later, Days
<1> QED BY <1>1, <1>2

\* Whatever a step does to one reader only.
LEMMA OneReader ==
    ASSUME TablesTypeOK, NEW r \in Readers, NEW x \in Reader,
           read' = [read EXCEPT ![r] = x], UNCHANGED <<deployed, tableVars, writes>>,
           faults' \in Nat
    PROVE  TablesTypeOK' /\ read'[r] = x /\ \A v \in Readers \ {r} : read'[v] = read[v]
BY DEF TablesTypeOK, tableVars

\* The shipments of an order of the page.
LEMMA LoadShipmentsType ==
    ASSUME TablesTypeOK, NEW r \in Readers, NEW o \in Orders, LoadShipments(r, o)
    PROVE  TablesTypeOK' /\ read'[r].at = read[r].at /\ read'[r].rows = read[r].rows
                /\ read'[r].changed = read[r].changed /\ \A v \in Readers \ {r} : read'[v] = read[v]
<1> DEFINE S == {s \in rows : OrderOf[s] = o}
           n == _find_next_delivery(read[r].next, S)
           l == _find_last_delivery(read[r].last, S)
<1>1. read[r] \in Reader
  BY DEF TablesTypeOK
<1>2. {ship[s].est : s \in Expected(S)} \subseteq Days \cup {None}
  BY DEF TablesTypeOK, Expected, Ship
<1>3. {ship[s].delivered : s \in Delivered(S)} \subseteq Days \cup {None}
  BY DEF TablesTypeOK, Delivered, Ship
<1>4. n \in Days \cup {None} /\ l \in Days \cup {None}
  <2>1. read[r].next \in Days \cup {None} /\ read[r].last \in Days \cup {None}
    BY <1>1 DEF Reader
  <2>2. {read[r].next} \cup {ship[s].est : s \in Expected(S)} \in SUBSET (Days \cup {None})
    BY <1>2, <2>1
  <2>3. {read[r].last} \cup {ship[s].delivered : s \in Delivered(S)} \in SUBSET (Days \cup {None})
    BY <1>3, <2>1
  <2> QED BY <2>2, <2>3, DatesType DEF _find_next_delivery, _find_last_delivery
<1>5. read' = [read EXCEPT ![r] = [read[r] EXCEPT !.page = read[r].page \ {o}, !.next = n, !.last = l]]
  BY DEF LoadShipments, TablesTypeOK
<1> HIDE DEF n, l
<1>6. [read[r] EXCEPT !.page = read[r].page \ {o}, !.next = n, !.last = l] \in Reader
  BY <1>1, <1>4 DEF Reader
<1>7. [read[r] EXCEPT !.page = read[r].page \ {o}, !.next = n, !.last = l].at = read[r].at
      /\ [read[r] EXCEPT !.page = read[r].page \ {o}, !.next = n, !.last = l].rows = read[r].rows
      /\ [read[r] EXCEPT !.page = read[r].page \ {o}, !.next = n, !.last = l].changed = read[r].changed
  BY <1>1 DEF Reader
<1>8. UNCHANGED <<deployed, tableVars, writes>> /\ faults' \in Nat
  BY DEF LoadShipments, TablesTypeOK
<1> DEFINE x == [read[r] EXCEPT !.page = read[r].page \ {o}, !.next = n, !.last = l]
<1>9. x \in Reader /\ read' = [read EXCEPT ![r] = x] /\ x.at = read[r].at
      /\ x.rows = read[r].rows /\ x.changed = read[r].changed
  BY <1>5, <1>6, <1>7
<1> HIDE DEF x
<1> QED BY <1>8, <1>9, OneReader

-----------------------------------------------------------------------------
(* Types of the Home Assistant integration.                                *)

\* A user's reader stands within the program of a poll.
Within(u) == read[u].at \in 0 .. 16

LEMMA WithinIs == HomeAssistantTypeOK => \A u \in Users : Within(u)
BY PollProgram DEF HomeAssistantTypeOK, Within

LEMMA NotLast ==
    ASSUME NEW u \in Users, Within(u), At(u) \notin {"idle", "load"}
    PROVE  read[u].at \in 1 .. 15 /\ read[u].at + 1 \in 0 .. 16
BY PollProgram DEF Within, At

\* A refresh begins.
LEMMA BeginPollType ==
    ASSUME TablesTypeOK, HomeAssistantTypeOK, NEW u \in Users, BeginPoll(u),
           UNCHANGED <<deployed, tableVars, writes, faults>>
    PROVE  /\ TablesTypeOK' /\ \A v \in Users : Within(v)'
           /\ step' \in [Users -> {"idle", "send", "resend", "login", "again", "run"}]
<1>1. TablesTypeOK' /\ read'[u] = [Idle EXCEPT !.at = 1]
      /\ \A v \in Readers \ {u} : read'[v] = read[v]
  <2>1. u \in Readers /\ faults' \in Nat /\ read' = [read EXCEPT ![u] = [Idle EXCEPT !.at = 1]]
    BY DEF Readers, TablesTypeOK, BeginPoll
  <2> HIDE DEF BeginPoll
  <2> QED BY <2>1, IdleType, OneReader
<1>2. \A v \in Users : Within(v)'
  <2>1. read'[u].at = 1
    BY <1>1, IdleType
  <2>2. \A v \in Users \ {u} : read'[v] = read[v]
    BY <1>1 DEF Readers
  <2>3. \A v \in Users : read[v].at \in 0 .. 16
    BY WithinIs DEF Within
  <2>4. \A v \in Users \ {u} : read'[v].at \in 0 .. 16
    BY <2>2, <2>3
  <2>5. 1 \in 0 .. 16
    OBVIOUS
  <2> QED BY <2>1, <2>4, <2>5 DEF Within
<1>3. step' \in [Users -> {"idle", "send", "resend", "login", "again", "run"}]
  BY DEF BeginPoll, HomeAssistantTypeOK
<1> QED BY <1>1, <1>2, <1>3

\* A refresh ends, one way or the other.
LEMMA IdleAgain ==
    ASSUME TablesTypeOK, HomeAssistantTypeOK, NEW u \in Users, read' = [read EXCEPT ![u] = Idle],
           UNCHANGED <<deployed, tableVars, writes>>, faults' \in Nat
    PROVE  TablesTypeOK' /\ \A v \in Users : Within(v)'
<1>1. TablesTypeOK' /\ read'[u] = Idle /\ \A v \in Readers \ {u} : read'[v] = read[v]
  BY IdleType, OneReader DEF Readers
<1> QED BY <1>1, WithinIs, IdleType DEF Within, Readers

LEMMA WithinType ==
    ASSUME \A v \in Users : Within(v)'
    PROVE  \A v \in Users : (read[v].at)' \in 0 .. Len(Poll)
BY PollProgram DEF Within

LEMMA UpdateFailedType ==
    ASSUME TablesTypeOK, HomeAssistantTypeOK, NEW u \in Users, UpdateFailed(u), faults' \in Nat
    PROVE  TablesTypeOK' /\ HomeAssistantTypeOK'
<1>1. TablesTypeOK' /\ \A v \in Users : Within(v)'
  BY IdleAgain DEF UpdateFailed
<1>2. step' \in [Users -> {"idle", "send", "resend", "login", "again", "run"}]
  BY DEF UpdateFailed, HomeAssistantTypeOK
<1>3. entry' \in [Users -> {"none", "retry", "setup"} \cup Loaded]
  BY DEF UpdateFailed, HomeAssistantTypeOK
<1> QED BY <1>1, <1>2, <1>3, WithinType DEF UpdateFailed, HomeAssistantTypeOK

LEMMA RequestType ==
    ASSUME TablesTypeOK, HomeAssistantTypeOK, NEW u \in Users, _request(u)
    PROVE  TablesTypeOK' /\ HomeAssistantTypeOK'
<1>0. \A v \in Users : Within(v)
  BY WithinIs
<1>1. CASE /\ \E x \in {"login", "again"} : step' = [step EXCEPT ![u] = x]
           /\ UNCHANGED <<parcelVars, entry, hass_data, services, token, data, call>>
  <2>1. step' \in [Users -> {"idle", "send", "resend", "login", "again", "run"}]
    BY <1>1 DEF HomeAssistantTypeOK
  <2>2. TablesTypeOK' /\ read' = read
    BY <1>1 DEF TablesTypeOK, parcelVars, tableVars
  <2> QED BY <1>1, <2>1, <2>2 DEF HomeAssistantTypeOK
<1>2. CASE UpdateFailed(u) /\ UNCHANGED faults
  <2>1. faults' \in Nat
    BY <1>2 DEF TablesTypeOK
  <2> QED BY <1>2, <2>1, UpdateFailedType
<1>3. CASE /\ At(u) \in Requests
           /\ step' = [step EXCEPT ![u] = "run"]
           /\ read' = [read EXCEPT ![u].at = @ + 1,
                                  ![u].day = IF At(u) = "get_dashboard" THEN today ELSE @]
           /\ UNCHANGED <<deployed, tableVars, writes, faults, entry, hass_data, services,
                          token, data, call>>
  <2> DEFINE d == IF At(u) = "get_dashboard" THEN today ELSE read[u].day
             x == [read[u] EXCEPT !.at = read[u].at + 1, !.day = d]
  <2>1. read[u] \in Reader /\ u \in Readers
    BY DEF TablesTypeOK, Readers
  <2>2. d \in Days
    BY <2>1 DEF TablesTypeOK, Reader
  <2>3. read' = [read EXCEPT ![u] = x]
    BY <1>3, <2>1 DEF TablesTypeOK
  <2> HIDE DEF d
  <2>4. x \in Reader /\ x.at = read[u].at + 1
    <3>1. read[u].at + 1 \in Nat
      BY <2>1 DEF Reader
    <3> QED BY <2>1, <2>2, <3>1 DEF Reader
  <2>5. read[u].at + 1 \in 0 .. 16
    <3>1. At(u) \notin {"idle", "load"}
      BY <1>3 DEF Requests
    <3> QED BY <1>0, <3>1, NotLast
  <2> HIDE DEF x
  <2>6. TablesTypeOK' /\ read'[u] = x /\ \A v \in Readers \ {u} : read'[v] = read[v]
    <3>1. faults' \in Nat
      BY <1>3 DEF TablesTypeOK
    <3> QED BY <1>3, <2>1, <2>3, <2>4, <3>1, OneReader
  <2>7. \A v \in Users : Within(v)'
    BY <1>0, <2>4, <2>5, <2>6 DEF Within, Readers
  <2>8. step' \in [Users -> {"idle", "send", "resend", "login", "again", "run"}]
    BY <1>3 DEF HomeAssistantTypeOK
  <2> QED BY <1>3, <2>6, <2>7, <2>8, WithinType DEF HomeAssistantTypeOK
<1> QED BY <1>1, <1>2, <1>3 DEF _request

\* Every statement selects shipments.
LEMMA Selects ==
    ASSUME TablesTypeOK, NEW u, NEW q, NEW d
    PROVE  /\ DashboardSummary(u, q, d) \in SUBSET Shipments
           /\ StatisticsSummary(u, q) \in SUBSET Shipments
<1>1. \A x, b : _base_user_query(x, b) \subseteq Shipments
  BY DEF TablesTypeOK, _base_user_query
<1>2. /\ count_delivered_on(u, d) \subseteq Shipments /\ count_expected_on(u, d + 1) \subseteq Shipments
      /\ count_by_status(u, q, TRUE) \subseteq Shipments
      /\ count_by_status(u, q, FALSE) \subseteq Shipments
      /\ delivery_durations_for_user(u) \subseteq Shipments /\ count_for_user(u) \subseteq Shipments
      /\ delayed_shipment_count_for_user(u) \subseteq Shipments
  BY <1>1 DEF count_delivered_on, count_expected_on, count_by_status, delivery_durations_for_user,
              count_for_user, delayed_shipment_count_for_user
<1> QED BY <1>2 DEF DashboardSummary, StatisticsSummary

LEMMA ServeType ==
    ASSUME TablesTypeOK, HomeAssistantTypeOK, NEW u \in Users, Serve(u)
    PROVE  TablesTypeOK' /\ HomeAssistantTypeOK'
<1>0. u \in Readers /\ \A v \in Users : Within(v)
  BY WithinIs DEF Readers
<1>1. CASE At(u) \in Requests /\ step' = [step EXCEPT ![u] = "send"] /\ UNCHANGED parcelVars
  <2>1. TablesTypeOK' /\ read' = read
    BY <1>1 DEF TablesTypeOK, parcelVars, tableVars
  <2>2. step' \in [Users -> {"idle", "send", "resend", "login", "again", "run"}]
    BY <1>1 DEF HomeAssistantTypeOK
  <2> QED BY <2>1, <2>2 DEF Serve, HomeAssistantTypeOK
<1>2. ASSUME NEW q \in Statements, q = At(u), UNCHANGED step, NEW S \in SUBSET Shipments,
             Count(u, q, S)
      PROVE  TablesTypeOK' /\ HomeAssistantTypeOK'
  <2>1. TablesTypeOK' /\ read'[u].at = read[u].at + 1 /\ \A v \in Readers \ {u} : read'[v] = read[v]
    BY <1>0, <1>2, CountType
  <2>2. At(u) \notin {"idle", "load"}
    BY <1>2 DEF Statements, DashboardStatements, StatisticsStatements
  <2>3. \A v \in Users : Within(v)'
    BY <1>0, <2>1, <2>2, NotLast DEF Within, Readers
  <2> QED BY <1>2, <2>1, <2>3, WithinType DEF Serve, HomeAssistantTypeOK
<1>3. CASE At(u) = "page" /\ ListOrders(u) /\ UNCHANGED step
  <2>1. TablesTypeOK' /\ read'[u].at = read[u].at + 1 /\ \A v \in Readers \ {u} : read'[v] = read[v]
    BY <1>0, <1>3, ListOrdersType
  <2>2. At(u) \notin {"idle", "load"}
    BY <1>3
  <2>3. \A v \in Users : Within(v)'
    BY <1>0, <2>1, <2>2, NotLast DEF Within, Readers
  <2> QED BY <1>3, <2>1, <2>3, WithinType DEF Serve, HomeAssistantTypeOK
<1>4. ASSUME NEW o \in Orders, LoadShipments(u, o), UNCHANGED step
      PROVE  TablesTypeOK' /\ HomeAssistantTypeOK'
  <2>1. TablesTypeOK' /\ read'[u].at = read[u].at /\ \A v \in Readers \ {u} : read'[v] = read[v]
    BY <1>0, <1>4, LoadShipmentsType
  <2>2. \A v \in Users : Within(v)'
    BY <1>0, <2>1 DEF Within, Readers
  <2> QED BY <1>4, <2>1, <2>2, WithinType DEF Serve, HomeAssistantTypeOK
<1>5. CASE At(u) \in DashboardStatements
           /\ Count(u, At(u), DashboardSummary(u, At(u), read[u].day)) /\ UNCHANGED step
  BY <1>2, <1>5, Selects DEF Statements
<1>6. CASE At(u) \in StatisticsStatements
           /\ Count(u, At(u), StatisticsSummary(u, At(u))) /\ UNCHANGED step
  BY <1>2, <1>6, Selects DEF Statements
<1> QED BY <1>1, <1>3, <1>4, <1>5, <1>6 DEF Serve

\* The sensors are updated.
LEMMA UpdatedType ==
    ASSUME TablesTypeOK, HomeAssistantTypeOK, NEW u \in Users, Updated(u)
    PROVE  TablesTypeOK' /\ HomeAssistantTypeOK'
<1>1. TablesTypeOK' /\ \A v \in Users : Within(v)'
  <2>1. faults' \in Nat
    BY DEF Updated, TablesTypeOK
  <2> QED BY <2>1, IdleAgain DEF Updated
<1>2. step' \in [Users -> {"idle", "send", "resend", "login", "again", "run"}]
  BY DEF Updated, HomeAssistantTypeOK
<1>3. entry' \in [Users -> {"none", "retry", "setup"} \cup Loaded]
  BY DEF Updated, HomeAssistantTypeOK, Loaded
<1>4. hass_data' \in Seq(Users) /\ services' \in BOOLEAN
  <2>1. \/ hass_data' = Append(hass_data, u) /\ services' = TRUE
        \/ UNCHANGED <<hass_data, services>>
    BY DEF Updated
  <2>2. hass_data \in Seq(Users) /\ services \in BOOLEAN
    BY DEF HomeAssistantTypeOK
  <2>3. Append(hass_data, u) \in Seq(Users)
    BY <2>2
  <2> QED BY <2>1, <2>2, <2>3
<1> QED BY <1>1, <1>2, <1>3, <1>4, WithinType DEF Updated, HomeAssistantTypeOK

\* hass.data loses one entry.
LEMMA PopType ==
    ASSUME HomeAssistantTypeOK, NEW u, hass_data_pop(u)
    PROVE  hass_data' \in Seq(Users)
<1>1. PICK i \in DOMAIN hass_data :
        hass_data' = [j \in 1 .. (Len(hass_data) - 1) |-> hass_data[IF j < i THEN j ELSE j + 1]]
  BY DEF hass_data_pop
<1>2. hass_data \in Seq(Users) /\ Len(hass_data) \in Nat /\ DOMAIN hass_data = 1 .. Len(hass_data)
  BY DEF HomeAssistantTypeOK
<1>3. Len(hass_data) - 1 \in Nat
  BY <1>2
<1>4. \A j \in 1 .. (Len(hass_data) - 1) : hass_data[IF j < i THEN j ELSE j + 1] \in Users
  BY <1>2
<1> QED BY <1>1, <1>3, <1>4

LEMMA PollStepType ==
    ASSUME TablesTypeOK, HomeAssistantTypeOK, NEW u \in Users, PollStep(u)
    PROVE  TablesTypeOK' /\ HomeAssistantTypeOK'
<1>1. CASE async_login(u)
  <2>1. TablesTypeOK' /\ read' = read
    BY <1>1 DEF async_login, TablesTypeOK, parcelVars, tableVars
  <2>2. step' \in [Users -> {"idle", "send", "resend", "login", "again", "run"}]
    BY <1>1 DEF async_login, HomeAssistantTypeOK
  <2>3. token' \in [Users -> {"none", "valid", "expired"}]
    BY <1>1 DEF async_login, HomeAssistantTypeOK
  <2> QED BY <1>1, <2>1, <2>2, <2>3 DEF async_login, HomeAssistantTypeOK
<1>2. CASE StartPoll(u)
  <2>1. /\ TablesTypeOK' /\ \A v \in Users : Within(v)'
        /\ step' \in [Users -> {"idle", "send", "resend", "login", "again", "run"}]
    BY <1>2, BeginPollType DEF StartPoll
  <2> QED BY <1>2, <2>1, WithinType DEF StartPoll, HomeAssistantTypeOK
<1> QED BY <1>1, <1>2, RequestType, ServeType, UpdatedType DEF PollStep

LEMMA SetupStepType ==
    ASSUME TablesTypeOK, HomeAssistantTypeOK, NEW u \in Users,
           \/ SetupStep(u) \/ async_step_user(u) \/ async_unload_entry(u)
    PROVE  TablesTypeOK' /\ HomeAssistantTypeOK'
<1>1. CASE async_setup_entry(u)
  <2>1. /\ TablesTypeOK' /\ \A v \in Users : Within(v)'
        /\ step' \in [Users -> {"idle", "send", "resend", "login", "again", "run"}]
    BY <1>1, BeginPollType DEF async_setup_entry
  <2>2. entry' \in [Users -> {"none", "retry", "setup"} \cup Loaded]
        /\ token' \in [Users -> {"none", "valid", "expired"}]
    BY <1>1 DEF async_setup_entry, HomeAssistantTypeOK
  <2> QED BY <1>1, <2>1, <2>2, WithinType DEF async_setup_entry, HomeAssistantTypeOK
<1>2. CASE Unloaded(u)
  <2>1. TablesTypeOK' /\ \A v \in Users : Within(v)'
    <3>1. faults' \in Nat
      BY <1>2 DEF Unloaded, TablesTypeOK
    <3> QED BY <1>2, <3>1, IdleAgain DEF Unloaded
  <2>2. entry' \in [Users -> {"none", "retry", "setup"} \cup Loaded]
        /\ token' \in [Users -> {"none", "valid", "expired"}]
        /\ step' \in [Users -> {"idle", "send", "resend", "login", "again", "run"}]
    BY <1>2 DEF Unloaded, HomeAssistantTypeOK
  <2>3. hass_data' \in Seq(Users)
    BY <1>2, PopType DEF Unloaded
  <2>4. services' \in BOOLEAN
    BY <1>2 DEF Unloaded, HomeAssistantTypeOK
  <2> QED BY <1>2, <2>1, <2>2, <2>3, <2>4, WithinType DEF Unloaded, HomeAssistantTypeOK
<1>3. CASE Forwarded(u) \/ async_step_user(u) \/ async_unload_entry(u)
  <2>1. /\ UNCHANGED <<parcelVars, hass_data, services, token, step, data, call>>
        /\ \E e \in {"loaded", "retry", "unload"} : entry' = [entry EXCEPT ![u] = e]
    BY <1>3 DEF Forwarded, async_step_user, async_unload_entry
  <2>2. entry' \in [Users -> {"none", "retry", "setup"} \cup Loaded]
    BY <2>1 DEF HomeAssistantTypeOK, Loaded
  <2>3. TablesTypeOK' /\ read' = read
    BY <2>1 DEF TablesTypeOK, parcelVars, tableVars
  <2> QED BY <2>1, <2>2, <2>3 DEF HomeAssistantTypeOK
<1> QED BY <1>1, <1>2, <1>3 DEF SetupStep

LEMMA HaKeepsType ==
    ASSUME HomeAssistantTypeOK, UNCHANGED haVars, \A u \in Users : read'[u].at = read[u].at
    PROVE  HomeAssistantTypeOK'
BY DEF HomeAssistantTypeOK, haVars

LEMMA CallType ==
    ASSUME TablesTypeOK, HomeAssistantTypeOK, ServicesHaveClient,
           \/ \E svc \in Services, o \in Orders : CallService(svc, o)
           \/ CallServed \/ CallFails
    PROVE  TablesTypeOK' /\ HomeAssistantTypeOK'
<1>1. ASSUME NEW svc \in Services, NEW o \in Orders, CallService(svc, o)
      PROVE  TablesTypeOK' /\ HomeAssistantTypeOK'
  <2>1. Head(hass_data) \in Users
    BY <1>1 DEF CallService, ServicesHaveClient, HomeAssistantTypeOK
  <2>2. call' \in [svc : Services, who : Users, order : Orders]
    BY <1>1, <2>1 DEF CallService
  <2>3. TablesTypeOK' /\ read' = read
    BY <1>1 DEF CallService, ByUser, TablesTypeOK, tableVars
  <2> QED BY <1>1, <2>2, <2>3 DEF CallService, HomeAssistantTypeOK
<1>2. CASE CallFails
  <2>1. TablesTypeOK' /\ read' = read
    BY <1>2 DEF CallFails, TablesTypeOK, parcelVars, tableVars
  <2> QED BY <1>2, <2>1 DEF CallFails, HomeAssistantTypeOK
<1>3. CASE CallServed
  <2>1. call.who \in Users /\ call.order \in Orders
    BY <1>3 DEF CallServed, HomeAssistantTypeOK
  <2>2. Writes \/ UNCHANGED <<tableVars, read>>
    <3>1. CASE \E b \in BOOLEAN : set_archived(call.who, call.order, b)
      BY <2>1, <3>1 DEF Writes
    <3>2. CASE \E s \in Shipments : sync_shipment(s)
      BY <3>2 DEF Writes
    <3> QED BY <1>3, <3>1, <3>2 DEF CallServed
  <2>3. TablesTypeOK' /\ \A v \in Users : read'[v].at = read[v].at
    <3>1. writes' \in Nat /\ faults' \in Nat /\ UNCHANGED <<deployed, writes, faults>>
      BY <1>3 DEF CallServed, TablesTypeOK
    <3>2. CASE Writes
      BY <3>1, <3>2, WritesType DEF Readers
    <3>3. CASE UNCHANGED <<tableVars, read>>
      BY <3>1, <3>3 DEF TablesTypeOK, tableVars
    <3> QED BY <2>2, <3>2, <3>3
  <2>4. token' \in [Users -> {"none", "valid", "expired"}]
    BY <1>3, <2>1 DEF CallServed, HomeAssistantTypeOK
  <2> QED BY <1>3, <2>3, <2>4 DEF CallServed, HomeAssistantTypeOK
<1> QED BY <1>1, <1>2, <1>3

LEMMA HomeAssistantNextType ==
    ASSUME TablesTypeOK, HomeAssistantTypeOK, ServicesHaveClient, HomeAssistantNext
    PROVE  TablesTypeOK' /\ HomeAssistantTypeOK'
<1>1. ASSUME NEW u \in Users, RequestFails(u)
      PROVE  TablesTypeOK' /\ HomeAssistantTypeOK'
  <2>1. faults' \in Nat
    BY <1>1 DEF RequestFails, TablesTypeOK
  <2> QED BY <1>1, <2>1, UpdateFailedType DEF RequestFails
<1>2. ASSUME NEW u \in Users, TokenExpires(u)
      PROVE  TablesTypeOK' /\ HomeAssistantTypeOK'
  <2>1. TablesTypeOK' /\ read' = read
    BY <1>2 DEF TokenExpires, TablesTypeOK, tableVars
  <2>2. token' \in [Users -> {"none", "valid", "expired"}]
    BY <1>2 DEF TokenExpires, HomeAssistantTypeOK
  <2> QED BY <1>2, <2>1, <2>2 DEF TokenExpires, HomeAssistantTypeOK
<1>3. ASSUME NEW u \in Users, UnloadFails(u)
      PROVE  TablesTypeOK' /\ HomeAssistantTypeOK'
  <2>1. TablesTypeOK' /\ read' = read
    BY <1>3 DEF UnloadFails, Fault, TablesTypeOK, tableVars
  <2>2. entry' \in [Users -> {"none", "retry", "setup"} \cup Loaded]
    BY <1>3 DEF UnloadFails, HomeAssistantTypeOK, Loaded
  <2> QED BY <1>3, <2>1, <2>2 DEF UnloadFails, HomeAssistantTypeOK
<1> QED BY <1>1, <1>2, <1>3, PollStepType, SetupStepType, CallType DEF HomeAssistantNext

-----------------------------------------------------------------------------
(* Types of the workers.                                                   *)

LEMMA TrackingNextType ==
    ASSUME TablesTypeOK, TrackingWorkerTypeOK, TrackingWorkerNext
    PROVE  TablesTypeOK' /\ TrackingWorkerTypeOK' /\ \A u \in Users : read'[u].at = read[u].at
<1> USE NoneAssumption, TicksAssumption, KeysAssumption
<1>0. Mqtt \in Readers /\ Mqtt \notin Users /\ Users \subseteq Readers
  BY DEF Readers
<1>1. CASE Tick \/ TrackingJob \/ TrackingEnds
  <2>1. UNCHANGED <<deployed, tableVars, read, writes>> /\ faults' \in Nat
    BY <1>1 DEF Tick, TrackingJob, TrackingEnds, Fault, parcelVars, TablesTypeOK
  <2>2. TrackingWorkerTypeOK'
    <3>1. Later1(last_tracking_sync, PollTicks) \in Nat \cup {None}
          /\ Later1(last_mqtt_publish, PublishTicks) \in Nat \cup {None}
      BY DEF TrackingWorkerTypeOK, Later1, _due
    <3>2. job' \in {"sleep", "check_tracking", "tracking", "check_mqtt", "publish"}
      BY <1>1 DEF Tick, TrackingJob, TrackingEnds
    <3>3. last_tracking_sync' \in Nat \cup {None} /\ last_mqtt_publish' \in Nat \cup {None}
      BY <1>1, <3>1 DEF Tick, TrackingJob, TrackingEnds, TrackingWorkerTypeOK
    <3>4. due' \subseteq Shipments
      BY <1>1 DEF Tick, TrackingJob, TrackingEnds, list_non_terminal, TrackingWorkerTypeOK, TablesTypeOK
    <3> QED BY <3>2, <3>3, <3>4 DEF TrackingWorkerTypeOK
  <2> QED BY <2>1, <2>2 DEF TablesTypeOK, tableVars
<1>2. CASE TrackingCommit
  <2>1. Writes
    BY <1>2 DEF TrackingCommit, Writes, TrackingWorkerTypeOK
  <2>2. UNCHANGED deployed /\ writes' \in Nat /\ faults' \in Nat
    BY <1>2 DEF TrackingCommit, ByUser, TablesTypeOK
  <2> QED BY <1>0, <1>2, <2>1, <2>2, WritesType DEF TrackingCommit, workerVars, TrackingWorkerTypeOK
<1>3. CASE PassRaises \/ WorkerDies
  <2>1. Restart /\ faults' \in Nat
    BY <1>3 DEF PassRaises, WorkerDies, Fault, TablesTypeOK
  <2>2. TablesTypeOK' /\ \A v \in Readers \ {Mqtt} : read'[v] = read[v]
    BY <1>0, <2>1, IdleType, OneReader DEF Restart
  <2> QED BY <1>0, <2>1, <2>2 DEF Restart, TrackingWorkerTypeOK
<1>4. CASE MqttJob
  <2>1. TablesTypeOK' /\ \A v \in Readers \ {Mqtt} : read'[v] = read[v]
    <3>1. faults' \in Nat /\ UNCHANGED <<deployed, tableVars, writes>>
      BY <1>4 DEF MqttJob, TablesTypeOK
    <3>2. CASE read' = [read EXCEPT ![Mqtt] = [Idle EXCEPT !.at = 1]]
      BY <1>0, <3>1, <3>2, IdleType, OneReader
    <3>3. CASE read' = read
      BY <1>4, <3>3 DEF MqttJob, TablesTypeOK, tableVars
    <3> QED BY <1>4, <3>2, <3>3 DEF MqttJob
  <2> QED BY <1>0, <1>4, <2>1 DEF MqttJob, TrackingWorkerTypeOK
<1>5. CASE Query
  <2>0. read[Mqtt] \in Reader
    BY <1>0 DEF TablesTypeOK
  <2>1. TablesTypeOK' /\ \A v \in Readers \ {Mqtt} : read'[v] = read[v]
    <3>1. CASE /\ Publication[read[Mqtt].at] \in Statements
               /\ Count(Mqtt, Publication[read[Mqtt].at], AllSelected(Publication[read[Mqtt].at]))
      <4>1. \A q : AllSelected(q) \in SUBSET Shipments
        BY DEF AllSelected, count_all_delivered_on, count_all_by_status, TablesTypeOK
      <4> QED BY <1>0, <3>1, <4>1, CountType
    <3>2. CASE /\ read' = [read EXCEPT ![Mqtt].at = @ + 1, ![Mqtt].next = next_delivery_date]
               /\ UNCHANGED <<deployed, tableVars, writes, faults>>
      <4> DEFINE n == next_delivery_date
                 x == [read[Mqtt] EXCEPT !.at = read[Mqtt].at + 1, !.next = n]
      <4>1. n \in Days \cup {None}
        <5>1. {ship[s].est : s \in Expected(rows)} \in SUBSET (Days \cup {None})
          BY DEF TablesTypeOK, Expected, Ship
        <5> QED BY <5>1, DatesType DEF next_delivery_date
      <4>2. read' = [read EXCEPT ![Mqtt] = x]
        BY <1>0, <3>2 DEF TablesTypeOK
      <4> HIDE DEF n
      <4>3. x \in Reader
        <5>1. read[Mqtt].at + 1 \in Nat
          BY <2>0 DEF Reader
        <5> QED BY <2>0, <4>1, <5>1 DEF Reader
      <4> HIDE DEF x
      <4>4. faults' \in Nat
        BY <3>2 DEF TablesTypeOK
      <4> QED BY <1>0, <3>2, <4>2, <4>3, <4>4, OneReader
    <3> QED BY <1>5, <3>1, <3>2 DEF Query
  <2> QED BY <1>0, <1>5, <2>1 DEF Query, workerVars, TrackingWorkerTypeOK
<1>6. CASE Publish \/ PublishFails
  <2>1. Published /\ faults' \in Nat /\ UNCHANGED <<deployed, tableVars, writes, due, last_tracking_sync>>
    BY <1>6 DEF Publish, PublishFails, Fault, TablesTypeOK
  <2>2. TablesTypeOK' /\ \A v \in Readers \ {Mqtt} : read'[v] = read[v]
    BY <1>0, <2>1, IdleType, OneReader DEF Published
  <2> QED BY <1>0, <2>1, <2>2 DEF Published, TrackingWorkerTypeOK
<1> QED BY <1>1, <1>2, <1>3, <1>4, <1>5, <1>6 DEF TrackingWorkerNext, WorkerStep

LEMMA FirstType == First \in Tokens
<1>1. \E t \in Tokens : \A u \in Tokens : t <= u
  BY TokensAssumption, SmallestExists
<1> QED BY <1>1 DEF First

LEMMA NoSyncType ==
    /\ NoSync \in Sync /\ NoSync.step = "idle" /\ NoSync.acct = None
    /\ NoSync.shown = None /\ NoSync.got = None
BY DEF NoSync, Sync

\* A syncer that is at work is at work on an account.
Busy(x) == x \in Sync /\ (x.acct = None <=> x.step = "idle")

\* The state of the syncers is of its type.
SyncType == sync \in [Syncers -> Sync] /\ \A s \in Syncers : Busy(sync[s])

\* What the worker's session has loaded.
SessionType == /\ loaded \in [Mailboxes -> Tokens \cup {None}]
               /\ seen \in [Mailboxes -> {"recent", "due", "expired", None}]

LEMMA SyncIs ==
    ASSUME ImportWorkerTypeOK
    PROVE  SyncType
BY DEF ImportWorkerTypeOK, SyncType, Busy

LEMMA AcctIs ==
    ASSUME ImportWorkerTypeOK, NEW s \in Syncers, sync[s].step # "idle"
    PROVE  sync[s] \in Sync /\ sync[s].acct \in Mailboxes
BY SyncIs DEF SyncType, Busy, Sync

\* One syncer goes on.
LEMMA OneSyncer ==
    ASSUME ImportWorkerTypeOK, NEW s \in Syncers, NEW x, Busy(x), sync' = [sync EXCEPT ![s] = x]
    PROVE  SyncType' /\ sync'[s] = x /\ \A v \in Syncers \ {s} : sync'[v] = sync[v]
BY SyncIs DEF SyncType, Busy

LEMMA EndType ==
    ASSUME ImportWorkerTypeOK, NEW s \in Syncers, End(s)
    PROVE  SyncType' /\ sync'[s] = NoSync /\ \A v \in Syncers \ {s} : sync'[v] = sync[v]
<1>1. Busy(NoSync)
  BY NoSyncType DEF Busy
<1> QED BY <1>1, OneSyncer DEF End

LEMMA DieType ==
    ASSUME ImportWorkerTypeOK, Die
    PROVE  /\ left' \subseteq Mailboxes /\ SessionType'
           /\ loaded' = [a \in Mailboxes |-> None] /\ SyncType'
           /\ sync'[Worker] = NoSync /\ \A v \in Syncers \ {Worker} : sync'[v] = sync[v]
BY EndType DEF Die, Syncers, SessionType

LEMMA BeginSyncType ==
    ASSUME ImportWorkerTypeOK, NEW s \in Syncers, NEW a \in Mailboxes,
           NEW x \in Tokens \cup {None}, BeginSync(s, a, x)
    PROVE  /\ SyncType' /\ \A v \in Syncers \ {s} : sync'[v] = sync[v]
           /\ sync'[s] = IF a \in OAuth
                         THEN [step |-> "redeem", acct |-> a, shown |-> x, got |-> None]
                         ELSE [NoSync EXCEPT !.step = "fetch", !.acct = a]
<1> DEFINE y == IF a \in OAuth THEN [step |-> "redeem", acct |-> a, shown |-> x, got |-> None]
                ELSE [NoSync EXCEPT !.step = "fetch", !.acct = a]
<1>0. a # None
  BY SyncersAssumption
<1>1. Busy([step |-> "redeem", acct |-> a, shown |-> x, got |-> None])
  BY <1>0 DEF Sync, Busy
<1>2. Busy([NoSync EXCEPT !.step = "fetch", !.acct = a])
  BY <1>0 DEF NoSync, Sync, Busy
<1>3. Busy(y)
  BY <1>1, <1>2
<1>4. sync' = [sync EXCEPT ![s] = y]
  BY DEF BeginSync
<1> HIDE DEF y
<1>5. SyncType' /\ sync'[s] = y /\ \A v \in Syncers \ {s} : sync'[v] = sync[v]
  BY <1>3, <1>4, OneSyncer
<1> QED BY <1>5 DEF y

\* The refresh of a token, in terms of the state of the syncer.
LEMMA RefreshType ==
    ASSUME ImportWorkerTypeOK, NEW s \in Syncers, refresh_access_token(s)
    PROVE  /\ SyncType' /\ \A v \in Syncers \ {s} : sync'[v] = sync[v]
           /\ sync[s].acct \in Mailboxes
           /\ sync'[s].step = "commit" /\ sync'[s].acct = sync[s].acct
           /\ sync'[s].shown = sync[s].shown /\ sync'[s].got \in Tokens
           /\ sync'[s].got = sync[s].shown \/ Fresh(sync[s].acct, sync'[s].got)
           /\ live' = [live EXCEPT ![sync[s].acct] =
                         (live[sync[s].acct] \ {sync[s].shown}) \cup {sync'[s].got}]
           /\ live' \in [Mailboxes -> SUBSET Tokens]
<1> DEFINE a == sync[s].acct
<1>0. sync[s].step = "redeem"
  BY DEF refresh_access_token
<1>1. sync[s] \in Sync /\ a \in Mailboxes /\ a # None
  BY <1>0, AcctIs, SyncersAssumption
<1>2. PICK t \in Tokens :
        /\ t = sync[s].shown \/ Fresh(a, t)
        /\ live' = [live EXCEPT ![a] = (live[a] \ {sync[s].shown}) \cup {t}]
        /\ sync' = [sync EXCEPT ![s].step = "commit", ![s].got = t]
  BY DEF refresh_access_token
<1> DEFINE x == [sync[s] EXCEPT !.step = "commit", !.got = t]
<1>3. x \in Sync /\ x.step = "commit" /\ x.acct = a /\ x.shown = sync[s].shown /\ x.got = t
  BY <1>1 DEF Sync
<1>4. sync' = [sync EXCEPT ![s] = x]
  BY <1>2 DEF ImportWorkerTypeOK
<1> HIDE DEF x
<1>5. SyncType' /\ sync'[s] = x /\ \A v \in Syncers \ {s} : sync'[v] = sync[v]
  <2>1. Busy(x)
    BY <1>1, <1>3 DEF Busy
  <2> QED BY <1>4, <2>1, OneSyncer
<1>6. live' \in [Mailboxes -> SUBSET Tokens]
  BY <1>1, <1>2 DEF ImportWorkerTypeOK
<1> QED BY <1>1, <1>2, <1>3, <1>5, <1>6

\* The steps of a sync that leave the tables as they are.
LEMMA SyncStepType ==
    ASSUME ImportWorkerTypeOK, NEW s \in Syncers,
           refresh_access_token(s) \/ RefreshRefused(s) \/ StoreToken(s) \/ Fetch(s)
    PROVE  ImportWorkerTypeOK' /\ UNCHANGED parcelVars
<1> DEFINE a == sync[s].acct
<1>1. CASE refresh_access_token(s)
  <2>1. SyncType' /\ live' \in [Mailboxes -> SUBSET Tokens]
    BY <1>1, RefreshType
  <2> QED BY <1>1, <2>1 DEF refresh_access_token, ImportWorkerTypeOK, SyncType, Busy
<1>2. CASE RefreshRefused(s)
  <2>1. SyncType'
    BY <1>2, EndType DEF RefreshRefused
  <2> QED BY <1>2, <2>1 DEF RefreshRefused, ImportWorkerTypeOK, SyncType, Busy
<1>3. CASE StoreToken(s)
  <2>0. sync[s] \in Sync /\ a \in Mailboxes /\ a # None /\ sync[s].got \in Tokens \cup {None}
    <3>1. sync[s].step = "commit"
      BY <1>3 DEF StoreToken
    <3>2. sync[s] \in Sync /\ a \in Mailboxes
      BY <3>1, AcctIs
    <3> QED BY <3>2, SyncersAssumption DEF Sync
  <2>1. stored' \in [Mailboxes -> Tokens \cup {None}]
    BY <1>3, <2>0 DEF StoreToken, ImportWorkerTypeOK
  <2>2. SyncType'
    <3> DEFINE x == [NoSync EXCEPT !.step = "fetch", !.acct = a]
    <3>1. Busy(x)
      BY <2>0 DEF NoSync, Sync, Busy
    <3>2. sync' = [sync EXCEPT ![s] = x]
      BY <1>3 DEF StoreToken
    <3> HIDE DEF x
    <3> QED BY <3>1, <3>2, OneSyncer
  <2>3. SessionType'
    BY <1>3 DEF StoreToken, Expires, ImportWorkerTypeOK, SessionType
  <2>4. lost' \subseteq Mailboxes
    BY <1>3, <2>0 DEF StoreToken, ImportWorkerTypeOK
  <2> QED BY <1>3, <2>1, <2>2, <2>3, <2>4
          DEF StoreToken, ImportWorkerTypeOK, SyncType, Busy, SessionType
<1>4. CASE Fetch(s)
  <2>1. SyncType'
    <3> DEFINE x == [sync[s] EXCEPT !.step = "save"]
    <3>1. sync[s].step = "fetch"
      BY <1>4 DEF Fetch
    <3>2. sync[s] \in Sync /\ sync[s].acct # None
      BY <3>1, AcctIs, SyncersAssumption
    <3>3. Busy(x)
      BY <3>2 DEF Sync, Busy
    <3>4. sync' = [sync EXCEPT ![s] = x]
      BY <1>4 DEF Fetch, ImportWorkerTypeOK
    <3> HIDE DEF x
    <3> QED BY <3>3, <3>4, OneSyncer
  <2> QED BY <1>4, <2>1 DEF Fetch, ImportWorkerTypeOK, SyncType, Busy
<1> QED BY <1>1, <1>2, <1>3, <1>4

LEMMA SaveType ==
    ASSUME TablesTypeOK, ImportWorkerTypeOK, NEW s \in Syncers, Save(s)
    PROVE  /\ TablesTypeOK' /\ ImportWorkerTypeOK' /\ \A r \in Readers : read'[r].at = read[r].at
           /\ sync'[s] = NoSync /\ \A v \in Syncers \ {s} : sync'[v] = sync[v]
<1>1. sync[s].step = "save"
  BY DEF Save
<1>2. sync[s].acct \in Mailboxes
  BY <1>1, AcctIs
<1>3. SyncType' /\ sync'[s] = NoSync /\ \A v \in Syncers \ {s} : sync'[v] = sync[v]
  BY EndType DEF Save
<1>4. last_synced' \in [Mailboxes -> {"recent", "due", None}]
  BY <1>2 DEF Save, ImportWorkerTypeOK
<1>5. SessionType'
  BY DEF Save, Expires, ImportWorkerTypeOK, SessionType
<1>6. ImportWorkerTypeOK'
  BY <1>3, <1>4, <1>5 DEF Save, ImportWorkerTypeOK, SyncType, Busy, SessionType
<1>7. TablesTypeOK' /\ \A r \in Readers : read'[r].at = read[r].at
  <2>1. CASE ByUser /\ \E u \in Users, O \in SUBSET Orders, S \in SUBSET Shipments : import_mail(u, O, S)
    <3>1. Writes
      BY <2>1 DEF Writes
    <3>2. UNCHANGED deployed /\ writes' \in Nat /\ faults' \in Nat
      BY <2>1 DEF ByUser, TablesTypeOK
    <3> QED BY <3>1, <3>2, WritesType
  <2>2. CASE UNCHANGED parcelVars
    BY <2>2 DEF TablesTypeOK, parcelVars, tableVars
  <2> QED BY <2>1, <2>2 DEF Save
<1> QED BY <1>3, <1>6, <1>7

\* The steps that only count on the tables' bounds.
LEMMA ImportOtherType ==
    ASSUME TablesTypeOK, ImportWorkerTypeOK,
           \/ \E s \in Syncers : SyncFails(s) \/ FlushFails(s) \/ Killed(s)
           \/ list_active
           \/ \E a \in Mailboxes : \/ NextAccount(a) \/ sync_mail_account(a) \/ Elapse(a)
                                   \/ Revoke(a) \/ _reconnect_oauth_account(a)
    PROVE  TablesTypeOK' /\ ImportWorkerTypeOK' /\ read' = read
<1> USE DEF Syncers
<1>1. ASSUME NEW s \in Syncers, SyncFails(s)
      PROVE  TablesTypeOK' /\ ImportWorkerTypeOK' /\ read' = read
  <2>1. SyncType'
    BY <1>1, EndType DEF SyncFails
  <2>2. TablesTypeOK' /\ read' = read
    BY <1>1 DEF SyncFails, Fault, TablesTypeOK, tableVars
  <2>3. lost' \subseteq Mailboxes
    <3>1. sync[s].acct \in Mailboxes
      BY <1>1, AcctIs DEF SyncFails
    <3> QED BY <1>1, <3>1 DEF SyncFails, Forgets, ImportWorkerTypeOK
  <2>4. UNCHANGED <<left, loaded, seen, last_synced, stored, live>>
    BY <1>1 DEF SyncFails
  <2> QED BY <2>1, <2>2, <2>3, <2>4 DEF ImportWorkerTypeOK, SyncType, Busy
<1>2. ASSUME NEW s \in Syncers, FlushFails(s) \/ Killed(s)
      PROVE  TablesTypeOK' /\ ImportWorkerTypeOK' /\ read' = read
  <2>1. left' \subseteq Mailboxes /\ SessionType' /\ SyncType'
    <3>1. CASE Die
      BY <3>1, DieType
    <3>2. CASE End(s) /\ UNCHANGED <<left, loaded, seen>>
      <4>1. SyncType'
        BY <3>2, EndType
      <4> QED BY <3>2, <4>1 DEF ImportWorkerTypeOK, SessionType
    <3> QED BY <1>2, <3>1, <3>2 DEF FlushFails, Killed
  <2>2. TablesTypeOK' /\ read' = read
    BY <1>2 DEF FlushFails, Killed, Fault, TablesTypeOK, tableVars
  <2>3. lost' \subseteq Mailboxes
    <3>1. sync[s].step = "commit" => sync[s].acct \in Mailboxes
      BY AcctIs
    <3> QED BY <1>2, <3>1 DEF FlushFails, Killed, Forgets, ImportWorkerTypeOK
  <2>4. UNCHANGED <<last_synced, stored, live>>
    BY <1>2 DEF FlushFails, Killed
  <2> QED BY <2>1, <2>2, <2>3, <2>4 DEF ImportWorkerTypeOK, SyncType, Busy, SessionType
<1>3. CASE list_active
  <2>1. left' \subseteq Mailboxes
    BY <1>3, DeploymentsAssumption DEF list_active, TablesTypeOK, Deployment
  <2>2. TablesTypeOK' /\ read' = read
    BY <1>3 DEF list_active, TablesTypeOK, parcelVars, tableVars
  <2> QED BY <1>3, <2>1, <2>2 DEF list_active, ImportWorkerTypeOK
<1>4. ASSUME NEW a \in Mailboxes, NextAccount(a)
      PROVE  TablesTypeOK' /\ ImportWorkerTypeOK' /\ read' = read
  <2>1. left' \subseteq Mailboxes /\ SessionType' /\ SyncType'
    <3>1. CASE Die
      BY <3>1, DieType
    <3>2. CASE /\ BeginSync(Worker, a, IF loaded[a] = None THEN stored[a] ELSE loaded[a])
               /\ left' = left \ {a} /\ UNCHANGED <<loaded, seen>>
      <4>1. (IF loaded[a] = None THEN stored[a] ELSE loaded[a]) \in Tokens \cup {None}
        BY DEF ImportWorkerTypeOK
      <4>2. SyncType'
        BY <3>2, <4>1, BeginSyncType
      <4> QED BY <3>2, <4>2 DEF ImportWorkerTypeOK, SessionType
    <3>3. CASE left' = left \ {a} /\ UNCHANGED <<loaded, seen, sync>>
      BY <3>3, SyncIs DEF ImportWorkerTypeOK, SyncType, Busy, SessionType
    <3> QED BY <1>4, <3>1, <3>2, <3>3 DEF NextAccount
  <2>2. TablesTypeOK' /\ read' = read
    BY <1>4 DEF NextAccount, TablesTypeOK, parcelVars, tableVars
  <2> QED BY <1>4, <2>1, <2>2 DEF NextAccount, ImportWorkerTypeOK, SyncType, Busy, SessionType
<1>5. ASSUME NEW a \in Mailboxes, sync_mail_account(a)
      PROVE  TablesTypeOK' /\ ImportWorkerTypeOK' /\ read' = read
  <2>1. SyncType'
    <3>1. stored[a] \in Tokens \cup {None}
      BY DEF ImportWorkerTypeOK
    <3> QED BY <1>5, <3>1, BeginSyncType DEF sync_mail_account
  <2>2. TablesTypeOK' /\ read' = read
    BY <1>5 DEF sync_mail_account, ByUser, TablesTypeOK, tableVars
  <2> QED BY <1>5, <2>1, <2>2 DEF sync_mail_account, ImportWorkerTypeOK, SyncType, Busy
<1>6. ASSUME NEW a \in Mailboxes, Elapse(a)
      PROVE  TablesTypeOK' /\ ImportWorkerTypeOK' /\ read' = read
  <2>1. TablesTypeOK' /\ read' = read
    BY <1>6 DEF Elapse, TablesTypeOK, parcelVars, tableVars
  <2>2. last_synced' \in [Mailboxes -> {"recent", "due", None}]
    BY <1>6 DEF Elapse, ImportWorkerTypeOK
  <2> QED BY <1>6, <2>1, <2>2 DEF Elapse, ImportWorkerTypeOK
<1>7. ASSUME NEW a \in Mailboxes, Revoke(a)
      PROVE  TablesTypeOK' /\ ImportWorkerTypeOK' /\ read' = read
  <2>1. TablesTypeOK' /\ read' = read
    BY <1>7 DEF Revoke, TablesTypeOK, tableVars
  <2>2. live' \in [Mailboxes -> SUBSET Tokens] /\ lost' \subseteq Mailboxes
    BY <1>7 DEF Revoke, ImportWorkerTypeOK
  <2> QED BY <1>7, <2>1, <2>2 DEF Revoke, ImportWorkerTypeOK
<1>8. ASSUME NEW a \in Mailboxes, _reconnect_oauth_account(a)
      PROVE  TablesTypeOK' /\ ImportWorkerTypeOK' /\ read' = read
  <2>1. TablesTypeOK' /\ read' = read
    BY <1>8 DEF _reconnect_oauth_account, ByUser, TablesTypeOK, tableVars
  <2>2. PICK t \in Tokens : stored' = [stored EXCEPT ![a] = t]
                            /\ live' = [live EXCEPT ![a] = live[a] \cup {t}]
    BY <1>8 DEF _reconnect_oauth_account
  <2>3. stored' \in [Mailboxes -> Tokens \cup {None}] /\ live' \in [Mailboxes -> SUBSET Tokens]
    BY <2>2 DEF ImportWorkerTypeOK
  <2>4. lost' \subseteq Mailboxes
    BY <1>8 DEF _reconnect_oauth_account, ImportWorkerTypeOK
  <2> QED BY <1>8, <2>1, <2>3, <2>4 DEF _reconnect_oauth_account, ImportWorkerTypeOK
<1> QED BY <1>1, <1>2, <1>3, <1>4, <1>5, <1>6, <1>7, <1>8

LEMMA ImportNextType ==
    ASSUME TablesTypeOK, ImportWorkerTypeOK, ImportWorkerNext
    PROVE  TablesTypeOK' /\ ImportWorkerTypeOK' /\ \A u \in Users : read'[u].at = read[u].at
<1>1. ASSUME NEW s \in Syncers, SyncStep(s)
      PROVE  TablesTypeOK' /\ ImportWorkerTypeOK' /\ \A u \in Users : read'[u].at = read[u].at
  <2>1. CASE Save(s)
    BY <1>1, <2>1, SaveType DEF Readers
  <2>2. CASE refresh_access_token(s) \/ RefreshRefused(s) \/ StoreToken(s) \/ Fetch(s)
    <3>1. ImportWorkerTypeOK' /\ UNCHANGED parcelVars
      BY <2>2, SyncStepType
    <3> QED BY <3>1 DEF TablesTypeOK, parcelVars, tableVars
  <2>3. CASE SyncFails(s) \/ FlushFails(s)
    <3>1. TablesTypeOK' /\ ImportWorkerTypeOK' /\ read' = read
      BY <2>3, ImportOtherType
    <3> QED BY <3>1
  <2> QED BY <1>1, <2>1, <2>2, <2>3 DEF SyncStep
<1>2. Worker \in Syncers /\ Request \in Syncers
  BY DEF Syncers
<1>3. CASE \/ \E s \in Syncers : SyncFails(s) \/ FlushFails(s) \/ Killed(s)
           \/ list_active
           \/ \E a \in Mailboxes : \/ NextAccount(a) \/ sync_mail_account(a) \/ Elapse(a)
                                   \/ Revoke(a) \/ _reconnect_oauth_account(a)
  <2>1. TablesTypeOK' /\ ImportWorkerTypeOK' /\ read' = read
    BY <1>3, ImportOtherType
  <2> QED BY <2>1
<1> QED BY <1>1, <1>2, <1>3 DEF ImportWorkerNext, ImportStep

-----------------------------------------------------------------------------
(* The services and the entries.                                           *)

\* A step that neither loads nor unloads an entry.
LEMMA SameEntries ==
    ASSUME ServicesHaveClient, UNCHANGED <<hass_data, services>>,
           \A u \in Users : entry'[u] \in Loaded <=> entry[u] \in Loaded
    PROVE  ServicesHaveClient'
BY DEF ServicesHaveClient

\* An entry that changes within, or outside of, the loaded ones.
LEMMA EntryMoves ==
    ASSUME HomeAssistantTypeOK, ServicesHaveClient, UNCHANGED <<hass_data, services>>,
           NEW u \in Users, NEW e, entry' = [entry EXCEPT ![u] = e],
           e \in Loaded <=> entry[u] \in Loaded
    PROVE  ServicesHaveClient'
<1>1. \A v \in Users : entry'[v] \in Loaded <=> entry[v] \in Loaded
  BY DEF HomeAssistantTypeOK
<1> QED BY <1>1, SameEntries

\* An entry is added to hass.data after its first refresh.
LEMMA AppendClient ==
    ASSUME HomeAssistantTypeOK, ServicesHaveClient, NEW u \in Users, entry[u] = "setup",
           entry' = [entry EXCEPT ![u] = "forward"], hass_data' = Append(hass_data, u),
           services' = TRUE
    PROVE  ServicesHaveClient'
<1> DEFINE n == Len(hass_data)
<1>1. hass_data \in Seq(Users) /\ n \in Nat /\ DOMAIN hass_data = 1 .. n
  BY DEF HomeAssistantTypeOK
<1>2. /\ Len(hass_data') = n + 1 /\ DOMAIN hass_data' = 1 .. (n + 1)
      /\ hass_data'[n + 1] = u /\ \A i \in 1 .. n : hass_data'[i] = hass_data[i]
  BY <1>1
<1>3. entry[u] \notin Loaded /\ entry'[u] \in Loaded /\ \A v \in Users \ {u} : entry'[v] = entry[v]
  BY DEF HomeAssistantTypeOK, Loaded
<1>4. \A i \in 1 .. n : hass_data[i] # u
  BY <1>1, <1>3 DEF ServicesHaveClient
<1>5. services' <=> hass_data' # <<>>
  BY <1>2
<1>6. \A v \in Users : entry'[v] \in Loaded <=> \E i \in DOMAIN hass_data' : hass_data'[i] = v
  <2>1. \A v \in Users \ {u} : (\E i \in 1 .. n : hass_data[i] = v)
                                 <=> \E i \in 1 .. (n + 1) : hass_data'[i] = v
    BY <1>1, <1>2
  <2>2. \A v \in Users : entry[v] \in Loaded <=> \E i \in 1 .. n : hass_data[i] = v
    BY <1>1 DEF ServicesHaveClient
  <2>3. \E i \in DOMAIN hass_data' : hass_data'[i] = u
    BY <1>1, <1>2
  <2> QED BY <1>2, <1>3, <2>1, <2>2, <2>3
<1>7. \A i, j \in DOMAIN hass_data' : hass_data'[i] = hass_data'[j] => i = j
  <2>1. \A i, j \in 1 .. n : hass_data[i] = hass_data[j] => i = j
    BY <1>1 DEF ServicesHaveClient
  <2> QED BY <1>1, <1>2, <1>4, <2>1
<1> QED BY <1>5, <1>6, <1>7 DEF ServicesHaveClient

\* An entry is unloaded.
LEMMA PopClient ==
    ASSUME HomeAssistantTypeOK, ServicesHaveClient, NEW u \in Users, entry[u] = "unload",
           NEW e \in {"none", "retry"}, entry' = [entry EXCEPT ![u] = e], hass_data_pop(u),
           services' = (services /\ hass_data' # <<>>)
    PROVE  ServicesHaveClient'
<1> DEFINE n == Len(hass_data)
<1>1. hass_data \in Seq(Users) /\ n \in Nat /\ DOMAIN hass_data = 1 .. n
  BY DEF HomeAssistantTypeOK
<1>2. PICK k \in 1 .. n :
        /\ hass_data[k] = u
        /\ hass_data' = [j \in 1 .. (n - 1) |-> hass_data[IF j < k THEN j ELSE j + 1]]
  BY <1>1 DEF hass_data_pop
<1>3. /\ DOMAIN hass_data' = 1 .. (n - 1)
      /\ \A j \in 1 .. (n - 1) : hass_data'[j] = hass_data[IF j < k THEN j ELSE j + 1]
  BY <1>2
<1>4. \A i, j \in 1 .. n : hass_data[i] = hass_data[j] => i = j
  BY <1>1 DEF ServicesHaveClient
<1>5. entry'[u] \notin Loaded /\ \A v \in Users \ {u} : entry'[v] = entry[v]
  BY DEF HomeAssistantTypeOK, Loaded
<1>6. services' <=> hass_data' # <<>>
  <2>1. services
    BY <1>1, <1>2 DEF ServicesHaveClient
  <2> QED BY <2>1
<1>7. \A v \in Users : entry'[v] \in Loaded <=> \E i \in DOMAIN hass_data' : hass_data'[i] = v
  <2>1. ASSUME NEW j \in 1 .. (n - 1) PROVE hass_data'[j] # u
    <3>1. (IF j < k THEN j ELSE j + 1) \in 1 .. n /\ (IF j < k THEN j ELSE j + 1) # k
      BY <1>1, <1>2
    <3> QED BY <1>2, <1>3, <1>4, <3>1
  <2>2. ASSUME NEW v \in Users \ {u}, NEW i \in 1 .. n, hass_data[i] = v
        PROVE  \E j \in 1 .. (n - 1) : hass_data'[j] = v
    <3>1. i # k
      BY <1>2, <2>2
    <3>2. CASE i < k
      <4>1. i \in 1 .. (n - 1)
        BY <1>1, <1>2, <3>2
      <4> QED BY <1>3, <2>2, <3>2, <4>1
    <3>3. CASE i > k
      <4>1. i - 1 \in 1 .. (n - 1) /\ ~(i - 1 < k) /\ (i - 1) + 1 = i
        BY <1>1, <1>2, <3>3
      <4>2. hass_data'[i - 1] = hass_data[i]
        BY <1>3, <4>1
      <4> QED BY <2>2, <4>1, <4>2
    <3> QED BY <1>1, <1>2, <3>1, <3>2, <3>3
  <2>3. ASSUME NEW v \in Users \ {u}, NEW j \in 1 .. (n - 1), hass_data'[j] = v
        PROVE  \E i \in 1 .. n : hass_data[i] = v
    <3>1. (IF j < k THEN j ELSE j + 1) \in 1 .. n
      BY <1>1, <1>2
    <3> QED BY <1>3, <2>3, <3>1
  <2>4. \A v \in Users : entry[v] \in Loaded <=> \E i \in 1 .. n : hass_data[i] = v
    BY <1>1 DEF ServicesHaveClient
  <2>5. ASSUME NEW v \in Users \ {u}
        PROVE  entry'[v] \in Loaded <=> \E i \in 1 .. (n - 1) : hass_data'[i] = v
    BY <1>5, <2>2, <2>3, <2>4
  <2> QED BY <1>3, <1>5, <2>1, <2>5
<1>8. \A i, j \in DOMAIN hass_data' : hass_data'[i] = hass_data'[j] => i = j
  <2> SUFFICES ASSUME NEW i \in 1 .. (n - 1), NEW j \in 1 .. (n - 1), hass_data'[i] = hass_data'[j]
               PROVE  i = j
    BY <1>3
  <2> DEFINE x == IF i < k THEN i ELSE i + 1
             y == IF j < k THEN j ELSE j + 1
  <2>1. x \in 1 .. n /\ y \in 1 .. n
    BY <1>1, <1>2
  <2>2. hass_data[x] = hass_data[y]
    BY <1>3
  <2>3. x = y
    BY <1>4, <2>1, <2>2
  <2> QED BY <1>1, <1>2, <2>3
<1> QED BY <1>6, <1>7, <1>8 DEF ServicesHaveClient

LEMMA HomeAssistantNextClient ==
    ASSUME HomeAssistantTypeOK, ServicesHaveClient, HomeAssistantNext
    PROVE  ServicesHaveClient'
<1>1. ASSUME NEW u \in Users, UpdateFailed(u)
      PROVE  ServicesHaveClient'
  <2>1. UNCHANGED <<hass_data, services>>
        /\ entry' = [entry EXCEPT ![u] = IF entry[u] = "setup" THEN "retry" ELSE entry[u]]
    BY <1>1 DEF UpdateFailed
  <2>2. (IF entry[u] = "setup" THEN "retry" ELSE entry[u]) \in Loaded <=> entry[u] \in Loaded
    BY DEF Loaded
  <2> QED BY <2>1, <2>2, EntryMoves
<1>2. ASSUME NEW u \in Users, _request(u)
      PROVE  ServicesHaveClient'
  <2>1. UpdateFailed(u) \/ UNCHANGED <<entry, hass_data, services>>
    BY <1>2 DEF _request
  <2> QED BY <1>1, <2>1, SameEntries
<1>3. ASSUME NEW u \in Users, Updated(u)
      PROVE  ServicesHaveClient'
  <2>1. CASE entry[u] = "setup"
    BY <1>3, <2>1, AppendClient DEF Updated
  <2>2. CASE entry[u] # "setup"
    <3>1. UNCHANGED <<entry, hass_data, services>>
      BY <1>3, <2>2 DEF Updated
    <3> QED BY <3>1, SameEntries
  <2> QED BY <2>1, <2>2
<1>4. ASSUME NEW u \in Users, SetupStep(u) \/ async_step_user(u) \/ async_unload_entry(u)
      PROVE  ServicesHaveClient'
  <2>1. CASE Unloaded(u)
    BY <2>1, PopClient DEF Unloaded
  <2>2. CASE async_setup_entry(u)
    <3>1. entry[u] \notin Loaded /\ "setup" \notin Loaded
      BY <2>2 DEF async_setup_entry, Loaded
    <3> QED BY <2>2, <3>1, EntryMoves DEF async_setup_entry
  <2>3. CASE async_step_user(u)
    <3>1. entry[u] \notin Loaded /\ "retry" \notin Loaded
      BY <2>3 DEF async_step_user, Loaded
    <3> QED BY <2>3, <3>1, EntryMoves DEF async_step_user
  <2>4. CASE Forwarded(u)
    <3>1. entry[u] \in Loaded /\ "loaded" \in Loaded
      BY <2>4 DEF Forwarded, Loaded
    <3> QED BY <2>4, <3>1, EntryMoves DEF Forwarded
  <2>5. CASE async_unload_entry(u)
    <3>1. entry[u] \in Loaded /\ "unload" \in Loaded
      BY <2>5 DEF async_unload_entry, Loaded
    <3> QED BY <2>5, <3>1, EntryMoves DEF async_unload_entry
  <2> QED BY <1>4, <2>1, <2>2, <2>3, <2>4, <2>5 DEF SetupStep
<1>5. ASSUME NEW u \in Users, \/ async_login(u) \/ Serve(u) \/ StartPoll(u) \/ TokenExpires(u)
      PROVE  ServicesHaveClient'
  <2>1. UNCHANGED <<entry, hass_data, services>>
    BY <1>5 DEF async_login, Serve, StartPoll, TokenExpires
  <2> QED BY <2>1, SameEntries
<1>6. CASE (\E svc \in Services, o \in Orders : CallService(svc, o)) \/ CallServed \/ CallFails
  <2>1. UNCHANGED <<entry, hass_data, services>>
    BY <1>6 DEF CallService, CallServed, CallFails
  <2> QED BY <2>1, SameEntries
<1>7. ASSUME NEW u \in Users, UnloadFails(u)
      PROVE  ServicesHaveClient'
  <2>1. "failed" \in Loaded /\ entry[u] \in Loaded
    BY <1>7 DEF UnloadFails, Loaded
  <2> QED BY <1>7, <2>1, EntryMoves DEF UnloadFails
<1> QED BY <1>1, <1>2, <1>3, <1>4, <1>5, <1>6, <1>7 DEF HomeAssistantNext, PollStep, RequestFails

-----------------------------------------------------------------------------
LEMMA ApiType ==
    ASSUME TablesTypeOK, UserStep \/ Midnight
    PROVE  TablesTypeOK' /\ \A u \in Users : read'[u].at = read[u].at
<1>1. CASE UserStep
  <2>1. Writes
    BY <1>1, KeysAssumption DEF UserStep, Writes
  <2>2. UNCHANGED deployed /\ writes' \in Nat /\ faults' \in Nat
    BY <1>1 DEF UserStep, ByUser, TablesTypeOK
  <2> QED BY <2>1, <2>2, WritesType DEF Readers
<1>2. CASE Midnight
  <2>1. deployed.days \in Days
    BY DeploymentsAssumption DEF TablesTypeOK, Deployment
  <2>2. today' \in Days
    BY <1>2, <2>1, LimitAssumption DEF Midnight, TablesTypeOK, Days
  <2> QED BY <1>2, <2>2 DEF Midnight, TablesTypeOK
<1> QED BY <1>1, <1>2

LEMMA InitType == Init => TypeOK /\ ServicesHaveClient
<1> SUFFICES ASSUME Init PROVE TypeOK /\ ServicesHaveClient
  OBVIOUS
<1>1. TablesTypeOK
  <2>1. [NewShip EXCEPT !.status = "label_created"] \in Ship /\ NewShip \in Ship
    BY ShipType, NoneAssumption DEF Statuses
  <2>2. ship \in [Shipments -> Ship]
    BY <2>1 DEF Init, TablesInit
  <2>3. read \in [Readers -> Reader]
    BY IdleType DEF Init, TablesInit
  <2>4. order \in [Orders -> OrderState]
    BY DEF Init, TablesInit, OrderState
  <2> QED BY <2>2, <2>3, <2>4, LimitAssumption DEF Init, TablesInit, TablesTypeOK, Days
<1>2. HomeAssistantTypeOK
  <2>1. \A u \in Users : read[u].at = 0
    BY IdleType DEF Init, TablesInit, Readers
  <2>2. \A u \in Users : read[u].at \in 0 .. Len(Poll)
    BY <2>1, PollProgram
  <2>3. hass_data \in Seq(Users) /\ services \in BOOLEAN
    <3>1. hass_data = <<>> /\ services = FALSE
      BY DEF Init, HomeAssistantInit
    <3>2. <<>> \in Seq(Users)
      BY SMT
    <3>3. FALSE \in BOOLEAN
      BY Zenon
    <3> QED BY <3>1, <3>2, <3>3, Zenon
  <2>4. /\ entry \in [Users -> {"none", "retry", "setup"} \cup Loaded]
        /\ token \in [Users -> {"none", "valid", "expired"}]
        /\ step \in [Users -> {"idle", "send", "resend", "login", "again", "run"}]
    BY DEF Init, HomeAssistantInit
  <2>5. call = None
    BY DEF Init, HomeAssistantInit
  <2> QED BY <2>2, <2>3, <2>4, <2>5 DEF HomeAssistantTypeOK
<1>3. TrackingWorkerTypeOK
  BY DEF Init, TrackingWorkerInit, TrackingWorkerTypeOK
<1>4. ImportWorkerTypeOK
  <2>1. sync \in [Syncers -> Sync] /\ \A s \in Syncers : sync[s].acct = None <=> sync[s].step = "idle"
    BY NoSyncType DEF Init, ImportWorkerInit
  <2>2. stored \in [Mailboxes -> Tokens \cup {None}] /\ live \in [Mailboxes -> SUBSET Tokens]
    BY FirstType DEF Init, ImportWorkerInit
  <2> QED BY <2>1, <2>2 DEF Init, ImportWorkerInit, ImportWorkerTypeOK
<1>5. ServicesHaveClient
  BY DEF Init, HomeAssistantInit, ServicesHaveClient, Loaded
<1> QED BY <1>1, <1>2, <1>3, <1>4, <1>5 DEF TypeOK

LEMMA NextType == TypeOK /\ ServicesHaveClient /\ [Next]_vars => TypeOK' /\ ServicesHaveClient'
<1> SUFFICES ASSUME TypeOK, ServicesHaveClient, [Next]_vars PROVE TypeOK' /\ ServicesHaveClient'
  OBVIOUS
<1> USE DEF TypeOK
<1>1. CASE Api(UserStep \/ Midnight)
  <2>1. TablesTypeOK' /\ \A u \in Users : read'[u].at = read[u].at
    BY <1>1, ApiType DEF Api
  <2>2. UNCHANGED <<haVars, workerVars, importVars>>
    BY <1>1 DEF Api
  <2>3. HomeAssistantTypeOK'
    BY <2>1, <2>2, HaKeepsType
  <2>4. TrackingWorkerTypeOK' /\ ImportWorkerTypeOK'
    BY <2>2 DEF workerVars, importVars, TrackingWorkerTypeOK, ImportWorkerTypeOK
  <2>5. ServicesHaveClient'
    BY <2>2 DEF haVars, ServicesHaveClient
  <2> QED BY <2>1, <2>3, <2>4, <2>5
<1>2. CASE Ha(HomeAssistantNext)
  <2>1. TablesTypeOK' /\ HomeAssistantTypeOK'
    BY <1>2, HomeAssistantNextType DEF Ha
  <2>2. ServicesHaveClient'
    BY <1>2, HomeAssistantNextClient DEF Ha
  <2>3. TrackingWorkerTypeOK' /\ ImportWorkerTypeOK'
    BY <1>2 DEF Ha, workerVars, importVars, TrackingWorkerTypeOK, ImportWorkerTypeOK
  <2> QED BY <2>1, <2>2, <2>3
<1>3. CASE Tracking(TrackingWorkerNext)
  <2>1. TablesTypeOK' /\ TrackingWorkerTypeOK' /\ \A u \in Users : read'[u].at = read[u].at
    BY <1>3, TrackingNextType DEF Tracking
  <2>2. UNCHANGED <<haVars, importVars>>
    BY <1>3 DEF Tracking
  <2>3. HomeAssistantTypeOK'
    BY <2>1, <2>2, HaKeepsType
  <2>4. ImportWorkerTypeOK' /\ ServicesHaveClient'
    BY <2>2 DEF haVars, importVars, ImportWorkerTypeOK, ServicesHaveClient
  <2> QED BY <2>1, <2>3, <2>4
<1>4. CASE Import(ImportWorkerNext)
  <2>1. TablesTypeOK' /\ ImportWorkerTypeOK' /\ \A u \in Users : read'[u].at = read[u].at
    BY <1>4, ImportNextType DEF Import
  <2>2. UNCHANGED <<haVars, workerVars>>
    BY <1>4 DEF Import
  <2>3. HomeAssistantTypeOK'
    BY <2>1, <2>2, HaKeepsType
  <2>4. TrackingWorkerTypeOK' /\ ServicesHaveClient'
    BY <2>2 DEF haVars, workerVars, TrackingWorkerTypeOK, ServicesHaveClient
  <2> QED BY <2>1, <2>3, <2>4
<1>5. CASE UNCHANGED vars
  <2>1. TablesTypeOK' /\ HomeAssistantTypeOK'
    BY <1>5 DEF vars, parcelVars, tableVars, haVars, TablesTypeOK, HomeAssistantTypeOK
  <2>2. TrackingWorkerTypeOK' /\ ImportWorkerTypeOK' /\ ServicesHaveClient'
    BY <1>5 DEF vars, haVars, workerVars, importVars, TrackingWorkerTypeOK, ImportWorkerTypeOK,
                ServicesHaveClient
  <2> QED BY <2>1, <2>2
<1> QED BY <1>1, <1>2, <1>3, <1>4, <1>5 DEF Next

\* The variables of the whole installation keep their types, with any number of
\* users, orders, shipments, mailboxes and tokens, and in any deployment.
THEOREM TypeCorrect == Spec => []TypeOK
BY InitType, NextType, PTL DEF Spec

\* The services of Home Assistant can be called exactly while an entry is set up,
\* and an entry is in hass.data once (async_setup_entry, async_unload_entry).
THEOREM ServicesAreServed == Spec => []ServicesHaveClient
BY InitType, NextType, PTL DEF Spec

-----------------------------------------------------------------------------
(* Tokens of the mailboxes.                                                *)

\* s holds a new token that only the provider knows besides.
Unstored(s) == sync[s].step = "commit" /\ sync[s].got # sync[s].shown

\* Nobody else has such a token, ...
OnlyHolder ==
    \A s \in Syncers : Unstored(s) =>
        /\ sync[s].got # stored[sync[s].acct] /\ sync[s].got # loaded[sync[s].acct]
        /\ \A v \in Syncers \ {s} : sync[v].acct = sync[s].acct =>
              sync[s].got # sync[v].shown /\ sync[s].got # sync[v].got

\* ... and it is taken, as long as the mailbox still has the token it replaces.
HeldIsTaken ==
    \A s \in Syncers :
        Unstored(s) /\ sync[s].shown = stored[sync[s].acct] /\ sync[s].acct \notin lost
            => sync[s].got \in live[sync[s].acct]

GotToken == \A s \in Syncers : sync[s].step = "commit" => sync[s].got \in Tokens

TokenInv == GotToken /\ OnlyHolder /\ HeldIsTaken /\ StoredTokenLives

LEMMA NoneIsNoToken == None \notin Tokens
<1>1. None \notin Nat
  BY NoneAssumption
<1> QED BY <1>1, TokensAssumption

\* A syncer that holds no token does something else, and nothing else changes
\* but the tokens in the worker's session, which may expire.
LEMMA OtherWork ==
    ASSUME ImportWorkerTypeOK, TokenInv, NEW s \in Syncers, sync[s].step # "commit",
           sync'[s].step # "commit",
           \/ /\ sync'[s].acct = sync[s].acct /\ sync'[s].shown = sync[s].shown
              /\ sync'[s].got = sync[s].got
           \/ /\ sync'[s].shown \in {None, stored[sync'[s].acct], loaded[sync'[s].acct]}
              /\ sync'[s].got = None,
           \A v \in Syncers \ {s} : sync'[v] = sync[v],
           loaded' = loaded \/ loaded' = [a \in Mailboxes |-> None],
           UNCHANGED <<stored, live, lost>>
    PROVE  TokenInv'
<1>1. GotToken'
  BY DEF TokenInv, GotToken
<1>2. \A v \in Syncers : Unstored(v)' => v # s /\ Unstored(v) /\ sync'[v] = sync[v]
                                     /\ sync[v].acct \in Mailboxes /\ sync[v].got \in Tokens
  <2> SUFFICES ASSUME NEW v \in Syncers, Unstored(v)'
               PROVE  v # s /\ Unstored(v) /\ sync'[v] = sync[v]
                        /\ sync[v].acct \in Mailboxes /\ sync[v].got \in Tokens
    OBVIOUS
  <2>1. v # s /\ sync'[v] = sync[v] /\ Unstored(v)
    BY DEF Unstored
  <2> QED BY <2>1, AcctIs DEF Unstored, TokenInv, GotToken
<1>3. OnlyHolder'
  <2> SUFFICES ASSUME NEW v \in Syncers, Unstored(v)'
               PROVE  /\ sync'[v].got # stored'[sync'[v].acct] /\ sync'[v].got # loaded'[sync'[v].acct]
                      /\ \A w \in Syncers \ {v} : sync'[w].acct = sync'[v].acct =>
                            sync'[v].got # sync'[w].shown /\ sync'[v].got # sync'[w].got
    BY DEF OnlyHolder
  <2>1. /\ v # s /\ sync'[v] = sync[v] /\ sync[v].acct \in Mailboxes /\ sync[v].got \in Tokens
        /\ sync[v].got # stored[sync[v].acct] /\ sync[v].got # loaded[sync[v].acct]
        /\ \A w \in Syncers \ {v} : sync[w].acct = sync[v].acct =>
              sync[v].got # sync[w].shown /\ sync[v].got # sync[w].got
    BY <1>2 DEF TokenInv, OnlyHolder
  <2>2. sync'[v].got # loaded'[sync'[v].acct]
    BY <2>1, NoneIsNoToken
  <2>3. sync'[s].acct = sync[v].acct => sync[v].got # sync'[s].shown /\ sync[v].got # sync'[s].got
    BY <2>1, NoneIsNoToken
  <2>4. \A w \in Syncers \ {v} : sync'[w].acct = sync[v].acct =>
            sync[v].got # sync'[w].shown /\ sync[v].got # sync'[w].got
    BY <2>1, <2>3
  <2> QED BY <2>1, <2>2, <2>4
<1>4. HeldIsTaken'
  BY <1>2 DEF TokenInv, HeldIsTaken
<1>5. StoredTokenLives'
  <2> SUFFICES ASSUME NEW a \in OAuth, a \notin lost, stored[a] \notin live[a]
               PROVE  \E v \in Syncers : /\ sync'[v].acct = a /\ sync'[v].step = "commit"
                                         /\ sync'[v].shown = stored[a] /\ sync'[v].got \in live[a]
    BY DEF StoredTokenLives
  <2>1. PICK v \in Syncers : /\ sync[v].acct = a /\ sync[v].step = "commit"
                             /\ sync[v].shown = stored[a] /\ sync[v].got \in live[a]
    BY DEF TokenInv, StoredTokenLives
  <2>2. v # s
    BY <2>1
  <2> QED BY <2>1, <2>2
<1> QED BY <1>1, <1>3, <1>4, <1>5 DEF TokenInv

\* Nobody syncs anything else meanwhile.
LEMMA TokensElsewhere ==
    ASSUME ImportWorkerTypeOK, TokenInv, NEW a \in Mailboxes, UNCHANGED sync,
           \/ loaded' = stored /\ UNCHANGED <<stored, live, lost>>
           \/ UNCHANGED <<loaded, stored, live, lost>>
           \/ /\ live' = [live EXCEPT ![a] = {}] /\ lost' = lost \cup {a}
              /\ UNCHANGED <<loaded, stored>>
           \/ /\ \E t \in Tokens : /\ Fresh(a, t) /\ stored' = [stored EXCEPT ![a] = t]
                                   /\ live' = [live EXCEPT ![a] = live[a] \cup {t}]
              /\ lost' = lost \ {a} /\ UNCHANGED loaded
    PROVE  TokenInv'
<1>0. GotToken'
  BY DEF TokenInv, GotToken
<1>1. CASE (loaded' = stored \/ UNCHANGED loaded) /\ UNCHANGED <<stored, live, lost>>
  <2>1. OnlyHolder'
    BY <1>1 DEF TokenInv, OnlyHolder, Unstored
  <2>2. HeldIsTaken' /\ StoredTokenLives'
    BY <1>1 DEF TokenInv, HeldIsTaken, Unstored, StoredTokenLives
  <2> QED BY <1>0, <2>1, <2>2 DEF TokenInv
<1>2. CASE /\ live' = [live EXCEPT ![a] = {}] /\ lost' = lost \cup {a}
           /\ UNCHANGED <<loaded, stored>>
  <2>1. OnlyHolder'
    BY <1>2 DEF TokenInv, OnlyHolder, Unstored
  <2>2. \A b \in Mailboxes : b \notin lost' => b \notin lost /\ b # a /\ live'[b] = live[b]
    BY <1>2 DEF ImportWorkerTypeOK
  <2>3. HeldIsTaken'
    <3> SUFFICES ASSUME NEW s \in Syncers, Unstored(s), sync[s].shown = stored[sync[s].acct],
                        sync[s].acct \notin lost'
                 PROVE  sync[s].got \in live'[sync[s].acct]
      BY <1>2 DEF HeldIsTaken, Unstored
    <3>1. sync[s].acct \in Mailboxes
      BY AcctIs DEF Unstored
    <3> QED BY <2>2, <3>1 DEF TokenInv, HeldIsTaken
  <2>4. StoredTokenLives'
    BY <1>2, <2>2 DEF TokenInv, StoredTokenLives, OAuth
  <2> QED BY <1>0, <2>1, <2>3, <2>4 DEF TokenInv
<1>3. ASSUME NEW t \in Tokens, Fresh(a, t), stored' = [stored EXCEPT ![a] = t],
             live' = [live EXCEPT ![a] = live[a] \cup {t}], lost' = lost \ {a}, UNCHANGED loaded
      PROVE  TokenInv'
  <2>1. t \notin InUse(a)
    BY <1>3 DEF Fresh
  <2>2. \A s \in Syncers : sync[s].acct = a => t # sync[s].shown /\ t # sync[s].got
    BY <2>1 DEF InUse
  <2>3. /\ stored'[a] = t /\ t \in live'[a]
        /\ \A b \in Mailboxes \ {a} : stored'[b] = stored[b] /\ live'[b] = live[b]
                                      /\ (b \in lost' <=> b \in lost)
    BY <1>3 DEF ImportWorkerTypeOK
  <2>4. \A s \in Syncers : Unstored(s) => sync[s].acct \in Mailboxes
    BY AcctIs DEF Unstored
  <2>5. OnlyHolder'
    <3> SUFFICES ASSUME NEW s \in Syncers, Unstored(s)
                 PROVE  /\ sync[s].got # stored'[sync[s].acct] /\ sync[s].got # loaded[sync[s].acct]
                        /\ \A v \in Syncers \ {s} : sync[v].acct = sync[s].acct =>
                              sync[s].got # sync[v].shown /\ sync[s].got # sync[v].got
      BY <1>3 DEF OnlyHolder, Unstored
    <3> QED BY <2>2, <2>3, <2>4 DEF TokenInv, OnlyHolder
  <2>6. HeldIsTaken'
    <3> SUFFICES ASSUME NEW s \in Syncers, Unstored(s), sync[s].shown = stored'[sync[s].acct],
                        sync[s].acct \notin lost'
                 PROVE  sync[s].got \in live'[sync[s].acct]
      BY <1>3 DEF HeldIsTaken, Unstored
    <3>1. sync[s].acct \in Mailboxes \ {a}
      BY <2>2, <2>3, <2>4
    <3> QED BY <2>3, <3>1 DEF TokenInv, HeldIsTaken
  <2>7. StoredTokenLives'
    BY <1>3, <2>3 DEF TokenInv, StoredTokenLives, OAuth
  <2> QED BY <1>0, <2>5, <2>6, <2>7 DEF TokenInv
<1> QED BY <1>1, <1>2, <1>3

\* A syncer does not get to store its token.
LEMMA TokenGone ==
    ASSUME ImportWorkerTypeOK, TokenInv, NEW s \in Syncers, sync[s].step = "commit",
           sync'[s] = NoSync, \A v \in Syncers \ {s} : sync'[v] = sync[v],
           loaded' = loaded \/ loaded' = [a \in Mailboxes |-> None],
           Forgets(s), UNCHANGED <<stored, live>>
    PROVE  TokenInv'
<1>0. sync'[s].step = "idle" /\ sync'[s].acct = None
  BY NoSyncType
<1>6. lost \subseteq lost'
  BY DEF Forgets
<1>1. \A v \in Syncers : sync'[v].step = "commit" => v # s /\ sync'[v] = sync[v]
                /\ sync[v].acct \in Mailboxes /\ sync[v].got \in Tokens
  <2> SUFFICES ASSUME NEW v \in Syncers, sync'[v].step = "commit"
               PROVE  v # s /\ sync'[v] = sync[v]
                        /\ sync[v].acct \in Mailboxes /\ sync[v].got \in Tokens
    OBVIOUS
  <2>1. v # s /\ sync'[v] = sync[v]
    BY <1>0
  <2> QED BY <2>1, AcctIs DEF TokenInv, GotToken
<1>2. GotToken'
  BY <1>1 DEF GotToken
<1>3. OnlyHolder'
  <2> SUFFICES ASSUME NEW v \in Syncers, Unstored(v)'
               PROVE  /\ sync'[v].got # stored'[sync'[v].acct] /\ sync'[v].got # loaded'[sync'[v].acct]
                      /\ \A w \in Syncers \ {v} : sync'[w].acct = sync'[v].acct =>
                            sync'[v].got # sync'[w].shown /\ sync'[v].got # sync'[w].got
    BY DEF OnlyHolder
  <2>1. /\ v # s /\ sync'[v] = sync[v] /\ sync[v].acct \in Mailboxes /\ sync[v].got \in Tokens
        /\ sync[v].got # stored[sync[v].acct] /\ sync[v].got # loaded[sync[v].acct]
        /\ \A w \in Syncers \ {v} : sync[w].acct = sync[v].acct =>
              sync[v].got # sync[w].shown /\ sync[v].got # sync[w].got
    BY <1>1 DEF TokenInv, OnlyHolder, Unstored
  <2>2. sync'[v].got # loaded'[sync'[v].acct]
    BY <2>1, NoneIsNoToken
  <2>3. sync'[s].acct # sync[v].acct
    BY <1>0, <2>1, SyncersAssumption
  <2> QED BY <2>1, <2>2, <2>3
<1>4. HeldIsTaken'
  BY <1>1, <1>6 DEF TokenInv, HeldIsTaken, Unstored
<1>5. StoredTokenLives'
  <2> SUFFICES ASSUME NEW a \in OAuth, a \notin lost', stored[a] \notin live[a]
               PROVE  \E v \in Syncers : /\ sync'[v].acct = a /\ sync'[v].step = "commit"
                                         /\ sync'[v].shown = stored[a] /\ sync'[v].got \in live[a]
    BY DEF StoredTokenLives
  <2>1. PICK v \in Syncers : /\ sync[v].acct = a /\ sync[v].step = "commit"
                             /\ sync[v].shown = stored[a] /\ sync[v].got \in live[a]
    BY <1>6 DEF TokenInv, StoredTokenLives
  <2>2. v # s
    BY <2>1 DEF Forgets
  <2> QED BY <2>1, <2>2
<1> QED BY <1>2, <1>3, <1>4, <1>5 DEF TokenInv

\* The provider answers with the same token or with a new one.
LEMMA TokenRefreshed ==
    ASSUME ImportWorkerTypeOK, TokenInv, NEW s \in Syncers, refresh_access_token(s)
    PROVE  TokenInv'
<1> DEFINE a == sync[s].acct
           x == sync[s].shown
           t == sync'[s].got
<1>1. /\ a \in Mailboxes /\ t \in Tokens
      /\ t = x \/ Fresh(a, t)
      /\ sync'[s].step = "commit" /\ sync'[s].acct = a /\ sync'[s].shown = x
      /\ \A v \in Syncers \ {s} : sync'[v] = sync[v]
      /\ live' = [live EXCEPT ![a] = (live[a] \ {x}) \cup {t}]
  BY RefreshType
<1>2. sync[s].step = "redeem" /\ UNCHANGED <<stored, loaded, lost>>
  BY DEF refresh_access_token
<1>0. sync'[s].got = t
  OBVIOUS
<1> HIDE DEF a, x, t
<1>3. /\ live'[a] = (live[a] \ {x}) \cup {t}
      /\ \A b \in Mailboxes \ {a} : live'[b] = live[b]
  <2>1. DOMAIN live = Mailboxes
    BY DEF ImportWorkerTypeOK
  <2> QED BY <1>1, <2>1
<1>4. t # x => /\ t # stored[a] /\ t # loaded[a]
               /\ \A v \in Syncers : sync[v].acct = a => t # sync[v].shown /\ t # sync[v].got
  BY <1>1 DEF Fresh, InUse
<1>5. \A v \in Syncers \ {s} : sync[v].step = "commit" => sync[v].acct \in Mailboxes
  BY AcctIs
<1>6. \A v \in Syncers \ {s} : Unstored(v) /\ sync[v].acct = a => sync[v].got # x /\ sync[v].got # t
  <2> SUFFICES ASSUME NEW v \in Syncers \ {s}, Unstored(v), sync[v].acct = a
               PROVE  sync[v].got # x /\ sync[v].got # t
    OBVIOUS
  <2>1. sync[v].got # x
    BY DEF TokenInv, OnlyHolder, a, x
  <2> QED BY <1>1, <1>4, <2>1
<1>7. GotToken'
  <2> SUFFICES ASSUME NEW v \in Syncers, sync'[v].step = "commit" PROVE sync'[v].got \in Tokens
    BY DEF GotToken
  <2>1. CASE v = s
    BY <1>0, <1>1, <2>1
  <2>2. CASE v # s
    BY <1>1, <2>2 DEF TokenInv, GotToken
  <2> QED BY <2>1, <2>2
<1>8. OnlyHolder'
  <2> SUFFICES ASSUME NEW v \in Syncers, Unstored(v)'
               PROVE  /\ sync'[v].got # stored[sync'[v].acct] /\ sync'[v].got # loaded[sync'[v].acct]
                      /\ \A w \in Syncers \ {v} : sync'[w].acct = sync'[v].acct =>
                            sync'[v].got # sync'[w].shown /\ sync'[v].got # sync'[w].got
    BY <1>2 DEF OnlyHolder
  <2>1. CASE v = s
    <3>1. t # x /\ sync'[v].got = t /\ sync'[v].acct = a
      BY <1>0, <1>1, <2>1 DEF Unstored
    <3> QED BY <1>1, <1>4, <2>1, <3>1
  <2>2. CASE v # s
    <3>1. Unstored(v) /\ sync'[v] = sync[v]
      BY <1>1, <2>2 DEF Unstored
    <3>2. /\ sync[v].got # stored[sync[v].acct] /\ sync[v].got # loaded[sync[v].acct]
          /\ \A w \in Syncers \ {v} : sync[w].acct = sync[v].acct =>
                sync[v].got # sync[w].shown /\ sync[v].got # sync[w].got
      BY <3>1 DEF TokenInv, OnlyHolder
    <3>3. sync[v].acct = a => sync[v].got # x /\ sync[v].got # t
      BY <1>6, <2>2, <3>1
    <3>4. \A w \in Syncers \ {v} : sync'[w].acct = sync'[v].acct =>
                sync'[v].got # sync'[w].shown /\ sync'[v].got # sync'[w].got
      <4> SUFFICES ASSUME NEW w \in Syncers \ {v}, sync'[w].acct = sync[v].acct
                   PROVE  sync[v].got # sync'[w].shown /\ sync[v].got # sync'[w].got
        BY <3>1
      <4>1. CASE w = s
        BY <1>0, <1>1, <3>3, <4>1
      <4>2. CASE w # s
        BY <1>1, <3>2, <4>2
      <4> QED BY <4>1, <4>2
    <3> QED BY <3>1, <3>2, <3>4
  <2> QED BY <2>1, <2>2
<1>9. HeldIsTaken'
  <2> SUFFICES ASSUME NEW v \in Syncers, Unstored(v)', sync'[v].shown = stored[sync'[v].acct],
                      sync'[v].acct \notin lost
               PROVE  sync'[v].got \in live'[sync'[v].acct]
    BY <1>2 DEF HeldIsTaken
  <2>1. CASE v = s
    BY <1>0, <1>1, <1>3, <2>1
  <2>2. CASE v # s
    <3>1. Unstored(v) /\ sync'[v] = sync[v] /\ sync[v].acct \in Mailboxes
      BY <1>1, <1>5, <2>2 DEF Unstored
    <3>2. sync[v].got \in live[sync[v].acct]
      BY <3>1 DEF TokenInv, HeldIsTaken
    <3>3. sync[v].acct = a => sync[v].got # x
      BY <1>6, <2>2, <3>1
    <3> QED BY <1>3, <3>1, <3>2, <3>3
  <2> QED BY <2>1, <2>2
<1>10. StoredTokenLives'
  <2> SUFFICES ASSUME NEW b \in OAuth, b \notin lost, stored[b] \notin live'[b]
               PROVE  \E v \in Syncers : /\ sync'[v].acct = b /\ sync'[v].step = "commit"
                                         /\ sync'[v].shown = stored[b] /\ sync'[v].got \in live'[b]
    BY <1>2 DEF StoredTokenLives
  <2>0. b \in Mailboxes
    BY DEF OAuth
  <2>1. CASE stored[b] \in live[b]
    <3>1. b = a /\ stored[a] = x
      BY <1>3, <2>0, <2>1
    <3> QED BY <1>0, <1>1, <1>3, <3>1
  <2>2. CASE stored[b] \notin live[b]
    <3>1. PICK v \in Syncers : /\ sync[v].acct = b /\ sync[v].step = "commit"
                               /\ sync[v].shown = stored[b] /\ sync[v].got \in live[b]
      BY <2>2 DEF TokenInv, StoredTokenLives
    <3>2. v # s /\ sync'[v] = sync[v]
      BY <1>1, <1>2, <3>1
    <3>3. Unstored(v)
      BY <2>2, <3>1 DEF Unstored
    <3>4. sync[v].got \in live'[b]
      BY <1>3, <1>6, <2>0, <3>1, <3>2, <3>3
    <3> QED BY <3>1, <3>2, <3>4
  <2> QED BY <2>1, <2>2
<1> QED BY <1>7, <1>8, <1>9, <1>10 DEF TokenInv

\* The token is stored, in place of the one that was sent or of another.
LEMMA TokenStored ==
    ASSUME ImportWorkerTypeOK, TokenInv, NEW s \in Syncers, StoreToken(s)
    PROVE  TokenInv'
<1> DEFINE a == sync[s].acct
           t == sync[s].got
<1>1. sync[s].step = "commit" /\ UNCHANGED live
  BY DEF StoreToken
<1>2. sync[s] \in Sync /\ a \in Mailboxes /\ t \in Tokens
  BY <1>1, AcctIs DEF TokenInv, GotToken
<1>3. /\ stored'[a] = t /\ \A b \in Mailboxes \ {a} : stored'[b] = stored[b]
      /\ loaded' = loaded \/ loaded' = [b \in Mailboxes |-> None]
      /\ lost \subseteq lost' /\ lost' \subseteq lost \cup {a}
      /\ stored[a] # sync[s].shown => a \in lost'
  BY <1>2 DEF StoreToken, ImportWorkerTypeOK, Expires
<1>4. /\ sync'[s].acct = a /\ sync'[s].step = "fetch" /\ sync'[s].shown = None
      /\ sync'[s].got = None /\ \A v \in Syncers \ {s} : sync'[v] = sync[v]
  <2> DEFINE y == [NoSync EXCEPT !.step = "fetch", !.acct = a]
  <2>1. y.acct = a /\ y.step = "fetch" /\ y.shown = None /\ y.got = None
    BY DEF NoSync
  <2>2. sync' = [sync EXCEPT ![s] = y]
    BY DEF StoreToken
  <2> HIDE DEF y
  <2> QED BY <2>1, <2>2 DEF ImportWorkerTypeOK
<1>5. \A v \in Syncers : sync'[v].step = "commit" => /\ v # s /\ sync'[v] = sync[v]
                             /\ sync[v].acct \in Mailboxes /\ sync[v].got \in Tokens
  <2> SUFFICES ASSUME NEW v \in Syncers, sync'[v].step = "commit"
               PROVE  /\ v # s /\ sync'[v] = sync[v]
                      /\ sync[v].acct \in Mailboxes /\ sync[v].got \in Tokens
    OBVIOUS
  <2>1. v # s /\ sync'[v] = sync[v]
    BY <1>4
  <2> QED BY <2>1, AcctIs DEF TokenInv, GotToken
<1>6. GotToken'
  BY <1>5 DEF GotToken
<1>7. OnlyHolder'
  <2> SUFFICES ASSUME NEW v \in Syncers, Unstored(v)'
               PROVE  /\ sync'[v].got # stored'[sync'[v].acct] /\ sync'[v].got # loaded'[sync'[v].acct]
                      /\ \A w \in Syncers \ {v} : sync'[w].acct = sync'[v].acct =>
                            sync'[v].got # sync'[w].shown /\ sync'[v].got # sync'[w].got
    BY DEF OnlyHolder
  <2>1. /\ v # s /\ sync'[v] = sync[v] /\ sync[v].acct \in Mailboxes /\ sync[v].got \in Tokens
        /\ sync[v].got # stored[sync[v].acct] /\ sync[v].got # loaded[sync[v].acct]
        /\ \A w \in Syncers \ {v} : sync[w].acct = sync[v].acct =>
              sync[v].got # sync[w].shown /\ sync[v].got # sync[w].got
    BY <1>5 DEF TokenInv, OnlyHolder, Unstored
  <2>2. sync[v].got # loaded'[sync[v].acct]
    BY <1>3, <2>1, NoneIsNoToken
  <2>3. sync[v].got # stored'[sync[v].acct]
    <3>1. CASE sync[v].acct = a
      BY <1>3, <2>1, <3>1
    <3>2. CASE sync[v].acct # a
      BY <1>3, <2>1, <3>2
    <3> QED BY <3>1, <3>2
  <2>4. ASSUME NEW w \in Syncers \ {v}, sync'[w].acct = sync[v].acct
        PROVE  sync[v].got # sync'[w].shown /\ sync[v].got # sync'[w].got
    <3>1. CASE w = s
      BY <1>4, <2>1, <3>1, NoneIsNoToken
    <3>2. CASE w # s
      BY <1>4, <2>1, <2>4, <3>2
    <3> QED BY <3>1, <3>2
  <2> QED BY <2>1, <2>2, <2>3, <2>4
<1>8. HeldIsTaken'
  <2> SUFFICES ASSUME NEW v \in Syncers, Unstored(v)', sync'[v].shown = stored'[sync'[v].acct],
                      sync'[v].acct \notin lost'
               PROVE  sync'[v].got \in live[sync'[v].acct]
    BY <1>1 DEF HeldIsTaken
  <2>1. v # s /\ sync'[v] = sync[v] /\ sync[v].acct \in Mailboxes /\ Unstored(v)
    BY <1>5 DEF Unstored
  <2>2. sync[v].shown = stored[sync[v].acct] /\ sync[v].acct \notin lost
    <3>1. sync[v].acct \notin lost
      BY <1>3, <2>1
    <3>2. CASE sync[v].acct # a
      BY <1>3, <2>1, <3>1, <3>2
    <3>3. CASE sync[v].acct = a
      <4>1. sync[v].shown = t /\ stored[a] = sync[s].shown
        BY <1>3, <2>1, <3>3
      <4>2. ~Unstored(s)
        BY <2>1, <3>3, <4>1 DEF TokenInv, OnlyHolder
      <4> QED BY <1>1, <3>1, <3>3, <4>1, <4>2 DEF Unstored
    <3> QED BY <3>2, <3>3
  <2> QED BY <2>1, <2>2 DEF TokenInv, HeldIsTaken
<1>9. StoredTokenLives'
  <2> SUFFICES ASSUME NEW b \in OAuth, b \notin lost', stored'[b] \notin live[b]
               PROVE  \E v \in Syncers : /\ sync'[v].acct = b /\ sync'[v].step = "commit"
                                         /\ sync'[v].shown = stored'[b] /\ sync'[v].got \in live[b]
    BY <1>1 DEF StoredTokenLives
  <2>0. b \in Mailboxes /\ b \notin lost
    BY <1>3 DEF OAuth
  <2>1. stored'[b] = stored[b]
    <3>1. CASE b # a
      BY <1>3, <2>0, <3>1
    <3>2. CASE b = a
      <4>1. stored[a] = sync[s].shown /\ t \notin live[a]
        BY <1>3, <3>2
      <4>2. ~Unstored(s)
        BY <2>0, <3>2, <4>1 DEF TokenInv, HeldIsTaken
      <4> QED BY <1>1, <1>3, <3>2, <4>1, <4>2 DEF Unstored
    <3> QED BY <3>1, <3>2
  <2>2. PICK v \in Syncers : /\ sync[v].acct = b /\ sync[v].step = "commit"
                             /\ sync[v].shown = stored[b] /\ sync[v].got \in live[b]
    BY <2>0, <2>1 DEF TokenInv, StoredTokenLives
  <2>3. v # s
    BY <1>3, <2>2
  <2> QED BY <1>4, <2>1, <2>2, <2>3
<1> QED BY <1>6, <1>7, <1>8, <1>9 DEF TokenInv

LEMMA ImportNextTokens ==
    ASSUME ImportWorkerTypeOK, TokenInv, ImportWorkerNext
    PROVE  TokenInv'
<1>0. Worker \in Syncers /\ Request \in Syncers /\ Worker # Request
  BY SyncersAssumption DEF Syncers
<1>1. ASSUME NEW s \in Syncers, End(s), sync[s].step # "commit",
             loaded' = loaded \/ loaded' = [a \in Mailboxes |-> None],
             UNCHANGED <<stored, live, lost>>
      PROVE  TokenInv'
  <2>1. sync'[s] = NoSync /\ \A v \in Syncers \ {s} : sync'[v] = sync[v]
    BY <1>1, EndType
  <2>2. sync'[s].step = "idle" /\ sync'[s].shown = None /\ sync'[s].got = None
    BY <2>1, NoSyncType
  <2> QED BY <1>1, <2>1, <2>2, OtherWork
<1>2. ASSUME Die, sync[Worker].step # "commit", UNCHANGED <<stored, live, lost>>
      PROVE  TokenInv'
  BY <1>0, <1>1, <1>2 DEF Die
<1>11. ASSUME NEW s \in Syncers, End(s), Forgets(s), UNCHANGED <<stored, live>>,
              loaded' = loaded \/ loaded' = [a \in Mailboxes |-> None]
       PROVE  TokenInv'
  <2>1. CASE sync[s].step = "commit"
    <3>1. sync'[s] = NoSync /\ \A v \in Syncers \ {s} : sync'[v] = sync[v]
      BY <1>11, EndType
    <3> QED BY <1>11, <2>1, <3>1, TokenGone
  <2>2. CASE sync[s].step # "commit"
    BY <1>1, <1>11, <2>2 DEF Forgets
  <2> QED BY <2>1, <2>2
<1>3. ASSUME NEW s \in Syncers, NEW a \in Mailboxes, NEW x \in {stored[a], loaded[a]},
             BeginSync(s, a, x), sync[s].step # "commit", UNCHANGED <<loaded, stored, live, lost>>
      PROVE  TokenInv'
  <2>0. x \in Tokens \cup {None}
    BY DEF ImportWorkerTypeOK
  <2>1. /\ \A v \in Syncers \ {s} : sync'[v] = sync[v]
        /\ sync'[s] = IF a \in OAuth
                      THEN [step |-> "redeem", acct |-> a, shown |-> x, got |-> None]
                      ELSE [NoSync EXCEPT !.step = "fetch", !.acct = a]
    BY <1>3, <2>0, BeginSyncType
  <2>2. /\ sync'[s].step # "commit" /\ sync'[s].acct = a
        /\ sync'[s].got = None /\ sync'[s].shown \in {None, x}
    BY <2>1 DEF NoSync
  <2> QED BY <1>3, <2>1, <2>2, OtherWork
<1>5. ASSUME NEW s \in Syncers, SyncFails(s) \/ FlushFails(s)
      PROVE  TokenInv'
  <2>1. CASE SyncFails(s)
    <3>1. End(s) /\ Forgets(s) /\ UNCHANGED <<loaded, stored, live>>
      BY <2>1 DEF SyncFails
    <3> QED BY <1>11, <3>1
  <2>2. CASE FlushFails(s)
    BY <1>1, <1>2, <2>2 DEF FlushFails
  <2> QED BY <1>5, <2>1, <2>2
<1>4. ASSUME NEW s \in Syncers, SyncStep(s)
      PROVE  TokenInv'
  <2>1. CASE RefreshRefused(s)
    BY <1>1, <2>1 DEF RefreshRefused
  <2>2. CASE Save(s)
    BY <1>1, <2>2 DEF Save, Expires
  <2>3. CASE Fetch(s)
    <3>1. /\ sync[s].step = "fetch" /\ sync' = [sync EXCEPT ![s].step = "save"]
          /\ UNCHANGED <<loaded, stored, live, lost>>
      BY <2>3 DEF Fetch
    <3>2. sync[s] \in Sync
      BY <3>1, AcctIs
    <3>3. /\ sync'[s].step = "save" /\ sync'[s].acct = sync[s].acct
          /\ sync'[s].shown = sync[s].shown /\ sync'[s].got = sync[s].got
          /\ \A v \in Syncers \ {s} : sync'[v] = sync[v]
      BY <3>1, <3>2 DEF ImportWorkerTypeOK, Sync
    <3> QED BY <3>1, <3>3, OtherWork
  <2> QED BY <1>4, <2>1, <2>2, <2>3, <1>5, TokenRefreshed, TokenStored DEF SyncStep
<1>6. ASSUME NEW s \in Syncers, Killed(s)
      PROVE  TokenInv'
  BY <1>6, <1>11 DEF Killed, Die
<1>7. ASSUME NEW a \in Mailboxes, NextAccount(a)
      PROVE  TokenInv'
  <2>1. sync[Worker].step # "commit" /\ UNCHANGED <<stored, live, lost>>
    BY <1>7, NoSyncType DEF NextAccount
  <2>2. CASE Die
    BY <1>2, <2>1, <2>2
  <2>3. CASE BeginSync(Worker, a, IF loaded[a] = None THEN stored[a] ELSE loaded[a])
             /\ UNCHANGED loaded
    BY <1>0, <1>3, <2>1, <2>3
  <2>4. CASE UNCHANGED <<loaded, sync>>
    BY <2>1, <2>4, TokensElsewhere
  <2> QED BY <1>7, <2>2, <2>3, <2>4 DEF NextAccount
<1>8. ASSUME NEW a \in Mailboxes, sync_mail_account(a)
      PROVE  TokenInv'
  <2>1. sync[Request].step # "commit" /\ UNCHANGED <<loaded, stored, live, lost>>
    BY <1>8, NoSyncType DEF sync_mail_account
  <2> QED BY <1>0, <1>3, <1>8, <2>1 DEF sync_mail_account
<1>9. CASE list_active
  <2>1. CASE Mailboxes = {}
    BY <1>9, <2>1, AcctIs DEF list_active, TokenInv, GotToken, OnlyHolder, HeldIsTaken, Unstored,
                              StoredTokenLives, OAuth
  <2>2. ASSUME NEW a \in Mailboxes PROVE TokenInv'
    BY <1>9, TokensElsewhere DEF list_active
  <2> QED BY <2>1, <2>2
<1>10. ASSUME NEW a \in Mailboxes, Elapse(a) \/ Revoke(a) \/ _reconnect_oauth_account(a)
       PROVE  TokenInv'
  BY <1>10, TokensElsewhere DEF Elapse, Revoke, _reconnect_oauth_account
<1> QED BY <1>0, <1>4, <1>5, <1>6, <1>7, <1>8, <1>9, <1>10 DEF ImportWorkerNext, ImportStep

LEMMA InitTokens == Init => TokenInv
<1> SUFFICES ASSUME Init PROVE TokenInv
  OBVIOUS
<1>1. \A s \in Syncers : sync[s].step = "idle"
  BY NoSyncType DEF Init, ImportWorkerInit
<1>2. GotToken /\ OnlyHolder /\ HeldIsTaken
  BY <1>1 DEF GotToken, OnlyHolder, HeldIsTaken, Unstored
<1>3. StoredTokenLives
  BY DEF Init, ImportWorkerInit, StoredTokenLives, OAuth
<1> QED BY <1>2, <1>3 DEF TokenInv

\* The stored refresh token of a mailbox is one that the provider takes, or its
\* successor is about to be stored, unless it was revoked, a process was stopped
\* in between, or a commit overwrote another one's (ensure_fresh_access_token),
\* however many mailboxes there are and tokens the provider issues.
THEOREM StoredTokensLive == Spec => []StoredTokenLives
<1>1. TypeOK /\ ServicesHaveClient /\ TokenInv /\ [Next]_vars => TokenInv'
  <2> SUFFICES ASSUME TypeOK, TokenInv, [Next]_vars PROVE TokenInv'
    OBVIOUS
  <2>1. CASE Import(ImportWorkerNext)
    BY <2>1, ImportNextTokens DEF Import, TypeOK
  <2>2. CASE UNCHANGED importVars
    BY <2>2 DEF importVars, TokenInv, GotToken, OnlyHolder, HeldIsTaken, Unstored, StoredTokenLives
  <2>3. Import(ImportWorkerNext) \/ UNCHANGED importVars
    BY DEF Next, Api, Ha, Tracking, vars
  <2> QED BY <2>1, <2>2, <2>3
<1>2. TokenInv => StoredTokenLives
  BY DEF TokenInv
<1> QED BY <1>1, <1>2, InitType, InitTokens, NextType, PTL DEF Spec

-----------------------------------------------------------------------------
(* The counts of a poll.                                                   *)

\* A shipment's row has an order.
RowsHaveOrder == \A s \in rows : order[OrderOf[s]] \in Present

\* What the watched statements would select now.
Selected(u, q) ==
    IF q \in ActiveStatuses THEN count_by_status(u, q, TRUE)
    ELSE IF q = "total" THEN count_for_user(u)
    ELSE IF q = "delivered" THEN count_by_status(u, "delivered", FALSE)
    ELSE delayed_shipment_count_for_user(u)

\* What a statement selected is what it would select now, but for the shipments
\* that were written meanwhile.
Exact(u) ==
    \A q \in Watched : Ran(u, q) =>
        \A s \in Shipments \ read[u].changed : s \in read[u].rows[q] <=> s \in Selected(u, q)

\* Nothing that a watched statement looks at changes for shipment s.
Untouched(s) ==
    /\ s \in rows' <=> s \in rows
    /\ s \in rows => /\ ship'[s] = ship[s]
                     /\ order'[OrderOf[s]] = "archived" <=> order[OrderOf[s]] = "archived"

LEMMA UntouchedSelected ==
    ASSUME NEW s, Untouched(s), NEW u, NEW q
    PROVE  s \in Selected(u, q)' <=> s \in Selected(u, q)
<1>1. \A b \in BOOLEAN : s \in _base_user_query(u, b)' <=> s \in _base_user_query(u, b)
  BY DEF Untouched, _base_user_query
<1>2. \A b \in BOOLEAN : s \in _base_user_query(u, b) => s \in rows
  BY DEF _base_user_query
<1>3. /\ s \in count_by_status(u, q, TRUE)' <=> s \in count_by_status(u, q, TRUE)
      /\ s \in count_by_status(u, "delivered", FALSE)' <=> s \in count_by_status(u, "delivered", FALSE)
      /\ s \in count_for_user(u)' <=> s \in count_for_user(u)
      /\ s \in delayed_shipment_count_for_user(u)' <=> s \in delayed_shipment_count_for_user(u)
  BY <1>1, <1>2 DEF count_by_status, count_for_user, delayed_shipment_count_for_user, Untouched
<1> QED BY <1>3 DEF Selected

\* Every writer reports the shipments that it touches.
LEMMA WritesReport ==
    ASSUME TablesTypeOK, RowsHaveOrder, Writes
    PROVE  /\ RowsHaveOrder'
           /\ \E C \in SUBSET Shipments : Changes(C) /\ \A s \in Shipments \ C : Untouched(s)
<1> DEFINE Goal == /\ RowsHaveOrder'
                   /\ \E C \in SUBSET Shipments : Changes(C) /\ \A s \in Shipments \ C : Untouched(s)
<1> USE KeysAssumption DEF TablesTypeOK
<1>1. ASSUME NEW o \in Orders, create_order(o) PROVE Goal
  <2>1. \A x \in Orders : order'[x] = IF x = o THEN "open" ELSE order[x]
    BY <1>1 DEF create_order
  <2>2. RowsHaveOrder'
    BY <1>1, <2>1 DEF create_order, RowsHaveOrder, Present
  <2>3. \A s \in Shipments \ {} : Untouched(s)
    BY <1>1, <2>1 DEF create_order, Untouched
  <2>4. {} \in SUBSET Shipments /\ Changes({})
    BY <1>1 DEF create_order
  <2> QED BY <2>2, <2>3, <2>4
<1>2. ASSUME NEW o \in Orders, delete_order(o) PROVE Goal
  <2> DEFINE C == {s \in rows : OrderOf[s] = o}
  <2>1. \A x \in Orders \ {o} : order'[x] = order[x]
    BY <1>2 DEF delete_order
  <2>2. RowsHaveOrder'
    BY <1>2, <2>1 DEF delete_order, RowsHaveOrder
  <2>3. \A s \in Shipments \ C : Untouched(s)
    BY <1>2, <2>1 DEF delete_order, Untouched
  <2>4. C \in SUBSET Shipments /\ Changes(C)
    BY <1>2 DEF delete_order
  <2> HIDE DEF C
  <2> QED BY <2>2, <2>3, <2>4
<1>3. ASSUME NEW o \in Orders, NEW u \in Users, NEW b \in BOOLEAN, set_archived(u, o, b) PROVE Goal
  <2> DEFINE C == {s \in rows : OrderOf[s] = o}
  <2>1. order'[o] \in Present /\ \A x \in Orders \ {o} : order'[x] = order[x]
    BY <1>3 DEF set_archived, Present
  <2>2. RowsHaveOrder'
    BY <1>3, <2>1 DEF set_archived, RowsHaveOrder
  <2>3. \A s \in Shipments \ C : Untouched(s)
    BY <1>3, <2>1 DEF set_archived, Untouched
  <2>4. C \in SUBSET Shipments /\ Changes(C)
    BY <1>3 DEF set_archived
  <2> HIDE DEF C
  <2> QED BY <2>2, <2>3, <2>4
<1>4. ASSUME NEW u \in Users, NEW O \in SUBSET Orders, NEW S \in SUBSET Shipments,
             import_mail(u, O, S)
      PROVE  Goal
  <2>1. /\ \A o \in O : /\ order'[o] = IF order[o] = "none" THEN "open" ELSE order[o]
                        /\ order[o] \in {"none"} \cup Present
        /\ \A x \in Orders \ O : order'[x] = order[x]
    BY <1>4 DEF import_mail
  <2>2. RowsHaveOrder'
    <3>1. \A o \in O : order'[o] \in Present
      BY <2>1 DEF Present
    <3> QED BY <1>4, <2>1, <3>1 DEF import_mail, RowsHaveOrder
  <2>3. \A s \in Shipments \ S : Untouched(s)
    BY <1>4, <2>1 DEF import_mail, Untouched
  <2>4. Changes(S)
    BY <1>4 DEF import_mail
  <2> QED BY <2>2, <2>3, <2>4
<1>5. ASSUME NEW s \in Shipments, Changes({s}), UNCHANGED <<order, rows>>,
             \A x \in Shipments \ {s} : ship'[x] = ship[x]
      PROVE  Goal
  <2>1. RowsHaveOrder'
    BY <1>5 DEF RowsHaveOrder
  <2>2. \A x \in Shipments \ {s} : Untouched(x)
    BY <1>5 DEF Untouched
  <2>3. {s} \in SUBSET Shipments
    OBVIOUS
  <2> QED BY <1>5, <2>1, <2>2, <2>3
<1>6. ASSUME NEW s \in Shipments, NEW F, NEW st, NEW e, NEW d, update_status(s, F, st, e, d)
      PROVE  Goal
  <2>1. \A x \in Shipments \ {s} : ship'[x] = ship[x]
    BY <1>6 DEF update_status
  <2> QED BY <1>5, <1>6, <2>1 DEF update_status
<1>7. ASSUME NEW s \in Shipments, sync_shipment(s) PROVE Goal
  <2>1. \A x \in Shipments \ {s} : ship'[x] = ship[x]
    BY <1>7 DEF sync_shipment
  <2> QED BY <1>5, <1>7, <2>1 DEF sync_shipment
<1>8. ASSUME NEW s \in Shipments, NEW st, NEW e, NEW d, create_shipment(s, st, e, d) PROVE Goal
  <2>1. \A x \in Shipments \ {s} : ship'[x] = ship[x]
    BY <1>8 DEF create_shipment
  <2>2. RowsHaveOrder'
    BY <1>8 DEF create_shipment, RowsHaveOrder
  <2>3. \A x \in Shipments \ {s} : Untouched(x)
    BY <1>8, <2>1 DEF create_shipment, Untouched
  <2>4. {s} \in SUBSET Shipments /\ Changes({s})
    BY <1>8 DEF create_shipment
  <2> QED BY <2>2, <2>3, <2>4
<1> HIDE DEF Goal
<1>9. Goal
  BY <1>1, <1>2, <1>3, <1>4, <1>6, <1>7, <1>8, Zenon DEF Writes
<1> QED BY <1>9 DEF Goal

\* What a commit leaves of the readers' results.
LEMMA WritesExact ==
    ASSUME TablesTypeOK, RowsHaveOrder, Writes, NEW u \in Users, Exact(u)
    PROVE  Exact(u)'
<1>1. PICK C \in SUBSET Shipments : Changes(C) /\ \A s \in Shipments \ C : Untouched(s)
  BY WritesReport
<1>2. /\ read'[u].at = read[u].at /\ read'[u].rows = read[u].rows
      /\ read[u].at # 0 => read'[u].changed = read[u].changed \cup C
  BY <1>1, ChangesType DEF TablesTypeOK, Readers
<1> SUFFICES ASSUME NEW q \in Watched, Ran(u, q)', NEW s \in Shipments \ read'[u].changed
             PROVE  s \in read'[u].rows[q] <=> s \in Selected(u, q)'
  BY DEF Exact
<1>3. Ran(u, q) /\ read[u].at # 0
  BY <1>2, LimitAssumption DEF Ran
<1>4. s \in Shipments \ read[u].changed /\ s \in Shipments \ C
  BY <1>2, <1>3
<1>5. s \in Selected(u, q)' <=> s \in Selected(u, q)
  BY <1>1, <1>4, UntouchedSelected
<1> QED BY <1>2, <1>3, <1>4, <1>5 DEF Exact

\* The steps of u's own poll that run none of the watched statements, and those
\* of others.
LEMMA KeepsExact ==
    ASSUME TablesTypeOK, NEW u \in Users, Exact(u), Within(u), UNCHANGED <<order, rows, ship>>,
           read'[u].rows = read[u].rows, read'[u].changed = read[u].changed,
           \/ read'[u].at = read[u].at
           \/ read'[u].at = read[u].at + 1 /\ read[u].at # 0 /\ At(u) \notin Watched
    PROVE  Exact(u)'
<1> SUFFICES ASSUME NEW q \in Watched, Ran(u, q)', NEW s \in Shipments \ read'[u].changed
             PROVE  s \in read'[u].rows[q] <=> s \in Selected(u, q)'
  BY DEF Exact
<1>1. Ran(u, q)
  <2>1. PICK i \in 1 .. 16 : i < read'[u].at /\ Poll[i] = q
    BY DEF Ran
  <2>2. i < read[u].at
    BY <2>1 DEF Within, At
  <2> QED BY <2>1, <2>2 DEF Ran
<1>2. Untouched(s)
  BY DEF Untouched
<1> QED BY <1>1, <1>2, UntouchedSelected DEF Exact

\* A watched statement is run.
LEMMA CountExact ==
    ASSUME TablesTypeOK, NEW u \in Users, Exact(u), Within(u), NEW x \in Statements, x = At(u),
           NEW S \in SUBSET Shipments, Count(u, x, S), x \in Watched => S = Selected(u, x)
    PROVE  Exact(u)'
<1>0. read[u] \in Reader /\ u \in Readers /\ DOMAIN read = Readers
  BY DEF TablesTypeOK, Readers
<1>1. /\ read'[u].rows = [read[u].rows EXCEPT ![x] = S] /\ read'[u].changed = read[u].changed
      /\ read'[u].at = read[u].at + 1
  BY <1>0 DEF Count, Reader
<1>2. UNCHANGED <<order, rows, ship>>
  BY DEF Count, tableVars
<1>3. read[u].rows \in [Statements -> SUBSET Shipments]
  BY <1>0 DEF Reader
<1>4. read[u].at # 0
  BY DEF At, Statements, DashboardStatements, StatisticsStatements
<1> SUFFICES ASSUME NEW q \in Watched, Ran(u, q)', NEW s \in Shipments \ read'[u].changed
             PROVE  s \in read'[u].rows[q] <=> s \in Selected(u, q)'
  BY DEF Exact
<1>5. s \in Selected(u, q)' <=> s \in Selected(u, q)
  <2>1. Untouched(s)
    BY <1>2 DEF Untouched
  <2> QED BY <2>1, UntouchedSelected
<1>6. CASE q = x
  BY <1>1, <1>3, <1>5, <1>6
<1>7. CASE q # x
  <2>1. PICK i \in 1 .. 16 : i < read'[u].at /\ Poll[i] = q
    BY DEF Ran
  <2>2. i # read[u].at
    BY <1>4, <1>7, <2>1 DEF At
  <2>3. i < read[u].at
    BY <1>1, <2>1, <2>2 DEF Within
  <2>4. Ran(u, q)
    BY <2>1, <2>3 DEF Ran
  <2>5. read'[u].rows[q] = read[u].rows[q]
    <3>1. q \in Statements
      BY DEF Watched, ActiveStatuses, Statements, DashboardStatements, StatisticsStatements
    <3> QED BY <1>1, <1>3, <1>7, <3>1
  <2>6. s \in read[u].rows[q] <=> s \in Selected(u, q)
    BY <1>1, <2>4 DEF Exact
  <2> QED BY <1>5, <2>5, <2>6
<1> QED BY <1>6, <1>7

\* No statement of a new poll has run.
LEMMA NewPollExact ==
    ASSUME NEW u \in Users, read'[u].at \in {0, 1}
    PROVE  Exact(u)'
<1>1. \A q : ~Ran(u, q)'
  BY DEF Ran
<1> QED BY <1>1 DEF Exact

PollInv == RowsHaveOrder /\ \A u \in Users : Exact(u)

\* A step of one user's poll is one of that poll only.
LEMMA OnePollInv ==
    ASSUME TablesTypeOK, HomeAssistantTypeOK, PollInv, UNCHANGED <<order, rows, ship>>,
           NEW u \in Users, \A v \in Users \ {u} : read'[v] = read[v], Exact(u)'
    PROVE  PollInv'
<1>1. RowsHaveOrder'
  BY DEF PollInv, RowsHaveOrder
<1>2. ASSUME NEW v \in Users \ {u} PROVE Exact(v)'
  BY KeepsExact, WithinIs DEF PollInv
<1> QED BY <1>1, <1>2 DEF PollInv

LEMMA NoPollInv ==
    ASSUME TablesTypeOK, HomeAssistantTypeOK, PollInv, UNCHANGED <<order, rows, ship>>,
           \A v \in Users : read'[v] = read[v]
    PROVE  PollInv'
<1>1. RowsHaveOrder'
  BY DEF PollInv, RowsHaveOrder
<1>2. ASSUME NEW v \in Users PROVE Exact(v)'
  BY KeepsExact, WithinIs DEF PollInv
<1> QED BY <1>1, <1>2 DEF PollInv

LEMMA WritesPollInv ==
    ASSUME TablesTypeOK, PollInv, Writes
    PROVE  PollInv'
BY WritesReport, WritesExact DEF PollInv

LEMMA NewPollInv ==
    ASSUME TablesTypeOK, HomeAssistantTypeOK, PollInv, UNCHANGED <<order, rows, ship>>, NEW u \in Users,
           read' = [read EXCEPT ![u] = Idle] \/ read' = [read EXCEPT ![u] = [Idle EXCEPT !.at = 1]]
    PROVE  PollInv'
<1>1. DOMAIN read = Readers /\ u \in Readers
  BY DEF TablesTypeOK, Readers
<1>2. read'[u] \in {Idle, [Idle EXCEPT !.at = 1]}
  BY <1>1
<1>3. read'[u].at \in {0, 1}
  BY <1>2, IdleType
<1>4. \A v \in Users \ {u} : read'[v] = read[v]
  BY <1>1 DEF Readers
<1> QED BY <1>3, <1>4, NewPollExact, OnePollInv

LEMMA RequestPollInv ==
    ASSUME TablesTypeOK, HomeAssistantTypeOK, PollInv, NEW u \in Users, _request(u)
    PROVE  PollInv'
<1>1. CASE UNCHANGED parcelVars
  BY <1>1, NoPollInv DEF parcelVars, tableVars
<1>2. CASE UpdateFailed(u)
  BY <1>2, NewPollInv DEF UpdateFailed, tableVars
<1>3. CASE /\ At(u) \in Requests
           /\ read' = [read EXCEPT ![u].at = @ + 1,
                                  ![u].day = IF At(u) = "get_dashboard" THEN today ELSE @]
           /\ UNCHANGED tableVars
  <2>1. read[u] \in Reader /\ u \in Readers /\ DOMAIN read = Readers
    BY DEF TablesTypeOK, Readers
  <2>2. /\ read'[u].rows = read[u].rows /\ read'[u].changed = read[u].changed
        /\ read'[u].at = read[u].at + 1 /\ \A v \in Users \ {u} : read'[v] = read[v]
    <3> DEFINE d == IF At(u) = "get_dashboard" THEN today ELSE read[u].day
    <3>1. read' = [read EXCEPT ![u] = [read[u] EXCEPT !.at = read[u].at + 1, !.day = d]]
      BY <1>3, <2>1
    <3> HIDE DEF d
    <3>2. read'[u] = [read[u] EXCEPT !.at = read[u].at + 1, !.day = d]
          /\ \A v \in Users \ {u} : read'[v] = read[v]
      BY <2>1, <3>1 DEF Readers
    <3> QED BY <2>1, <3>2 DEF Reader
  <2>3. At(u) \notin Watched /\ At(u) # "idle"
    BY <1>3 DEF Requests, Watched, ActiveStatuses
  <2>4. read[u].at # 0 /\ Within(u)
    BY <2>3, WithinIs DEF At
  <2>5. Exact(u)'
    BY <1>3, <2>2, <2>3, <2>4, KeepsExact DEF PollInv, tableVars
  <2> QED BY <1>3, <2>2, <2>5, OnePollInv DEF tableVars
<1> QED BY <1>1, <1>2, <1>3 DEF _request

LEMMA ServePollInv ==
    ASSUME TablesTypeOK, HomeAssistantTypeOK, PollInv, NEW u \in Users, Serve(u)
    PROVE  PollInv'
<1>0. u \in Readers /\ Within(u) /\ Exact(u)
  BY WithinIs DEF Readers, PollInv
<1>1. CASE UNCHANGED parcelVars
  BY <1>1, NoPollInv DEF parcelVars, tableVars
<1>2. ASSUME NEW x \in Statements, x = At(u), NEW S \in SUBSET Shipments, Count(u, x, S),
             x \in Watched => S = Selected(u, x)
      PROVE  PollInv'
  <2>1. Exact(u)'
    BY <1>0, <1>2, CountExact
  <2>2. \A v \in Readers \ {u} : read'[v] = read[v]
    BY <1>0, <1>2, CountType
  <2>3. UNCHANGED <<order, rows, ship>>
    BY <1>2 DEF Count, tableVars
  <2> QED BY <2>1, <2>2, <2>3, OnePollInv DEF Readers
<1>3. CASE At(u) \in DashboardStatements /\ Count(u, At(u), DashboardSummary(u, At(u), read[u].day))
  <2>1. At(u) \in Watched => DashboardSummary(u, At(u), read[u].day) = Selected(u, At(u))
    <3>1. ASSUME At(u) \in Watched
          PROVE  At(u) \in ActiveStatuses /\ At(u) # "delivered_today" /\ At(u) # "expected_tomorrow"
      BY <1>3, <3>1 DEF Watched, ActiveStatuses, DashboardStatements
    <3> QED BY <3>1 DEF DashboardSummary, Selected
  <2>2. At(u) \in Statements
    BY <1>3 DEF Statements
  <2> QED BY <1>2, <1>3, <2>1, <2>2, Selects
<1>4. CASE At(u) \in StatisticsStatements /\ Count(u, At(u), StatisticsSummary(u, At(u)))
  <2>1. At(u) \in Watched => StatisticsSummary(u, At(u)) = Selected(u, At(u))
    <3>1. ASSUME At(u) \in Watched
          PROVE  At(u) \notin ActiveStatuses /\ At(u) \in {"total", "delivered", "ever_delayed"}
      BY <1>4, <3>1 DEF Watched, ActiveStatuses, StatisticsStatements
    <3> QED BY <3>1 DEF StatisticsSummary, Selected
  <2>2. At(u) \in Statements
    BY <1>4 DEF Statements
  <2> QED BY <1>2, <1>4, <2>1, <2>2, Selects
<1>5. CASE At(u) = "page" /\ ListOrders(u)
  <2>1. /\ read'[u].at = read[u].at + 1 /\ read'[u].rows = read[u].rows
        /\ read'[u].changed = read[u].changed /\ \A v \in Readers \ {u} : read'[v] = read[v]
    BY <1>0, <1>5, ListOrdersType
  <2>2. At(u) \notin Watched /\ read[u].at # 0
    BY <1>5 DEF Watched, ActiveStatuses, At
  <2>3. UNCHANGED <<order, rows, ship>>
    BY <1>5 DEF ListOrders, tableVars
  <2>4. Exact(u)'
    BY <1>0, <2>1, <2>2, <2>3, KeepsExact
  <2> QED BY <2>1, <2>3, <2>4, OnePollInv DEF Readers
<1>6. ASSUME NEW o \in Orders, LoadShipments(u, o)
      PROVE  PollInv'
  <2>1. /\ read'[u].at = read[u].at /\ read'[u].rows = read[u].rows
        /\ read'[u].changed = read[u].changed /\ \A v \in Readers \ {u} : read'[v] = read[v]
    BY <1>0, <1>6, LoadShipmentsType
  <2>2. UNCHANGED <<order, rows, ship>>
    BY <1>6 DEF LoadShipments, tableVars
  <2>3. Exact(u)'
    BY <1>0, <2>1, <2>2, KeepsExact
  <2> QED BY <2>1, <2>2, <2>3, OnePollInv DEF Readers
<1> QED BY <1>1, <1>3, <1>4, <1>5, <1>6 DEF Serve

LEMMA HomeAssistantPollInv ==
    ASSUME TablesTypeOK, HomeAssistantTypeOK, PollInv, HomeAssistantNext
    PROVE  PollInv'
<1>1. ASSUME NEW u \in Users,
             UpdateFailed(u) \/ StartPoll(u) \/ Updated(u) \/ async_setup_entry(u) \/ Unloaded(u)
      PROVE  PollInv'
  <2>1. /\ UNCHANGED <<order, rows, ship>>
        /\ read' = [read EXCEPT ![u] = Idle] \/ read' = [read EXCEPT ![u] = [Idle EXCEPT !.at = 1]]
    BY <1>1 DEF UpdateFailed, StartPoll, Updated, async_setup_entry, Unloaded, BeginPoll, tableVars
  <2> QED BY <2>1, NewPollInv
<1>2. ASSUME NEW u \in Users,
             \/ async_login(u) \/ Forwarded(u) \/ TokenExpires(u) \/ async_step_user(u)
             \/ async_unload_entry(u)
      PROVE  PollInv'
  <2>1. UNCHANGED <<order, rows, ship, read>>
    BY <1>2 DEF async_login, Forwarded, TokenExpires, async_step_user, async_unload_entry,
                parcelVars, tableVars
  <2> QED BY <2>1, NoPollInv
<1>3. CASE (\E svc \in Services, o \in Orders : CallService(svc, o)) \/ CallFails
  <2>1. UNCHANGED <<order, rows, ship, read>>
    BY <1>3 DEF CallService, CallFails, parcelVars, tableVars
  <2> QED BY <2>1, NoPollInv
<1>4. CASE CallServed
  <2>1. call.who \in Users /\ call.order \in Orders
    BY <1>4 DEF CallServed, HomeAssistantTypeOK
  <2>2. CASE \E b \in BOOLEAN : set_archived(call.who, call.order, b)
    <3>1. Writes
      BY <2>1, <2>2 DEF Writes
    <3> QED BY <3>1, WritesPollInv
  <2>3. CASE \E s \in Shipments : sync_shipment(s)
    <3>1. Writes
      BY <2>3 DEF Writes
    <3> QED BY <3>1, WritesPollInv
  <2>4. CASE UNCHANGED <<tableVars, read>>
    BY <2>4, NoPollInv DEF tableVars
  <2> QED BY <1>4, <2>2, <2>3, <2>4 DEF CallServed
<1>5. ASSUME NEW u \in Users, UnloadFails(u)
      PROVE  PollInv'
  <2>1. UNCHANGED <<order, rows, ship, read>>
    BY <1>5 DEF UnloadFails, tableVars
  <2> QED BY <2>1, NoPollInv
<1> QED BY <1>1, <1>2, <1>3, <1>4, <1>5, RequestPollInv, ServePollInv
        DEF HomeAssistantNext, PollStep, SetupStep, RequestFails

LEMMA NextPollInv ==
    ASSUME TypeOK, PollInv, [Next]_vars
    PROVE  PollInv'
<1> USE DEF TypeOK
<1>1. CASE Api(UserStep \/ Midnight)
  <2>1. CASE UserStep
    <3>1. Writes
      BY <2>1, KeysAssumption DEF UserStep, Writes
    <3> QED BY <3>1, WritesPollInv
  <2>2. CASE Midnight
    BY <2>2, NoPollInv DEF Midnight
  <2> QED BY <1>1, <2>1, <2>2 DEF Api
<1>2. CASE Ha(HomeAssistantNext)
  BY <1>2, HomeAssistantPollInv DEF Ha
<1>3. CASE Tracking(TrackingWorkerNext)
  <2>1. CASE TrackingCommit
    <3>1. Writes
      BY <2>1 DEF TrackingCommit, Writes, TrackingWorkerTypeOK
    <3> QED BY <3>1, WritesPollInv
  <2>2. CASE WorkerStep \/ WorkerDies \/ PublishFails
    <3>1. UNCHANGED <<order, rows, ship>>
      BY <2>2 DEF WorkerStep, Tick, TrackingJob, TrackingEnds, MqttJob, Query, Publish, PublishFails,
                  PassRaises, WorkerDies, Restart, Count, parcelVars, tableVars
    <3>2. \A v \in Users : read'[v] = read[v]
      <4>1. DOMAIN read = Readers /\ Users \subseteq Readers /\ Mqtt \notin Users
        BY KeysAssumption DEF TablesTypeOK, Readers
      <4>2. CASE Query
        BY <4>1, <4>2 DEF Query, Count
      <4>3. CASE \/ Tick \/ TrackingJob \/ TrackingEnds \/ MqttJob \/ Publish \/ PublishFails
                 \/ PassRaises \/ WorkerDies
        BY <4>1, <4>3 DEF Tick, TrackingJob, TrackingEnds, MqttJob, Publish, PublishFails, Published,
                          PassRaises, WorkerDies, Restart, parcelVars
      <4> QED BY <2>2, <4>2, <4>3 DEF WorkerStep
    <3> QED BY <3>1, <3>2, NoPollInv
  <2> QED BY <1>3, <2>1, <2>2 DEF Tracking, TrackingWorkerNext
<1>4. CASE Import(ImportWorkerNext)
  <2>1. ASSUME NEW u \in Users, NEW O \in SUBSET Orders, NEW S \in SUBSET Shipments,
               import_mail(u, O, S)
        PROVE  PollInv'
    <3>1. Writes
      BY <2>1 DEF Writes
    <3> QED BY <3>1, WritesPollInv
  <2>2. \/ UNCHANGED <<order, rows, ship, read>>
        \/ \E u \in Users, O \in SUBSET Orders, S \in SUBSET Shipments : import_mail(u, O, S)
    BY <1>4 DEF Import, ImportWorkerNext, ImportStep, SyncStep, list_active, NextAccount, Save,
                refresh_access_token, RefreshRefused, StoreToken, Fetch, SyncFails, FlushFails, Killed,
                sync_mail_account, Elapse, Revoke, _reconnect_oauth_account, parcelVars, tableVars
  <2> QED BY <2>1, <2>2, NoPollInv
<1>5. CASE UNCHANGED vars
  BY <1>5, NoPollInv DEF vars, parcelVars, tableVars
<1> QED BY <1>1, <1>2, <1>3, <1>4, <1>5 DEF Next

\* The first conjunct of PollCountsOnce: the active parcels.
LEMMA CountedOnce ==
    ASSUME RowsHaveOrder, NEW u \in Users, NEW s \in Shipments,
           \A q \in ActiveStatuses : s \in read[u].rows[q] <=> s \in count_by_status(u, q, TRUE)
    PROVE  Cardinality({q \in ActiveStatuses : s \in read[u].rows[q]})
             = IF s \in Active(u) THEN 1 ELSE 0
<1> DEFINE Q == {q \in ActiveStatuses : s \in read[u].rows[q]}
<1>1. \A q \in ActiveStatuses : s \in count_by_status(u, q, TRUE) <=>
          /\ s \in rows /\ OwnerOf[OrderOf[s]] = u /\ order[OrderOf[s]] # "archived"
          /\ ship[s].status = q
  BY DEF count_by_status, _base_user_query
<1>2. s \in rows => (order[OrderOf[s]] = "open" <=> order[OrderOf[s]] # "archived")
  BY DEF RowsHaveOrder, Present
<1>3. CASE s \in Active(u)
  <2>1. Q = {ship[s].status}
    BY <1>1, <1>2, <1>3 DEF Active
  <2> QED BY <1>3, <2>1, FS_Singleton
<1>4. CASE s \notin Active(u)
  <2>1. Q = {}
    BY <1>1, <1>2, <1>4 DEF Active
  <2> QED BY <1>4, <2>1, FS_EmptySet
<1> QED BY <1>3, <1>4

LEMMA PollInvIsEnough == TypeOK /\ PollInv => PollCountsOnce
<1> SUFFICES ASSUME TypeOK, PollInv, NEW u \in Users, At(u) = "load",
                    NEW s \in Shipments \ read[u].changed
             PROVE  /\ Cardinality({q \in ActiveStatuses : s \in read[u].rows[q]})
                         = IF s \in Active(u) THEN 1 ELSE 0
                    /\ s \in read[u].rows["total"] <=> s \in rows /\ OwnerOf[OrderOf[s]] = u
                    /\ s \in read[u].rows["delivered"] => s \in read[u].rows["total"]
                    /\ s \in read[u].rows["ever_delayed"]
                         <=> s \in read[u].rows["total"] /\ (ship[s].status = "delayed" \/ ship[s].delayed)
  BY DEF PollCountsOnce
<1>1. read[u].at = 16
  <2>1. read[u].at \in 1 .. 16 /\ Poll[read[u].at] = "load"
    BY WithinIs DEF TypeOK, Within, At
  <2> QED BY <2>1, PollProgram
<1>2. \A q \in Watched : Ran(u, q)
  <2> SUFFICES ASSUME NEW q \in Watched PROVE Ran(u, q)
    OBVIOUS
  <2>1. PICK i \in 1 .. 15 : Poll[i] = q
    BY PollProgram
  <2>2. i \in 1 .. 16 /\ i < 16
    OBVIOUS
  <2> QED BY <1>1, <2>1, <2>2 DEF Ran
<1>3. \A q \in Watched : s \in read[u].rows[q] <=> s \in Selected(u, q)
  BY <1>2 DEF PollInv, Exact
<1>4. \A q \in ActiveStatuses : s \in read[u].rows[q] <=> s \in count_by_status(u, q, TRUE)
  BY <1>3 DEF Watched, Selected
<1>5. /\ s \in read[u].rows["total"] <=> s \in count_for_user(u)
      /\ s \in read[u].rows["delivered"] <=> s \in count_by_status(u, "delivered", FALSE)
      /\ s \in read[u].rows["ever_delayed"] <=> s \in delayed_shipment_count_for_user(u)
  <2>1. /\ Selected(u, "total") = count_for_user(u)
        /\ Selected(u, "delivered") = count_by_status(u, "delivered", FALSE)
        /\ Selected(u, "ever_delayed") = delayed_shipment_count_for_user(u)
    BY DEF Selected, ActiveStatuses
  <2>2. "total" \in Watched /\ "delivered" \in Watched /\ "ever_delayed" \in Watched
    BY DEF Watched
  <2> QED BY <1>3, <2>1, <2>2
<1>6. Cardinality({q \in ActiveStatuses : s \in read[u].rows[q]}) = IF s \in Active(u) THEN 1 ELSE 0
  BY <1>4, CountedOnce DEF PollInv
<1>7. /\ s \in count_for_user(u) <=> s \in rows /\ OwnerOf[OrderOf[s]] = u
      /\ s \in count_by_status(u, "delivered", FALSE) => s \in count_for_user(u)
      /\ s \in delayed_shipment_count_for_user(u)
           <=> s \in count_for_user(u) /\ (ship[s].status = "delayed" \/ ship[s].delayed)
  BY DEF count_for_user, count_by_status, delayed_shipment_count_for_user, _base_user_query
<1> QED BY <1>5, <1>6, <1>7

LEMMA InitPollInv == Init => PollInv
<1> SUFFICES ASSUME Init PROVE PollInv
  OBVIOUS
<1>1. RowsHaveOrder
  BY KeysAssumption DEF Init, TablesInit, RowsHaveOrder, Present
<1>2. \A u \in Users : read[u].at = 0
  BY IdleType DEF Init, TablesInit, Readers
<1>3. \A u \in Users : Exact(u)
  BY <1>2 DEF Exact, Ran
<1> QED BY <1>1, <1>3 DEF PollInv

\* A shipment that nobody writes during a poll is counted as it is by every
\* statement of it (DashboardService, StatisticsService, coordinator), although
\* each statement sees the tables of its own moment: for any number of users,
\* orders and shipments, and whatever the others write meanwhile.
THEOREM PollsCountOnce == Spec => []PollCountsOnce
<1>1. TypeOK /\ ServicesHaveClient /\ PollInv /\ [Next]_vars => PollInv'
  BY NextPollInv
<1> QED BY <1>1, InitType, InitPollInv, NextType, PollInvIsEnough, PTL DEF Spec

=============================================================================
