------------------------ MODULE ImportedMailProofs ------------------------
(***************************************************************************)
(* EmailIngestion implements ImportedMail, for any number of mailboxes,    *)
(* users, messages and concurrent syncs.                                   *)
(*                                                                         *)
(* Only a commit changes the tables.  That it enters its messages wholly   *)
(* is PersistInv.  That it enters nothing else is OriginInv: every row and *)
(* every change of status that a transaction has flushed stems from a      *)
(* message it has recorded or is working on (Work), and belongs to the     *)
(* owner of the mailbox.  It is not enough to look at one transaction: two *)
(* of them may have flushed an order for the same message, and it is the   *)
(* unique index on emails.message_id that lets only one of them commit.    *)
(* Hence Once: a committed order stems from a recorded message, and no two *)
(* from the same.                                                          *)
(***************************************************************************)
EXTENDS EmailIngestionProofs

\* The messages that sync s has recorded or is working on, and for whom.
Work(s) ==
    newEmails[s] \cup IF pc[s] \in {"ship", "carrier", "email"} THEN {Current(s)} ELSE {}
User(s) == Owner[acct[s]]

\* The message in hand is not recorded yet by s.
HandIsNew(s) == pc[s] \in {"order", "ship", "carrier", "email"} => Current(s) \notin newEmails[s]

OrdersStem(s) == \A o \in rows[s].orders : Imported!NewOrder(o, User(s), Work(s))

OrdersDiffer(s) ==
    \A p, q \in rows[s].orders :
        p = q \/ (p.id # q.id /\ (p.number = None \/ p.number # q.number))

\* Order i is one that message m of sync s is about.
OrderOf(s, i, m) == \E o \in Visible(s) : o.id = i /\ o.user = User(s) /\ Imported!About(m, o)

MarksStem(s) ==
    \A i \in rows[s].shipped : \E m \in Work(s) : Content[m].trks # {} /\ OrderOf(s, i, m)

ShipmentsStem(s) ==
    \A r \in rows[s].shipments :
        r.by \in Work(s) /\ r.trk \in Content[r.by].trks /\ OrderOf(s, r.order, r.by)

ShipmentsDiffer(s) ==
    \A q, r \in rows[s].shipments : q.order = r.order /\ q.trk = r.trk => q = r

Stems(s) ==
    /\ HandIsNew(s) /\ OrdersStem(s) /\ OrdersDiffer(s) /\ MarksStem(s)
    /\ ShipmentsStem(s) /\ ShipmentsDiffer(s)

Once ==
    /\ \A o \in orders : o.id \in emails
    /\ \A p, q \in orders : p.id = q.id => p = q

OriginInv == Once /\ \A s \in Syncers : Stems(s)

Inv == IndInv /\ PersistInv /\ OriginInv

-----------------------------------------------------------------------------
(* What a sync sees and works on lasts.                                    *)

\* The order of a message stays one of its orders.
LEMMA OrderOfLasts ==
    ASSUME NEW s \in Syncers, Lasts(s), acct'[s] = acct[s], NEW i, NEW m, OrderOf(s, i, m)
    PROVE  OrderOf(s, i, m)'
<1>1. PICK o \in Visible(s) : o.id = i /\ o.user = User(s) /\ Imported!About(m, o)
  BY DEF OrderOf
<1>2. PICK p \in Visible(s)' : p.id = o.id /\ p.user = o.user /\ p.number = o.number
  BY DEF Lasts
<1>3. Imported!About(m, p)
  BY <1>1, <1>2 DEF Imported!About
<1> QED
  BY <1>1, <1>2, <1>3 DEF OrderOf, User

\* A sync that flushes nothing, and goes on with all it works on, keeps what it has.
LEMMA StemsLast ==
    ASSUME NEW s \in Syncers, Stems(s), Lasts(s), acct'[s] = acct[s], rows'[s] = rows[s],
           Work(s) \subseteq Work(s)', HandIsNew(s)'
    PROVE  Stems(s)'
<1>1. OrdersStem(s)' /\ OrdersDiffer(s)' /\ ShipmentsDiffer(s)'
  BY DEF Stems, OrdersStem, OrdersDiffer, ShipmentsDiffer, User, Imported!NewOrder
<1>2. MarksStem(s)'
  BY OrderOfLasts DEF Stems, MarksStem
<1>3. ShipmentsStem(s)'
  BY OrderOfLasts DEF Stems, ShipmentsStem
<1> QED
  BY <1>1, <1>2, <1>3 DEF Stems

\* A sync that does not move works on the same messages.
LEMMA SameWork ==
    ASSUME IndInv, NEW s \in Syncers, newEmails'[s] = newEmails[s], pc'[s] = pc[s],
           todo[s] # {} => Current(s)' = Current(s)
    PROVE  Work(s)' = Work(s) /\ (HandIsNew(s) => HandIsNew(s)')
<1>1. pc[s] \in {"order", "ship", "carrier", "email"} => todo[s] # {}
  BY DEF IndInv, BatchInv, BatchOf
<1> QED
  BY <1>1 DEF Work, HandIsNew

\* A step of sync s that commits nothing: the others keep what they have.
LEMMA OthersStem ==
    ASSUME Inv, NEW s \in Syncers, UNCHANGED <<mail, tableVars>>,
           \A t \in Syncers \ {s} : Stays(t), Stems(s)'
    PROVE  OriginInv'
<1>1. ASSUME NEW t \in Syncers \ {s} PROVE Stems(t)'
  <2>1. Current(t)' = Current(t) /\ Visible(t)' = Visible(t)
    BY DEF Current, CurrentUid, Visible, Stays, tableVars
  <2>2. Work(t)' = Work(t) /\ HandIsNew(t)'
    BY <2>1, SameWork DEF Inv, OriginInv, Stems, Stays
  <2>3. Lasts(t)
    BY <2>1 DEF Lasts, Marked, Stays, tableVars
  <2> QED
    BY <2>2, <2>3, StemsLast DEF Inv, OriginInv, Stays
<1>2. Once'
  BY DEF Inv, OriginInv, Once, tableVars
<1> QED
  BY <1>1, <1>2 DEF OriginInv

\* The end of a sync without a commit.
LEMMA EndSyncStems ==
    ASSUME Inv, NEW s \in Syncers, EndSync(s), UNCHANGED <<mail, tableVars>>
    PROVE  OriginInv'
<1>1. /\ rows'[s].orders = {} /\ rows'[s].shipped = {} /\ rows'[s].shipments = {}
      /\ pc'[s] = "idle"
  BY DEF EndSync, EmptyRows, Inv, IndInv, TypeOK
<1>2. Stems(s)'
  BY <1>1 DEF Stems, HandIsNew, OrdersStem, OrdersDiffer, MarksStem, ShipmentsStem, ShipmentsDiffer
<1>3. \A t \in Syncers \ {s} : Stays(t)
  BY DEF EndSync, Inv, IndInv, TypeOK, Stays
<1> QED
  BY <1>2, <1>3, OthersStem

-----------------------------------------------------------------------------
(* The steps of a sync.                                                    *)

\* Loading the account, fetching, and finding out whether a message is known.
LEMMA CheckStems ==
    ASSUME Inv, NEW s \in Syncers, Fetch(s) \/ Check(s) \/ \E a \in Accounts : Begin(s, a)
    PROVE  OriginInv'
<1>1. UNCHANGED <<mail, tableVars, newEmails, rows>>
  BY DEF Fetch, Check, Begin, mailVars
<1>2. \A t \in Syncers \ {s} : Stays(t)
  <2>1. CASE Fetch(s)
    BY <2>1 DEF Fetch, Inv, IndInv, TypeOK, Stays
  <2>2. CASE Check(s)
    BY <2>2 DEF Check, Inv, IndInv, TypeOK, Stays
  <2>3. CASE \E a \in Accounts : Begin(s, a)
    BY <2>3 DEF Begin, Inv, IndInv, TypeOK, Stays
  <2> QED
    BY <2>1, <2>2, <2>3
<1>3. Stems(s)'
  <2>1. CASE Fetch(s) \/ Check(s)
    <3>1. acct' = acct /\ pc[s] \in {"fetch", "check"}
      BY <2>1 DEF Fetch, Check
    <3>2. Work(s) \subseteq Work(s)'
      BY <1>1, <3>1 DEF Work
    <3>4. HandIsNew(s)'
      <4>1. CASE Fetch(s)
        BY <4>1 DEF Fetch, HandIsNew, Inv, IndInv, TypeOK
      <4>2. CASE Check(s) /\ Current(s) \in emails \cup newEmails[s]
        BY <4>2 DEF Check, HandIsNew, Inv, IndInv, TypeOK
      <4>3. CASE Check(s) /\ Current(s) \notin emails \cup newEmails[s]
        <5>1. todo'[s] = todo[s] /\ src' = src
          BY <4>3 DEF Check, Inv, IndInv, TypeOK
        <5>2. Current(s)' = Current(s)
          BY <1>1, <5>1 DEF Current, CurrentUid
        <5> QED
          BY <1>1, <4>3, <5>2 DEF HandIsNew
      <4> QED
        BY <2>1, <4>1, <4>2, <4>3
    <3>3. Lasts(s)
      BY <1>1 DEF Lasts, Visible, Marked, tableVars
    <3> QED
      BY <1>1, <3>1, <3>2, <3>3, <3>4, StemsLast DEF Inv, OriginInv
  <2>2. CASE \E a \in Accounts : Begin(s, a)
    <3>1. rows'[s] = EmptyRows /\ pc'[s] = "fetch"
      BY <1>1, <2>2 DEF Begin, Inv, IndInv, TypeOK, PersistInv, Unstarted
    <3> QED
      BY <3>1 DEF EmptyRows, Stems, HandIsNew, OrdersStem, OrdersDiffer, MarksStem, ShipmentsStem,
                  ShipmentsDiffer
  <2> QED
    BY <2>1, <2>2
<1> QED
  BY <1>1, <1>2, <1>3, OthersStem

\* A step of s that flushes rows for the message in hand goes on with all it works
\* on, and adds that message.
LEMMA FlushWork ==
    ASSUME Inv, NEW s \in Syncers,
           FindOrder(s) \/ AddOrder(s) \/ AddShipments(s) \/ CarrierAbsent(s) \/ AddCarrier(s)
    PROVE  /\ UNCHANGED <<mail, tableVars, acct>>
           /\ \A t \in Syncers \ {s} : Stays(t)
           /\ Lasts(s) /\ User(s)' = User(s)
           /\ Work(s) \subseteq Work(s)' /\ Current(s) \in Work(s)'
           /\ Current(s) \in Msgs /\ Current(s) \notin newEmails[s] /\ HandIsNew(s)'
<1>1. \E q \in {"ship", "carrier", "email"} : pc' = [pc EXCEPT ![s] = q]
  BY DEF FindOrder, AddOrder, AddShipments, CarrierAbsent, AddCarrier
<1>2. pc'[s] \in {"ship", "carrier", "email"}
  BY <1>1 DEF Inv, IndInv, TypeOK
<1>3. pc[s] \in {"order", "ship", "carrier"}
  BY DEF FindOrder, AddOrder, AddShipments, CarrierAbsent, AddCarrier
<1>4. Current(s) \notin newEmails[s]
  BY <1>3 DEF Inv, OriginInv, Stems, HandIsNew
<1>5. HandIsNew(s)'
  BY <1>4, FlushLasts DEF HandIsNew, Inv
<1> QED
  BY <1>2, <1>4, <1>5, FlushLasts DEF Work, User, Inv

\* An order is found, and perhaps marked.
LEMMA FindOrderStems ==
    ASSUME Inv, NEW s \in Syncers, FindOrder(s)
    PROVE  OriginInv'
<1> DEFINE m == Current(s)
<1>1. PICK o \in FoundOrders(s, m) :
         rows' = [rows EXCEPT ![s].shipped =
                    IF Ships(m) /\ o.status = "CONFIRMED" THEN @ \cup {o.id} ELSE @]
  BY DEF FindOrder
<1>2. /\ rows'[s].orders = rows[s].orders /\ rows'[s].shipments = rows[s].shipments
      /\ rows'[s].shipped \subseteq rows[s].shipped \cup {o.id}
      /\ rows'[s].shipped # rows[s].shipped => Content[m].trks # {}
  BY <1>1 DEF Ships, Inv, IndInv, TypeOK, RowsType
<1>3. OrderOf(s, o.id, m)
  BY DEF FoundOrders, OrderOf, Visible, User, Imported!About
<1>4. OrdersStem(s)' /\ OrdersDiffer(s)' /\ ShipmentsDiffer(s)'
  BY <1>2, FlushWork DEF Inv, OriginInv, Stems, OrdersStem, OrdersDiffer, ShipmentsDiffer,
                         Imported!NewOrder
<1>5. MarksStem(s)'
  <2> SUFFICES ASSUME NEW i \in rows'[s].shipped
               PROVE  \E n \in Work(s)' : Content[n].trks # {} /\ OrderOf(s, i, n)'
    BY DEF MarksStem
  <2>1. PICK n \in Work(s)' : Content[n].trks # {} /\ OrderOf(s, i, n)
    <3>1. CASE i \in rows[s].shipped
      BY <3>1, FlushWork DEF Inv, OriginInv, Stems, MarksStem
    <3>2. CASE i \notin rows[s].shipped
      BY <1>2, <1>3, <3>2, FlushWork
    <3> QED
      BY <3>1, <3>2
  <2> QED
    BY <2>1, FlushWork, OrderOfLasts
<1>6. ShipmentsStem(s)'
  BY <1>2, FlushWork, OrderOfLasts DEF Inv, OriginInv, Stems, ShipmentsStem
<1> QED
  BY <1>4, <1>5, <1>6, FlushWork, OthersStem DEF Stems

\* An order is added: none of its number is there, in this transaction either.
LEMMA AddOrderStems ==
    ASSUME Inv, NEW s \in Syncers, AddOrder(s)
    PROVE  OriginInv'
<1>0. PICK m \in Msgs : m = Current(s)
  BY FlushWork
<1> DEFINE new == [id |-> m, user |-> Owner[acct[s]], number |-> Content[m].number,
                   status |-> IF Content[m].kind = "carrier" THEN "SHIPPED" ELSE "CONFIRMED",
                   via |-> s]
<1>1. /\ rows'[s].orders = rows[s].orders \cup {new}
      /\ rows'[s].shipments = rows[s].shipments
      /\ rows'[s].shipped \subseteq rows[s].shipped \cup {m}
      /\ rows'[s].shipped # rows[s].shipped => Content[m].trks # {}
  BY <1>0 DEF AddOrder, Ships, Inv, IndInv, TypeOK, RowsType
<1>2. new.id = m /\ new.user = User(s) /\ new.number = Content[m].number
  BY DEF User
<1>3. Content[m].kind # "other"
  BY <1>0 DEF Inv, PersistInv, InHand, AddOrder
<1>4. Visible(s)' = Visible(s) \cup {new}
  BY <1>1, FlushWork DEF Visible, tableVars
<1>5. FoundOrders(s, m) = {}
  BY <1>0 DEF AddOrder
<1>6. \A p \in rows[s].orders : p.id \in newEmails[s]
  BY DEF Inv, OriginInv, Stems, OrdersStem, Imported!NewOrder, AddOrder, Work
<1>7. m \notin newEmails[s]
  BY <1>0, FlushWork
<1> HIDE DEF new
<1>8. OrdersStem(s)'
  BY <1>0, <1>1, <1>2, <1>3, FlushWork DEF Inv, OriginInv, Stems, OrdersStem, Imported!NewOrder
<1>9. OrdersDiffer(s)'
  <2>1. ASSUME NEW p \in rows[s].orders
        PROVE  p.id # new.id /\ (p.number = None \/ p.number # new.number)
    BY <1>2, <1>5, <1>6, <1>7
       DEF Inv, OriginInv, Stems, OrdersStem, Imported!NewOrder, FoundOrders, User
  <2> QED
    BY <1>1, <2>1 DEF Inv, OriginInv, Stems, OrdersDiffer
<1>10. MarksStem(s)'
  <2>1. OrderOf(s, m, m)'
    BY <1>2, <1>4, FlushWork DEF OrderOf, Imported!About
  <2> SUFFICES ASSUME NEW i \in rows'[s].shipped
               PROVE  \E n \in Work(s)' : Content[n].trks # {} /\ OrderOf(s, i, n)'
    BY DEF MarksStem
  <2>2. CASE i \in rows[s].shipped
    <3>1. PICK n \in Work(s) : Content[n].trks # {} /\ OrderOf(s, i, n)
      BY <2>2 DEF Inv, OriginInv, Stems, MarksStem
    <3> QED
      BY <3>1, FlushWork, OrderOfLasts
  <2>3. CASE i \notin rows[s].shipped
    BY <1>0, <1>1, <2>1, <2>3, FlushWork
  <2> QED
    BY <2>2, <2>3
<1>11. ShipmentsStem(s)' /\ ShipmentsDiffer(s)'
  BY <1>1, FlushWork, OrderOfLasts
     DEF Inv, OriginInv, Stems, ShipmentsStem, ShipmentsDiffer
<1> QED
  BY <1>8, <1>9, <1>10, <1>11, FlushWork, OthersStem DEF Stems

\* The shipments are added, or the carrier they need: a shipment goes to the order
\* in hand, which is one of its message.
LEMMA AddShipmentsStems ==
    ASSUME Inv, NEW s \in Syncers, AddShipments(s) \/ CarrierAbsent(s) \/ AddCarrier(s)
    PROVE  OriginInv'
<1>0. PICK m \in Msgs : m = Current(s)
  BY FlushWork
<1> DEFINE New(t) == [order |-> order[s], trk |-> t, by |-> m]
<1>1. PICK T \in SUBSET Missing(s) :
         /\ rows'[s].orders = rows[s].orders /\ rows'[s].shipped = rows[s].shipped
         /\ rows'[s].shipments = rows[s].shipments \cup {New(t) : t \in T}
         /\ T # {} => pc[s] = "ship"
  <2>0. ASSUME NEW T \in SUBSET Missing(s),
               rows'[s].orders = rows[s].orders /\ rows'[s].shipped = rows[s].shipped,
               rows'[s].shipments = rows[s].shipments \cup {New(t) : t \in T},
               T # {} => pc[s] = "ship"
        PROVE  \E U \in SUBSET Missing(s) :
                  /\ rows'[s].orders = rows[s].orders /\ rows'[s].shipped = rows[s].shipped
                  /\ rows'[s].shipments = rows[s].shipments \cup {New(t) : t \in U}
                  /\ U # {} => pc[s] = "ship"
    <3> WITNESS T \in SUBSET Missing(s)
    <3> QED
      BY <2>0
  <2>1. CASE AddShipments(s)
    <3>1. /\ rows'[s].orders = rows[s].orders /\ rows'[s].shipped = rows[s].shipped
          /\ rows'[s].shipments = rows[s].shipments \cup {New(t) : t \in Missing(s)}
          /\ pc[s] = "ship"
      BY <1>0, <2>1 DEF AddShipments, Inv, IndInv, TypeOK, RowsType
    <3> HIDE DEF New
    <3> QED
      BY <2>0, <3>1
  <2>2. CASE CarrierAbsent(s) \/ AddCarrier(s)
    <3>1. /\ rows'[s].orders = rows[s].orders /\ rows'[s].shipped = rows[s].shipped
          /\ rows'[s].shipments = rows[s].shipments
      BY <2>2 DEF CarrierAbsent, AddCarrier, Inv, IndInv, TypeOK, RowsType
    <3> HIDE DEF New
    <3>2. rows'[s].shipments = rows[s].shipments \cup {New(t) : t \in {}}
      BY <3>1
    <3> QED
      BY <2>0, <3>1, <3>2
  <2> QED
    BY <2>1, <2>2
<1>2. \A t : New(t).order = order[s] /\ New(t).trk = t /\ New(t).by = m
  OBVIOUS
<1> HIDE DEF New
<1>3. OrdersStem(s)' /\ OrdersDiffer(s)'
  BY <1>1, FlushWork DEF Inv, OriginInv, Stems, OrdersStem, OrdersDiffer, Imported!NewOrder
<1>4. MarksStem(s)'
  BY <1>1, FlushWork, OrderOfLasts DEF Inv, OriginInv, Stems, MarksStem
<1>5. ShipmentsStem(s)'
  <2> SUFFICES ASSUME NEW r \in rows'[s].shipments
               PROVE  /\ r.by \in Work(s)' /\ r.trk \in Content[r.by].trks
                      /\ OrderOf(s, r.order, r.by)'
    BY DEF ShipmentsStem
  <2>1. CASE r \in rows[s].shipments
    BY <2>1, FlushWork, OrderOfLasts DEF Inv, OriginInv, Stems, ShipmentsStem
  <2>2. CASE r \notin rows[s].shipments
    <3>1. PICK t \in T : r = New(t)
      BY <1>1, <2>2
    <3>2. t \in Content[m].trks
      BY <1>0, <3>1 DEF Missing
    <3>3. Content[m].kind # "other"
      BY <3>2, ContentAssumption
    <3>4. PICK o \in Visible(s) : o.id = order[s] /\ OrderFor(s, m, o)
      BY <1>0, <1>1, <3>1, <3>3 DEF Inv, PersistInv, InHand
    <3>5. OrderOf(s, order[s], m)
      BY <3>4 DEF OrderOf, OrderFor, User, Imported!About
    <3>6. OrderOf(s, r.order, m)
      BY <1>2, <3>1, <3>5
    <3>7. OrderOf(s, r.order, m)'
      BY <3>6, FlushWork, OrderOfLasts
    <3> QED
      BY <1>0, <1>2, <3>1, <3>2, <3>7, FlushWork
  <2> QED
    BY <2>1, <2>2
<1>6. ShipmentsDiffer(s)'
  <2>1. ASSUME NEW t \in T, NEW r \in rows[s].shipments
        PROVE  r.order # order[s] \/ r.trk # t
    BY DEF Missing
  <2> QED
    BY <1>1, <1>2, <2>1 DEF Inv, OriginInv, Stems, ShipmentsDiffer
<1> QED
  BY <1>3, <1>4, <1>5, <1>6, FlushWork, OthersStem DEF Stems

\* The email row is added: the message in hand becomes one of the recorded.
LEMMA AddEmailStems ==
    ASSUME Inv, NEW s \in Syncers, AddEmail(s)
    PROVE  OriginInv'
<1>1. UNCHANGED <<mail, tableVars, acct, src, order, rows>>
  BY DEF AddEmail, mailVars
<1>2. \A t \in Syncers \ {s} : Stays(t)
  BY <1>1 DEF AddEmail, Inv, IndInv, TypeOK, Stays
<1>3. pc'[s] = "check" /\ pc[s] = "email" /\ newEmails'[s] = newEmails[s] \cup {Current(s)}
  BY DEF AddEmail, Inv, IndInv, TypeOK
<1>4. Work(s) \subseteq Work(s)' /\ HandIsNew(s)'
  BY <1>3 DEF Work, HandIsNew
<1>5. Lasts(s)
  BY <1>1 DEF Lasts, Visible, Marked, tableVars
<1> QED
  BY <1>1, <1>2, <1>4, <1>5, StemsLast, OthersStem DEF Inv, OriginInv

-----------------------------------------------------------------------------
(* The commit.                                                             *)

\* A transaction at its end: its rows stem from the messages it records, none of
\* which was recorded, so that an order it sees is known by its key.
LEMMA CommitKeys ==
    ASSUME Inv, NEW s \in Syncers, Commit(s)
    PROVE  /\ Work(s) = newEmails[s] /\ newEmails[s] \cap emails = {}
           /\ \A o \in rows[s].orders : o.id \in newEmails[s]
           /\ \A p, q \in Visible(s) : p.id = q.id => p = q
<1>1. Work(s) = newEmails[s]
  BY DEF Commit, Work
<1>2. newEmails[s] \cap emails = {}
  BY DEF Inv, IndInv, Exclusive
<1>3. \A o \in rows[s].orders : o.id \in newEmails[s]
  BY <1>1 DEF Inv, OriginInv, Stems, OrdersStem, Imported!NewOrder
<1>4. \A p, q \in Visible(s) : p.id = q.id => p = q
  BY <1>2, <1>3 DEF Inv, OriginInv, Once, Stems, OrdersDiffer, Visible
<1> QED
  BY <1>1, <1>2, <1>3, <1>4

LEMMA CommitStems ==
    ASSUME Inv, NEW s \in Syncers, Commit(s)
    PROVE  OriginInv'
<1>1. Once'
  <2>1. ASSUME NEW p \in orders'
        PROVE  \E o \in Visible(s) : p = Shipped(s, o) /\ p.id = o.id
    BY CommitRows DEF Inv
  <2>2. \A p \in orders' : p.id \in emails'
    <3> SUFFICES ASSUME NEW o \in Visible(s) PROVE o.id \in emails'
      BY <2>1
    <3> QED
      BY CommitRows, CommitKeys DEF Visible, Inv, OriginInv, Once
  <2>3. \A p, q \in orders' : p.id = q.id => p = q
    BY <2>1, CommitKeys
  <2> QED
    BY <2>2, <2>3 DEF Once
<1>2. Stems(s)'
  <2>1. /\ rows'[s].orders = {} /\ rows'[s].shipped = {} /\ rows'[s].shipments = {}
        /\ pc'[s] = "idle"
    BY DEF Commit, EndSync, EmptyRows, Inv, IndInv, TypeOK
  <2> QED
    BY <2>1 DEF Stems, HandIsNew, OrdersStem, OrdersDiffer, MarksStem, ShipmentsStem, ShipmentsDiffer
<1>3. ASSUME NEW t \in Syncers \ {s} PROVE Stems(t)'
  <2>1. Stays(t) /\ Lasts(t) /\ Current(t)' = Current(t)
    BY CommitLasts DEF Inv
  <2>2. Work(t)' = Work(t) /\ HandIsNew(t)'
    BY <2>1, SameWork DEF Inv, OriginInv, Stems, Stays
  <2> QED
    BY <2>1, <2>2, StemsLast DEF Inv, OriginInv, Stays
<1> QED
  BY <1>1, <1>2, <1>3 DEF OriginInv

\* The commit is an import of the messages of the transaction for the owner of the
\* mailbox.
LEMMA CommitImports ==
    ASSUME Inv, NEW s \in Syncers, Commit(s)
    PROVE  User(s) \in Users /\ Imported!Import(User(s), emails' \ emails)
<1>1. PICK u \in Users : u = User(s)
  BY AccountsAssumption DEF User, Commit, Inv, IndInv, TypeOK
<1>2. PICK M \in SUBSET Msgs : M = newEmails[s] /\ Work(s) = M /\ M \cap emails = {}
  BY CommitKeys DEF Inv, IndInv, TypeOK
<1>3. emails' = emails \cup M /\ emails' \ emails = M
  BY <1>2, CommitRows DEF Inv
<1>4. \A m \in M : Content[m].kind # "other" => Imported!Entered(m, u)'
  BY <1>1, <1>2, CommitEnters DEF Imported!Entered, Imported!About, User, Inv
<1>5. ASSUME NEW o \in orders
      PROVE  Shipped(s, o) \in orders' /\ Imported!Advanced(o, Shipped(s, o), u, M)
  <2>1. o \in Visible(s) /\ o \in OrderRow /\ Shipped(s, o) \in orders'
    BY CommitRows DEF Visible, Inv
  <2>2. CASE o.id \notin rows[s].shipped
    BY <2>1, <2>2 DEF Shipped, OrderRow, Imported!Advanced
  <2>3. CASE o.id \in rows[s].shipped
    <3>1. PICK m \in M : Content[m].trks # {} /\ OrderOf(s, o.id, m)
      BY <1>2, <2>3 DEF Inv, OriginInv, Stems, MarksStem
    <3>2. o.user = u /\ Imported!About(m, o)
      BY <1>1, <2>1, <3>1, CommitKeys DEF OrderOf
    <3>3. Shipped(s, o) = [o EXCEPT !.status = "SHIPPED"]
      BY <2>3 DEF Shipped
    <3> QED
      BY <2>1, <3>1, <3>2, <3>3 DEF Imported!Advanced
  <2> QED
    BY <2>2, <2>3
<1>6. ASSUME NEW o \in rows[s].orders
      PROVE  Imported!NewOrder(Shipped(s, o), u, M)
  <2>1. o \in Visible(s) /\ Imported!NewOrder(o, u, M)
    BY <1>1, <1>2 DEF Visible, Inv, OriginInv, Stems, OrdersStem
  <2> QED
    BY <2>1, CommitRows DEF Imported!NewOrder, Inv
<1>7. \A p \in orders' : \/ \E o \in orders : Imported!Advanced(o, p, u, M)
                         \/ Imported!NewOrder(p, u, M)
  BY <1>5, <1>6, CommitRows DEF Visible, Inv
<1>8. ASSUME NEW p \in orders', NEW q \in orders', p # q
      PROVE  /\ p.id # q.id
             /\ {p.id, q.id} \subseteq M => p.number = None \/ p.number # q.number
  <2>1. PICK o \in Visible(s) : p.id = o.id /\ p.number = o.number /\ p = Shipped(s, o)
    BY CommitRows DEF Inv
  <2>2. PICK r \in Visible(s) : q.id = r.id /\ q.number = r.number /\ q = Shipped(s, r)
    BY CommitRows DEF Inv
  <2>3. p.id # q.id
    BY <1>8, <2>1, <2>2, CommitKeys
  <2>4. p.id \in M => o \in rows[s].orders
    BY <1>2, <2>1 DEF Visible, Inv, OriginInv, Once
  <2>5. q.id \in M => r \in rows[s].orders
    BY <1>2, <2>2 DEF Visible, Inv, OriginInv, Once
  <2> QED
    BY <2>1, <2>2, <2>3, <2>4, <2>5 DEF Inv, OriginInv, Stems, OrdersDiffer
<1>9. shipments \subseteq shipments' /\ shipments' \ shipments \subseteq rows[s].shipments
  BY CommitRows DEF Inv
<1>10. ASSUME NEW r \in rows[s].shipments
       PROVE  Imported!NewShipment(r, u, M)
  <2>1. r.by \in M /\ r.trk \in Content[r.by].trks /\ OrderOf(s, r.order, r.by)
    BY <1>2 DEF Inv, OriginInv, Stems, ShipmentsStem
  <2>2. PICK o \in Visible(s) : o.id = r.order /\ o.user = u /\ Imported!About(r.by, o)
    BY <1>1, <2>1 DEF OrderOf
  <2>3. PICK p \in orders' : p.id = o.id /\ p.user = o.user /\ p.number = o.number
    BY CommitRows DEF Inv
  <2> QED
    BY <2>1, <2>2, <2>3 DEF Imported!NewShipment, Imported!About
<1>11. \A q, r \in shipments' \ shipments : q.order = r.order /\ q.trk = r.trk => q = r
  BY <1>9 DEF Inv, OriginInv, Stems, ShipmentsDiffer
<1>12. Imported!Import(u, M)
  BY <1>3, <1>4, <1>5, <1>7, <1>8, <1>9, <1>10, <1>11 DEF Imported!Import
<1> QED
  BY <1>1, <1>3, <1>12

-----------------------------------------------------------------------------
(* Every step keeps the invariant, and is an import or changes no table.   *)

LEMMA OriginKept == Inv /\ [Next]_vars => OriginInv'
<1> SUFFICES ASSUME Inv, [Next]_vars PROVE OriginInv'
  OBVIOUS
<1>1. ASSUME UNCHANGED <<tableVars, sessionVars>>,
             \A s \in Syncers : todo[s] # {} => Current(s)' = Current(s)
      PROVE  OriginInv'
  <2> USE DEF tableVars, sessionVars
  <2>1. Once'
    BY <1>1 DEF Inv, OriginInv, Once
  <2>2. ASSUME NEW s \in Syncers PROVE Stems(s)'
    <3>1. Lasts(s)
      BY <1>1 DEF Visible, Lasts, Marked
    <3>2. Work(s)' = Work(s) /\ HandIsNew(s)'
      BY <1>1, SameWork DEF Inv, OriginInv, Stems
    <3> QED
      BY <1>1, <3>1, <3>2, StemsLast DEF Inv, OriginInv
  <2> QED
    BY <2>1, <2>2 DEF OriginInv
<1>2. CASE \/ UNCHANGED vars
           \/ \E a \in Accounts, f \in Folders : CreateAccount(a, f) \/ UpdateAccount(a, f)
           \/ \E a \in Accounts : DeleteAccount(a)
  <2>1. UNCHANGED <<mail, tableVars, sessionVars>>
    BY <1>2 DEF vars, mailVars, CreateAccount, UpdateAccount, DeleteAccount
  <2>2. \A s \in Syncers : Current(s)' = Current(s)
    BY <2>1, SameCurrent DEF sessionVars
  <2> QED
    BY <1>1, <2>1, <2>2
<1>3. ASSUME NEW f \in Folders, NEW m \in Msgs, NEW u \in Uids, Arrive(f, m, u)
      PROVE  OriginInv'
  <2>1. \A s \in Syncers : todo[s] # {} => Current(s)' = Current(s)
    BY <1>3, ArriveCurrent DEF Inv
  <2> QED
    BY <1>1, <1>3, <2>1 DEF Arrive
<1>4. ASSUME NEW s \in Syncers, NEW a \in Accounts, Begin(s, a)
      PROVE  OriginInv'
  BY <1>4, CheckStems
<1>5. ASSUME NEW s \in Syncers, Step(s) \/ Fail(s)
      PROVE  OriginInv'
  <2>1. \/ EndSync(s) /\ UNCHANGED <<mail, tableVars>>
        \/ Fetch(s) \/ Check(s) \/ FindOrder(s) \/ AddOrder(s) \/ AddShipments(s)
        \/ CarrierAbsent(s) \/ AddCarrier(s) \/ AddEmail(s) \/ Commit(s)
    BY <1>5 DEF Step, FetchRaises, CarrierConflict, EmailConflict, CommitStale,
                DeadlockVictim, Rollback, Fail, mailVars
  <2> QED
    BY <2>1, EndSyncStems, CheckStems, FindOrderStems, AddOrderStems, AddShipmentsStems,
       AddEmailStems, CommitStems
<1> QED
  BY <1>2, <1>3, <1>4, <1>5 DEF Next

LEMMA StepImports == Inv /\ [Next]_vars => [Imported!Next]_(Imported!vars)
<1> SUFFICES ASSUME Inv, [Next]_vars PROVE [Imported!Next]_(Imported!vars)
  OBVIOUS
<1>1. ASSUME NEW s \in Syncers, Commit(s) PROVE Imported!Next
  BY <1>1, CommitImports DEF Imported!Next
<1>2. CASE UNCHANGED tableVars
  BY <1>2 DEF tableVars, Imported!vars
<1>3. UNCHANGED tableVars \/ \E s \in Syncers : Commit(s)
  BY DEF Next, vars, Arrive, CreateAccount, UpdateAccount, DeleteAccount, Begin, Step, Fail,
         Fetch, FetchRaises, Check, FindOrder, AddOrder, AddShipments, CarrierAbsent, AddCarrier,
         CarrierConflict, AddEmail, EmailConflict, CommitStale, DeadlockVictim, Rollback
<1> QED
  BY <1>1, <1>2, <1>3

\* However the syncs of several mailboxes and users race and fail, each commit of
\* sync_account enters its mails once, wholly, for the owner of the mailbox, and
\* nothing that does not stem from them.
THEOREM ImportedMailImplemented == Spec => ImplementsImportedMail
<1>1. Init => PersistInv /\ OriginInv
  BY DEF Init, PersistInv, InHand, Promised, Unstarted, Placeholders, Visible,
         RecordedIsPersisted, EmptyRows, OriginInv, Once, Stems, HandIsNew, OrdersStem,
         OrdersDiffer, MarksStem, ShipmentsStem, ShipmentsDiffer
<1>2. Init => Imported!Init
  BY DEF Init, Imported!Init
<1>3. IndInv /\ PersistInv /\ OriginInv /\ [Next]_vars
        => PersistInv' /\ OriginInv' /\ [Imported!Next]_(Imported!vars)
  BY PersistKept, OriginKept, StepImports DEF Inv
<1> QED
  BY <1>1, <1>2, <1>3, Invariant, PTL DEF Spec, ImplementsImportedMail, Imported!Spec

=============================================================================
