------------------------ MODULE EmailIngestionProofs ------------------------
(***************************************************************************)
(* Proofs about EmailIngestion, for any number of accounts, folders,       *)
(* messages and concurrent syncs, and any batch limit.                     *)
(*                                                                         *)
(* WatermarkSafe is not inductive: what a sync will store in last_seen_uid *)
(* was computed from a row it read long before.  IndInv adds what ties an  *)
(* open sync to the committed rows:                                        *)
(*   - its batch has no gap above the watermark it loaded (NoGap), and     *)
(*     every message the loop is done with is recorded, committed or by    *)
(*     the sync itself (Done);                                             *)
(*   - if its watermark moved, then to the UID of a message the sync       *)
(*     inserted itself (Moved), which no one else has (Exclusive);         *)
(*   - the committed watermark is not below the loaded one (Anchored).     *)
(* The last two give monotonicity: if another sync had stored a higher     *)
(* watermark meanwhile, the message this one inserted would have been      *)
(* recorded already, against the uniqueness of message_id.                 *)
(*                                                                         *)
(* Three more invariants, on top of IndInv: Fetched, for CaughtUp;         *)
(* FlushedIsAnnounced, for ImportedIsAnnounced; and PersistInv, for        *)
(* RecordedIsPersisted.                                                    *)
(***************************************************************************)
EXTENDS EmailIngestion, TLAPS, FiniteSetTheorems, WellFoundedInduction

BatchOf(s) ==
    /\ todo[s] \subseteq batch[s]
    /\ \A u \in batch[s] : mail[src[s]][u] \in Msgs
    /\ pc[s] \in {"idle", "fetch"} => batch[s] = {}
    /\ pc[s] \in {"order", "ship", "carrier", "email"} => todo[s] # {}
    /\ pc[s] \in {"ship", "carrier"} => order[s] \in Msgs
    /\ pc[s] = "carrier" => Content[Current(s)].trks # {}

BatchInv == \A s \in Syncers : BatchOf(s)

NoGap ==
    \A s \in Syncers : \A w \in batch[s] : \A u \in Uids :
        mail[src[s]][u] # None /\ since[s] < u /\ u < w => u \in batch[s]

Done ==
    \A s \in Syncers : \A u \in batch[s] \ todo[s] :
        mail[src[s]][u] \in emails \cup newEmails[s]

Moved ==
    \A s \in Syncers :
        seen[s] # since[s] =>
            /\ seen[s] > since[s]
            /\ seen[s] \in batch[s] \ todo[s]
            /\ mail[src[s]][seen[s]] \in newEmails[s]

Exclusive ==
    \A s \in Syncers :
        /\ newEmails[s] \cap emails = {}
        /\ \A t \in Syncers \ {s} : newEmails[s] \cap newEmails[t] = {}

Anchored ==
    \A s \in Syncers : pc[s] # "idle" =>
        /\ acct[s] \in created
        /\ acct[s] \in exists /\ ~switched[acct[s]] =>
             src[s] = folder[acct[s]] /\ since[s] <= lastSeen[acct[s]]

Fresh == \A a \in Accounts \ exists : lastSeen[a] = 0

Reached ==
    \A a \in exists : ~switched[a] /\ lastSeen[a] # 0 => mail[folder[a]][lastSeen[a]] # None

IndInv ==
    /\ TypeOK
    /\ BatchInv /\ NoGap /\ Done /\ Moved /\ Exclusive /\ Anchored /\ Fresh /\ Reached
    /\ WatermarkSafe

-----------------------------------------------------------------------------
(* Lemmas on the operators of the model.                                   *)

\* The message in hand is a fetched one: SmallestUid is defined on a set
\* that is not empty.
LEMMA SmallestUidIn ==
    ASSUME NEW S \in SUBSET Uids, S # {}
    PROVE  SmallestUid(S) \in S /\ \A w \in S : SmallestUid(S) <= w
<1>1. \E x \in S : \A y \in S : ~ (<<y, x>> \in OpToRel(<, Nat))
  <2>1. S \subseteq Nat
    BY BoundsAssumption DEF Uids
  <2> QED
    BY <2>1, NatLessThanWellFounded, WFMin
<1>2. \E x \in S : \A y \in S : x <= y
  <2>1. PICK x \in S : \A y \in S : ~ (<<y, x>> \in OpToRel(<, Nat))
    BY <1>1
  <2>0. \A y \in S : y \in Nat
    BY BoundsAssumption DEF Uids
  <2>2. \A y \in S : ~ (y < x)
    BY <2>1, <2>0, Zenon DEF OpToRel
  <2> QED
    BY <2>2, BoundsAssumption DEF Uids
<1> QED
  BY <1>2 DEF SmallestUid

\* fetch_since takes the oldest messages: below a fetched UID it leaves none.
LEMMA OldestHasNoGap ==
    ASSUME NEW S \in SUBSET Uids, NEW n \in Nat,
           NEW u \in Oldest(S, n), NEW w \in S, w < u
    PROVE  w \in Oldest(S, n)
<1> DEFINE Below(x) == {y \in S : y < x}
<1>1. IsFiniteSet(Uids)
  BY FS_Interval, BoundsAssumption DEF Uids
<1>2. IsFiniteSet(Below(u)) /\ IsFiniteSet(Below(w))
  BY <1>1, FS_Subset
<1>0. u \in S
  BY DEF Oldest
<1>3. Below(w) \subseteq Below(u)
  <2>1. \A y \in S : y \in Int
    BY BoundsAssumption DEF Uids
  <2>2. \A y \in S : y < w => y < u
    BY <1>0, <2>1
  <2> QED
    BY <2>2
<1>4. Cardinality(Below(w)) <= Cardinality(Below(u))
  BY <1>2, <1>3, FS_Subset
<1>5. Cardinality(Below(w)) \in Nat /\ Cardinality(Below(u)) \in Nat
  BY <1>2, FS_CardinalityType
<1>6. Cardinality(Below(u)) < n
  BY DEF Oldest
<1> QED
  BY <1>4, <1>5, <1>6 DEF Oldest

\* The message in hand is a message of the batch.
LEMMA CurrentIn ==
    ASSUME TypeOK, BatchInv, NEW s \in Syncers, todo[s] # {}
    PROVE  /\ CurrentUid(s) \in todo[s]
           /\ CurrentUid(s) \in batch[s]
           /\ CurrentUid(s) \in Uids
           /\ Current(s) \in Msgs
<1>1. todo[s] \in SUBSET Uids
  BY DEF TypeOK
<1>2. CurrentUid(s) \in todo[s]
  BY <1>1, SmallestUidIn DEF CurrentUid
<1> QED
  BY <1>1, <1>2 DEF BatchInv, BatchOf, Current

-----------------------------------------------------------------------------
(* The steps that only build up uncommitted rows: the watermark, the batch *)
(* and the recorded messages stay as they are.                             *)

\* A step that changes no batch, watermark or email keeps the invariant.
LEMMA SameBatch ==
    ASSUME IndInv,
           BatchInv',
           UNCHANGED <<mail, created, exists, folder, lastSeen, switched, emails,
                       acct, src, since, seen, batch, todo, newEmails>>,
           \A s \in Syncers : pc[s] = "idle" => pc'[s] = "idle",
           TypeOK'
    PROVE  IndInv'
BY DEF IndInv, NoGap, Done, Moved, Exclusive, Anchored, Fresh, Reached, WatermarkSafe, Present

\* The message in hand depends on the mailbox and the loop only.
LEMMA SameCurrent ==
    ASSUME UNCHANGED <<mail, src, todo>>
    PROVE  \A s \in Syncers : Current(s)' = Current(s)
BY DEF Current, CurrentUid

\* Finding the order of a message.
LEMMA FindOrderKeeps ==
    ASSUME IndInv, NEW s \in Syncers, FindOrder(s)
    PROVE  IndInv'
<1> USE DEF FindOrder, mailVars, accountVars, tableVars, outcomeVars
<1>1. PICK o \in FoundOrders(s, Current(s)) :
        /\ order' = [order EXCEPT ![s] = o.id]
        /\ rows' = [rows EXCEPT ![s].shipped =
              IF Ships(Current(s)) /\ o.status = "CONFIRMED" THEN @ \cup {o.id} ELSE @]
  OBVIOUS
<1>2. o.id \in Msgs
  <2>1. o \in OrderRow
    BY DEF IndInv, TypeOK, FoundOrders, RowsType
  <2> QED
    BY <2>1 DEF OrderRow
<1>3. TypeOK'
  <2>1. rows' \in [Syncers -> RowsType]
    <3>1. rows[s] \in RowsType
      BY DEF IndInv, TypeOK
    <3>2. [rows[s] EXCEPT !.shipped =
             IF Ships(Current(s)) /\ o.status = "CONFIRMED" THEN @ \cup {o.id} ELSE @]
            \in RowsType
      BY <1>2, <3>1 DEF RowsType
    <3> QED
      BY <1>1, <3>2 DEF IndInv, TypeOK
  <2> QED
    BY <1>1, <1>2, <2>1 DEF IndInv, TypeOK, PCs
<1>4. BatchInv'
  BY <1>1, <1>2, SameCurrent DEF IndInv, TypeOK, BatchInv, BatchOf
<1> QED
  BY <1>3, <1>4, SameBatch DEF IndInv, TypeOK

\* Rows added to those a transaction has flushed.
LEMMA RowsGrow ==
    ASSUME NEW q \in RowsType, NEW O \in SUBSET OrderRow, NEW M \in SUBSET Msgs,
           NEW S \in SUBSET ShipmentRow, NEW C \in SUBSET Carriers
    PROVE  /\ [q EXCEPT !.orders = q.orders \cup O, !.shipped = q.shipped \cup M] \in RowsType
           /\ [q EXCEPT !.shipments = q.shipments \cup S] \in RowsType
           /\ [q EXCEPT !.carriers = q.carriers \cup C] \in RowsType
<1>1. /\ q.orders \cup O \in SUBSET OrderRow /\ q.shipped \cup M \in SUBSET Msgs
      /\ q.shipments \cup S \in SUBSET ShipmentRow /\ q.carriers \cup C \in SUBSET Carriers
  BY DEF RowsType
<1> DEFINE o == q.orders \cup O
           m == q.shipped \cup M
           h == q.shipments \cup S
           c == q.carriers \cup C
<1>2. o \in SUBSET OrderRow /\ m \in SUBSET Msgs /\ h \in SUBSET ShipmentRow
      /\ c \in SUBSET Carriers
  BY <1>1
<1> HIDE DEF o, m, h, c
<1>3. /\ [q EXCEPT !.orders = o, !.shipped = m] \in RowsType
      /\ [q EXCEPT !.shipments = h] \in RowsType
      /\ [q EXCEPT !.carriers = c] \in RowsType
  BY <1>2 DEF RowsType
<1> QED
  BY <1>3 DEF o, m, h, c

\* Adding an order.
LEMMA AddOrderKeeps ==
    ASSUME IndInv, NEW s \in Syncers, AddOrder(s)
    PROVE  IndInv'
<1> USE DEF AddOrder, mailVars, accountVars, tableVars, outcomeVars
<1>1. Current(s) \in Msgs
  BY CurrentIn DEF IndInv, BatchInv, BatchOf
<1>2. Content[Current(s)] \in ContentSet
  BY <1>1, ContentAssumption
<1>3. Owner[acct[s]] \in Users
  BY AccountsAssumption DEF IndInv, TypeOK
<1>4. [id |-> Current(s), user |-> Owner[acct[s]], number |-> Content[Current(s)].number,
       status |-> IF Content[Current(s)].kind = "carrier" THEN "SHIPPED" ELSE "CONFIRMED",
       via |-> s] \in OrderRow
  BY <1>1, <1>2, <1>3 DEF OrderRow, ContentSet
<1>5. TypeOK'
  <2>1. rows' \in [Syncers -> RowsType]
    <3> DEFINE new == [id |-> Current(s), user |-> Owner[acct[s]],
                       number |-> Content[Current(s)].number,
                       status |-> IF Content[Current(s)].kind = "carrier"
                                  THEN "SHIPPED" ELSE "CONFIRMED",
                       via |-> s]
               M == IF Ships(Current(s)) THEN {Current(s)} ELSE {}
               row == [rows[s] EXCEPT !.orders = rows[s].orders \cup {new},
                                      !.shipped = rows[s].shipped \cup M]
    <3>a. rows[s] \in RowsType
      BY DEF IndInv, TypeOK
    <3>b. (IF Ships(Current(s)) THEN rows[s].shipped \cup {Current(s)} ELSE rows[s].shipped)
            = rows[s].shipped \cup M
      OBVIOUS
    <3>1. rows' = [rows EXCEPT ![s] = row]
      BY <3>a, <3>b DEF IndInv, TypeOK, RowsType
    <3>2. new \in OrderRow /\ {new} \in SUBSET OrderRow /\ M \in SUBSET Msgs
      BY <1>1, <1>4
    <3> HIDE DEF new, M
    <3>3. row \in RowsType
      BY <3>a, <3>2, RowsGrow
    <3> HIDE DEF row
    <3> QED
      BY <3>1, <3>3 DEF IndInv, TypeOK
  <2> QED
    BY <1>1, <2>1 DEF IndInv, TypeOK, PCs, Notified
<1>6. BatchInv'
  BY <1>1, SameCurrent DEF IndInv, TypeOK, BatchInv, BatchOf
<1> QED
  BY <1>5, <1>6, SameBatch DEF IndInv, TypeOK

\* Adding shipments.
LEMMA AddShipmentsKeeps ==
    ASSUME IndInv, NEW s \in Syncers, AddShipments(s)
    PROVE  IndInv'
<1> USE DEF AddShipments, mailVars, accountVars, tableVars, outcomeVars
<1>1. Current(s) \in Msgs
  BY CurrentIn DEF IndInv, BatchInv, BatchOf
<1>2. Missing(s) \subseteq Trackings
  BY <1>1, ContentAssumption DEF Missing, ContentSet
<1>3. order[s] \in Msgs
  BY DEF IndInv, BatchInv, BatchOf
<1>4. {[order |-> order[s], trk |-> t, by |-> Current(s)] : t \in Missing(s)}
        \subseteq ShipmentRow
  BY <1>1, <1>2, <1>3 DEF ShipmentRow
<1>5. TypeOK'
  <2>1. rows' \in [Syncers -> RowsType]
    <3> DEFINE S == {[order |-> order[s], trk |-> t, by |-> Current(s)] : t \in Missing(s)}
    <3>1. S \in SUBSET ShipmentRow /\ rows \in [Syncers -> RowsType] /\ rows[s] \in RowsType
      BY <1>4 DEF IndInv, TypeOK
    <3>2. rows' = [rows EXCEPT ![s] = [rows[s] EXCEPT !.shipments = rows[s].shipments \cup S]]
      OBVIOUS
    <3> HIDE DEF S
    <3>3. [rows[s] EXCEPT !.shipments = rows[s].shipments \cup S] \in RowsType
      BY <3>1, RowsGrow
    <3> QED
      BY ONLY <3>1, <3>2, <3>3
  <2> QED
    BY <2>1 DEF IndInv, TypeOK, PCs
<1>6. BatchInv'
  BY SameCurrent DEF IndInv, TypeOK, BatchInv, BatchOf
<1> QED
  BY <1>5, <1>6, SameBatch DEF IndInv, TypeOK

\* Not finding the carrier.
LEMMA CarrierAbsentKeeps ==
    ASSUME IndInv, NEW s \in Syncers, CarrierAbsent(s)
    PROVE  IndInv'
<1> USE DEF CarrierAbsent, mailVars, accountVars, tableVars, outcomeVars
<1>1. TypeOK'
  BY DEF IndInv, TypeOK, PCs
<1>2. BatchInv'
  <2>1. Content[Current(s)].trks # {}
    BY DEF Missing
  <2> QED
    BY <2>1, SameCurrent DEF IndInv, TypeOK, BatchInv, BatchOf
<1> QED
  BY <1>1, <1>2, SameBatch DEF IndInv, TypeOK

\* Adding a carrier.
LEMMA AddCarrierKeeps ==
    ASSUME IndInv, NEW s \in Syncers, AddCarrier(s)
    PROVE  IndInv'
<1> USE DEF AddCarrier, mailVars, accountVars, tableVars, outcomeVars
<1>1. Current(s) \in Msgs
  BY CurrentIn DEF IndInv, BatchInv, BatchOf
<1>2. TypeOK'
  <2>1. Content[Current(s)].carrier \in Carriers
    BY <1>1, ContentAssumption DEF IndInv, BatchInv, BatchOf, ContentSet
  <2>2. rows' \in [Syncers -> RowsType]
    <3> DEFINE C == {Content[Current(s)].carrier}
    <3>1. C \in SUBSET Carriers /\ rows \in [Syncers -> RowsType] /\ rows[s] \in RowsType
      BY <2>1 DEF IndInv, TypeOK
    <3>2. rows' = [rows EXCEPT ![s] = [rows[s] EXCEPT !.carriers = rows[s].carriers \cup C]]
      OBVIOUS
    <3> HIDE DEF C
    <3>3. [rows[s] EXCEPT !.carriers = rows[s].carriers \cup C] \in RowsType
      BY <3>1, RowsGrow
    <3> QED
      BY ONLY <3>1, <3>2, <3>3
  <2> QED
    BY <2>2 DEF IndInv, TypeOK, PCs
<1>3. BatchInv'
  BY SameCurrent DEF IndInv, TypeOK, BatchInv, BatchOf
<1> QED
  BY <1>2, <1>3, SameBatch DEF IndInv, TypeOK

-----------------------------------------------------------------------------
(* The end of a sync without a commit.                                     *)

\* What EndSync leaves of the session state, committed rows aside.
LEMMA EndSyncTypes ==
    ASSUME TypeOK, NEW s \in Syncers, EndSync(s)
    PROVE  /\ pc' \in [Syncers -> PCs]
           /\ acct' \in [Syncers -> Accounts \cup {None}]
           /\ src' \in [Syncers -> Folders \cup {None}]
           /\ \A t \in Syncers : pc'[t] # "idle" => acct'[t] \in Accounts /\ src'[t] \in Folders
           /\ since' \in [Syncers -> 0 .. MaxUid]
           /\ seen' \in [Syncers -> 0 .. MaxUid]
           /\ batch' \in [Syncers -> SUBSET Uids]
           /\ todo' \in [Syncers -> SUBSET Uids]
           /\ order' \in [Syncers -> Msgs \cup {None}]
           /\ newEmails' \in [Syncers -> SUBSET Msgs]
           /\ rows' \in [Syncers -> RowsType]
           /\ there' \in [Syncers -> SUBSET Uids]
BY BoundsAssumption DEF TypeOK, EndSync, PCs, RowsType, EmptyRows

\* The batches of the other syncs outlast the end of one.
LEMMA EndSyncBatch ==
    ASSUME IndInv, NEW s \in Syncers, EndSync(s), mail' = mail
    PROVE  BatchInv' /\ NoGap' /\ Moved'
<1>1. \A t \in Syncers \ {s} : Current(t)' = Current(t)
  BY DEF Current, CurrentUid, EndSync, IndInv, TypeOK
<1>2. BatchInv'
  <2> SUFFICES ASSUME NEW t \in Syncers
               PROVE  BatchOf(t)'
    BY DEF BatchInv
  <2>1. CASE t = s
    BY <2>1 DEF IndInv, TypeOK, BatchOf, EndSync
  <2>2. CASE t # s
    BY <1>1, <2>2 DEF IndInv, TypeOK, BatchInv, BatchOf, EndSync
  <2> QED
    BY <2>1, <2>2
<1>3. NoGap'
  BY DEF IndInv, TypeOK, NoGap, EndSync
<1>4. Moved'
  BY DEF IndInv, TypeOK, Moved, EndSync
<1> QED
  BY <1>2, <1>3, <1>4

\* Rolling back a sync, for whatever reason.
LEMMA RollbackKeeps ==
    ASSUME IndInv, NEW s \in Syncers, EndSync(s),
           UNCHANGED <<mailVars, accountVars, tableVars, announced>>,
           failures' \in 0 .. MaxFailures
    PROVE  IndInv'
<1> USE DEF mailVars, accountVars, tableVars
<1>1. TypeOK'
  BY EndSyncTypes DEF IndInv, TypeOK
<1>2. BatchInv' /\ NoGap' /\ Moved'
  BY EndSyncBatch
<1>3. Done' /\ Exclusive'
  BY DEF IndInv, TypeOK, Done, Exclusive, EndSync
<1>4. Anchored' /\ Fresh' /\ Reached'
  BY DEF IndInv, TypeOK, Anchored, Fresh, Reached, EndSync
<1>5. WatermarkSafe'
  BY DEF IndInv, WatermarkSafe, Present
<1> QED
  BY <1>1, <1>2, <1>3, <1>4, <1>5 DEF IndInv

-----------------------------------------------------------------------------
(* The steps of a sync that touch the batch, the watermark or the emails.  *)

\* Loading the account row.
LEMMA BeginKeeps ==
    ASSUME IndInv, NEW s \in Syncers, NEW a \in Accounts, Begin(s, a)
    PROVE  IndInv'
<1> USE DEF Begin, mailVars, accountVars, tableVars, outcomeVars
<1>1. TypeOK'
  BY DEF IndInv, TypeOK, PCs
<1>2. BatchInv'
  <2>1. \A t \in Syncers \ {s} : Current(t)' = Current(t)
    BY DEF Current, CurrentUid, IndInv, TypeOK
  <2> QED
    BY <2>1, SMTT(30) DEF IndInv, TypeOK, BatchInv, BatchOf
<1>3. NoGap' /\ Done'
  BY DEF IndInv, TypeOK, BatchInv, BatchOf, NoGap, Done
<1>4. Moved' /\ Exclusive'
  BY DEF IndInv, TypeOK, Moved, Exclusive
<1>5. Anchored' /\ Fresh' /\ Reached'
  BY DEF IndInv, TypeOK, Anchored, Fresh, Reached
<1>6. WatermarkSafe'
  BY DEF IndInv, WatermarkSafe, Present
<1> QED
  BY <1>1, <1>2, <1>3, <1>4, <1>5, <1>6 DEF IndInv

\* Fetching a batch: no gap above the watermark.
LEMMA FetchKeeps ==
    ASSUME IndInv, NEW s \in Syncers, Fetch(s)
    PROVE  IndInv'
<1> DEFINE fetched == FetchSince(src[s], since[s])
           above == {u \in Present(src[s]) : u > since[s]}
<1> USE DEF Fetch, mailVars, accountVars, tableVars, outcomeVars
<1>1. fetched \subseteq above /\ above \subseteq Present(src[s]) /\ Present(src[s]) \subseteq Uids
  BY DEF FetchSince, Oldest, Present
<1>2. \A w \in fetched : \A u \in above : u < w => u \in fetched
  BY <1>1, OldestHasNoGap, BoundsAssumption DEF FetchSince
<1>3. \A u \in fetched : mail[src[s]][u] \in Msgs
  BY <1>1 DEF Present, IndInv, TypeOK
<1>0. batch' = [batch EXCEPT ![s] = fetched] /\ todo' = [todo EXCEPT ![s] = fetched]
  OBVIOUS
<1> HIDE DEF fetched
<1>4. TypeOK'
  BY <1>0, <1>1 DEF IndInv, TypeOK, PCs
<1>5. BatchInv'
  <2>1. \A t \in Syncers \ {s} : Current(t)' = Current(t)
    BY DEF Current, CurrentUid, IndInv, TypeOK
  <2> SUFFICES ASSUME NEW t \in Syncers
               PROVE  BatchOf(t)'
    BY DEF BatchInv
  <2>2. CASE t = s
    BY <1>0, <1>3, <2>2 DEF IndInv, TypeOK, BatchOf
  <2>3. CASE t # s
    BY <2>1, <2>3 DEF IndInv, TypeOK, BatchInv, BatchOf
  <2> QED
    BY <2>2, <2>3
<1>6. NoGap'
  BY <1>0, <1>2 DEF IndInv, TypeOK, NoGap, Present
<1>7. Done' /\ Exclusive'
  BY <1>0 DEF IndInv, TypeOK, Done, Exclusive
<1>8. Moved'
  <2>1. seen[s] = since[s]
    BY DEF IndInv, Moved, BatchInv, BatchOf
  <2> QED
    BY <1>0, <2>1 DEF IndInv, TypeOK, Moved
<1>9. Anchored' /\ Fresh' /\ Reached' /\ WatermarkSafe'
  BY DEF IndInv, TypeOK, Anchored, Fresh, Reached, WatermarkSafe, Present
<1> QED
  BY <1>4, <1>5, <1>6, <1>7, <1>8, <1>9 DEF IndInv

\* Skipping a message that is known.
LEMMA CheckKeeps ==
    ASSUME IndInv, NEW s \in Syncers, Check(s)
    PROVE  IndInv'
<1> DEFINE u == CurrentUid(s)
           known == Current(s) \in emails \cup newEmails[s]
<1> USE DEF Check, mailVars, accountVars, tableVars, outcomeVars
<1>1. /\ u \in todo[s] /\ u \in batch[s] /\ u \in Uids
      /\ Current(s) = mail[src[s]][u]
  BY CurrentIn DEF IndInv, Current
<1>2. /\ todo' = [todo EXCEPT ![s] = IF known THEN @ \ {u} ELSE @]
      /\ pc'[s] \in {"check", "email", "order"}
      /\ pc'[s] = "check" \/ ~known
      /\ pc' = [pc EXCEPT ![s] = pc'[s]]
  BY DEF IndInv, TypeOK
<1>3. \A t \in Syncers \ {s} : Current(t)' = Current(t)
  BY DEF Current, CurrentUid, IndInv, TypeOK
<1> HIDE DEF u
<1>4. TypeOK'
  BY <1>2 DEF IndInv, TypeOK, PCs
<1>5. BatchInv'
  <2>1. ASSUME NEW t \in Syncers \ {s} PROVE BatchOf(t)'
    BY <1>2, <1>3, <2>1 DEF IndInv, TypeOK, BatchInv, BatchOf
  <2>2. BatchOf(s)'
    BY <1>2 DEF IndInv, TypeOK, BatchInv, BatchOf
  <2> QED
    BY <2>1, <2>2 DEF BatchInv
<1>6. NoGap' /\ Exclusive' /\ Fresh' /\ Reached' /\ WatermarkSafe'
  BY SMTT(30) DEF IndInv, TypeOK, NoGap, Exclusive, Fresh, Reached, WatermarkSafe, Present
<1>7. Done'
  BY <1>1, <1>2 DEF IndInv, TypeOK, Done
<1>8. Moved'
  BY <1>2 DEF IndInv, TypeOK, Moved
<1>9. Anchored'
  BY <1>2 DEF IndInv, TypeOK, Anchored
<1> QED
  BY <1>4, <1>5, <1>6, <1>7, <1>8, <1>9 DEF IndInv

\* Recording a message and moving the in-memory watermark.
LEMMA AddEmailKeeps ==
    ASSUME IndInv, NEW s \in Syncers, AddEmail(s)
    PROVE  IndInv'
<1> DEFINE u == CurrentUid(s)
           m == Current(s)
<1> USE DEF AddEmail, mailVars, accountVars, tableVars, outcomeVars
<1>1. /\ u \in todo[s] /\ u \in batch[s] /\ u \in Uids
      /\ m \in Msgs /\ m = mail[src[s]][u]
  BY CurrentIn DEF IndInv, BatchInv, BatchOf, Current
<1>2. /\ newEmails' = [newEmails EXCEPT ![s] = @ \cup {m}]
      /\ seen' = [seen EXCEPT ![s] = Advance(@, u)]
      /\ todo' = [todo EXCEPT ![s] = @ \ {u}]
      /\ m \notin emails
      /\ \A t \in Syncers \ {s} : m \notin newEmails[t]
  OBVIOUS
<1>3. \A t \in Syncers \ {s} : Current(t)' = Current(t)
  BY DEF Current, CurrentUid, IndInv, TypeOK
<1> HIDE DEF u, m
<1>4. TypeOK'
  BY <1>1, <1>2, BoundsAssumption, SMTT(30) DEF IndInv, TypeOK, PCs, Advance, Uids
<1>5. BatchInv'
  <2>1. ASSUME NEW t \in Syncers \ {s} PROVE BatchOf(t)'
    <3>1. /\ todo'[t] = todo[t] /\ pc'[t] = pc[t] /\ Current(t)' = Current(t)
          /\ UNCHANGED <<batch, mail, src, order>>
      BY <1>2, <1>3 DEF IndInv, TypeOK
    <3>2. BatchOf(t)
      BY DEF IndInv, BatchInv
    <3> QED
      BY ONLY <3>1, <3>2 DEF BatchOf
  <2>2. BatchOf(s)'
    BY <1>2 DEF IndInv, TypeOK, BatchInv, BatchOf
  <2> QED
    BY <2>1, <2>2 DEF BatchInv
<1>6. NoGap' /\ Fresh' /\ Reached' /\ WatermarkSafe'
  BY DEF IndInv, TypeOK, NoGap, Fresh, Reached, WatermarkSafe, Present
<1>7. Done'
  BY <1>1, <1>2 DEF IndInv, TypeOK, Done
<1>8. Moved'
  BY <1>1, <1>2, BoundsAssumption DEF IndInv, TypeOK, Moved, Advance, Uids
<1>9. Anchored' /\ Exclusive'
  BY <1>2 DEF IndInv, TypeOK, Anchored, Exclusive
<1> QED
  BY <1>4, <1>5, <1>6, <1>7, <1>8, <1>9 DEF IndInv

\* A commit stores a watermark that is not below the committed one: the sync
\* would have inserted a message that is recorded already.
LEMMA CommitAdvances ==
    ASSUME IndInv, NEW s \in Syncers, Commit(s)
    PROVE  /\ StoredUid(s) \in 0 .. MaxUid
           /\ acct[s] \in Accounts
           /\ ~switched[acct[s]] => StoredUid(s) >= lastSeen[acct[s]]
<1> DEFINE a == acct[s]
<1>1. a \in exists /\ a \in Accounts /\ pc[s] # "idle"
  BY DEF Commit, IndInv, TypeOK
<1>2. lastSeen[a] \in 0 .. MaxUid /\ seen[s] \in 0 .. MaxUid
  BY <1>1 DEF IndInv, TypeOK
<1>3. ASSUME ~switched[a], seen[s] # since[s]
      PROVE  seen[s] >= lastSeen[a]
  <2>1. /\ seen[s] \in batch[s] \ todo[s]
        /\ mail[src[s]][seen[s]] \in newEmails[s]
    BY <1>3 DEF IndInv, Moved
  <2>2. src[s] = folder[a]
    BY <1>1, <1>3 DEF IndInv, Anchored
  <2>3. seen[s] \in Present(folder[a])
    BY <2>1, <2>2, NoneAssumption DEF IndInv, TypeOK, BatchInv, BatchOf, Present
  <2>4. mail[folder[a]][seen[s]] \notin emails
    BY <2>1, <2>2 DEF IndInv, Exclusive
  <2>5. ~ (seen[s] <= lastSeen[a])
    BY <1>1, <1>3, <2>3, <2>4 DEF IndInv, WatermarkSafe
  <2> QED
    BY <1>2, <2>5, BoundsAssumption
<1> QED
  BY <1>1, <1>2, <1>3, BoundsAssumption DEF StoredUid

\* The commit: the watermark that was computed from an old row is safe.
LEMMA CommitKeeps ==
    ASSUME IndInv, NEW s \in Syncers, Commit(s)
    PROVE  IndInv'
<1> DEFINE a == acct[s]
<1> USE DEF mailVars, outcomeVars
<1>1. /\ a \in Accounts /\ a \in exists /\ pc[s] # "idle" /\ todo[s] = {}
      /\ StoredUid(s) \in 0 .. MaxUid
      /\ ~switched[a] => StoredUid(s) >= lastSeen[a]
  BY CommitAdvances DEF Commit
<1>2. /\ lastSeen' = [lastSeen EXCEPT ![a] = StoredUid(s)]
      /\ emails' = emails \cup newEmails[s]
      /\ EndSync(s)
      /\ UNCHANGED <<mail, created, exists, folder, switched, announced, failures>>
  BY DEF Commit
<1>3. TypeOK'
  <2>1. orders' \subseteq OrderRow
    <3>1. \A o \in orders \cup rows[s].orders : o \in OrderRow
      BY DEF IndInv, TypeOK, RowsType
    <3>2. \A o \in OrderRow :
            [o EXCEPT !.status = IF o.id \in rows[s].shipped THEN "SHIPPED" ELSE @] \in OrderRow
      BY DEF OrderRow
    <3> QED
      BY <3>1, <3>2 DEF Commit
  <2>2. shipments' \subseteq ShipmentRow /\ carriers' \subseteq Carriers
    BY DEF Commit, IndInv, TypeOK, RowsType
  <2>3. emails' \subseteq Msgs /\ lastSeen' \in [Accounts -> 0 .. MaxUid]
    BY <1>1, <1>2 DEF IndInv, TypeOK
  <2> QED
    BY <1>2, <2>1, <2>2, <2>3, EndSyncTypes DEF IndInv, TypeOK
<1>4. BatchInv' /\ NoGap' /\ Moved'
  BY <1>2, EndSyncBatch
<1>5. Done' /\ Exclusive'
  BY <1>2 DEF IndInv, TypeOK, Done, Exclusive, EndSync
<1>6. Anchored'
  <2> SUFFICES ASSUME NEW t \in Syncers, pc'[t] # "idle",
                      acct'[t] \in exists', ~switched'[acct'[t]]
               PROVE  src'[t] = folder'[acct'[t]] /\ since'[t] <= lastSeen'[acct'[t]]
    BY <1>2 DEF Anchored, IndInv, TypeOK, EndSync
  <2>1. t # s /\ pc[t] # "idle" /\ acct'[t] = acct[t] /\ src'[t] = src[t] /\ since'[t] = since[t]
    BY <1>2 DEF EndSync, IndInv, TypeOK
  <2>2. src[t] = folder[acct[t]] /\ since[t] <= lastSeen[acct[t]]
    BY <1>2, <2>1 DEF IndInv, Anchored
  <2>3. lastSeen[acct[t]] <= lastSeen'[acct[t]]
    BY <1>1, <1>2, <2>1, BoundsAssumption DEF IndInv, TypeOK
  <2>4. since[t] \in Int /\ lastSeen[acct[t]] \in Int /\ lastSeen'[acct[t]] \in Int
    BY <1>1, <1>2, <2>1, BoundsAssumption DEF IndInv, TypeOK
  <2> QED
    BY <1>2, <2>1, <2>2, <2>3, <2>4
<1>7. Fresh'
  BY <1>1, <1>2 DEF IndInv, TypeOK, Fresh
<1>8. Reached'
  <2> SUFFICES ASSUME NEW b \in exists, ~switched[b], lastSeen'[b] # 0
               PROVE  mail[folder[b]][lastSeen'[b]] # None
    BY <1>2 DEF Reached
  <2>1. CASE b = a /\ seen[s] # since[s]
    <3>1. seen[s] \in batch[s] /\ src[s] = folder[a]
      BY <1>1, <2>1 DEF IndInv, Moved, Anchored
    <3> QED
      BY <1>1, <1>2, <2>1, <3>1, NoneAssumption
      DEF StoredUid, IndInv, TypeOK, BatchInv, BatchOf
  <2>2. CASE ~ (b = a /\ seen[s] # since[s])
    <3>1. lastSeen'[b] = lastSeen[b]
      BY <1>1, <1>2, <2>2 DEF StoredUid, IndInv, TypeOK
    <3> QED
      BY <3>1 DEF IndInv, Reached
  <2> QED
    BY <2>1, <2>2
<1>9. WatermarkSafe'
  <2> SUFFICES ASSUME NEW b \in exists, ~switched[b],
                      NEW u \in Present(folder[b]), u <= lastSeen'[b]
               PROVE  mail[folder[b]][u] \in emails \cup newEmails[s]
    BY <1>2 DEF WatermarkSafe, Present
  <2>0. u \in Uids /\ mail[folder[b]][u] # None
    BY DEF Present
  <2>1. CASE u <= lastSeen[b]
    BY <2>1 DEF IndInv, WatermarkSafe
  <2>2. CASE ~ (u <= lastSeen[b])
    <3>1. b = a /\ seen[s] # since[s] /\ lastSeen'[b] = seen[s]
      BY <1>1, <1>2, <2>2 DEF StoredUid, IndInv, TypeOK
    <3>2. seen[s] \in batch[s] /\ src[s] = folder[a] /\ since[s] <= lastSeen[a]
      BY <1>1, <3>1 DEF IndInv, Moved, Anchored
    <3>3. since[s] < u
      BY <2>0, <2>2, <3>1, <3>2, BoundsAssumption DEF IndInv, TypeOK, Uids
    <3>4. u \in batch[s]
      <4>1. u = seen[s] \/ u < seen[s]
        BY <2>0, <3>1, BoundsAssumption DEF IndInv, TypeOK, Uids
      <4> QED
        BY <2>0, <3>1, <3>2, <3>3, <4>1 DEF IndInv, NoGap
    <3> QED
      BY <1>1, <3>1, <3>2, <3>4 DEF IndInv, Done
  <2> QED
    BY <2>1, <2>2
<1> QED
  BY <1>3, <1>4, <1>5, <1>6, <1>7, <1>8, <1>9 DEF IndInv

-----------------------------------------------------------------------------
(* The mailboxes and the account endpoints.                                *)

\* A mail that arrives does not change the one that a sync has in hand.
LEMMA ArriveCurrent ==
    ASSUME IndInv, NEW f \in Folders, NEW m \in Msgs, NEW u \in Uids, Arrive(f, m, u),
           NEW s \in Syncers, todo[s] # {}
    PROVE  Current(s)' = Current(s)
<1>1. /\ CurrentUid(s) \in batch[s] /\ CurrentUid(s) \in Uids
      /\ CurrentUid(s)' = CurrentUid(s) /\ src'[s] = src[s]
  BY CurrentIn DEF IndInv, CurrentUid, Arrive, sessionVars
<1>2. src[s] \in Folders /\ mail[src[s]][CurrentUid(s)] # None
  BY <1>1, NoneAssumption DEF IndInv, TypeOK, BatchInv, BatchOf
<1>3. mail[f][u] = None /\ mail' = [mail EXCEPT ![f][u] = m]
  BY BoundsAssumption DEF Arrive, Present, Uids
<1>4. mail'[src[s]][CurrentUid(s)] = mail[src[s]][CurrentUid(s)]
  BY <1>1, <1>2, <1>3 DEF IndInv, TypeOK
<1> QED
  BY <1>1, <1>4 DEF Current

\* A message arrives above all others of its folder.
LEMMA ArriveKeeps ==
    ASSUME IndInv, NEW f \in Folders, NEW m \in Msgs, NEW u \in Uids, Arrive(f, m, u)
    PROVE  IndInv'
<1> USE DEF Arrive, accountVars, tableVars, sessionVars, outcomeVars
<1>1. mail[f][u] = None /\ mail' = [mail EXCEPT ![f][u] = m]
  BY BoundsAssumption DEF Present, Uids
<1>2. \A g \in Folders : \A w \in Uids : mail[g][w] # None => mail'[g][w] = mail[g][w]
  BY <1>1 DEF IndInv, TypeOK
<1>3. \A g \in Folders : \A w \in Uids :
        mail'[g][w] # None => mail[g][w] # None \/ (g = f /\ w = u)
  BY <1>1 DEF IndInv, TypeOK
<1>4. \A w \in Uids : mail[f][w] # None => w < u
  BY DEF Present
<1>5. \A s \in Syncers : \A w \in batch[s] :
        /\ src[s] \in Folders /\ w \in Uids
        /\ mail[src[s]][w] # None /\ mail'[src[s]][w] = mail[src[s]][w]
  BY <1>2, NoneAssumption DEF IndInv, TypeOK, BatchInv, BatchOf
<1>6. TypeOK'
  BY <1>1 DEF IndInv, TypeOK
<1>7. BatchInv'
  <2>1. \A s \in Syncers : todo[s] # {} => Current(s)' = Current(s)
    BY ArriveCurrent
  <2> QED
    BY <1>5, <2>1 DEF IndInv, BatchInv, BatchOf
<1>8. NoGap'
  <2> SUFFICES ASSUME NEW s \in Syncers, NEW w \in batch[s], NEW v \in Uids,
                      mail'[src[s]][v] # None, since[s] < v, v < w
               PROVE  v \in batch[s]
    BY DEF NoGap
  <2>1. mail[src[s]][v] # None
    BY <1>3, <1>4, <1>5, BoundsAssumption DEF Uids
  <2> QED
    BY <2>1 DEF IndInv, NoGap
<1>9. Done' /\ Moved'
  BY <1>5 DEF IndInv, Done, Moved
<1>10. Exclusive' /\ Anchored' /\ Fresh'
  BY DEF IndInv, Exclusive, Anchored, Fresh
<1>11. Reached'
  <2> SUFFICES ASSUME NEW a \in exists, ~switched[a], lastSeen[a] # 0
               PROVE  mail'[folder[a]][lastSeen[a]] # None
    BY DEF Reached
  <2>1. folder[a] \in Folders /\ lastSeen[a] \in Uids
    BY BoundsAssumption DEF IndInv, TypeOK, Uids
  <2> QED
    BY <1>2, <2>1 DEF IndInv, Reached
<1>12. WatermarkSafe'
  <2> SUFFICES ASSUME NEW a \in exists, ~switched[a], NEW w \in Uids,
                      mail'[folder[a]][w] # None, w <= lastSeen[a]
               PROVE  mail'[folder[a]][w] \in emails
    BY DEF WatermarkSafe, Present
  <2>1. folder[a] \in Folders /\ lastSeen[a] \in Uids
    BY BoundsAssumption DEF IndInv, TypeOK, Uids
  <2>2. mail[folder[a]][lastSeen[a]] # None
    BY <2>1, BoundsAssumption DEF IndInv, Reached, Uids
  <2>3. mail[folder[a]][w] # None
    BY <1>3, <1>4, <2>1, <2>2, BoundsAssumption DEF Uids
  <2> QED
    BY <1>2, <2>1, <2>3 DEF IndInv, WatermarkSafe, Present
<1> QED
  BY <1>6, <1>7, <1>8, <1>9, <1>10, <1>11, <1>12 DEF IndInv

\* The account endpoints leave the batches and the recorded messages alone.
LEMMA SameSessions ==
    ASSUME IndInv, UNCHANGED <<mail, tableVars, sessionVars>>
    PROVE  BatchInv' /\ NoGap' /\ Done' /\ Moved' /\ Exclusive'
<1> USE DEF tableVars, sessionVars
<1>1. BatchInv'
  BY SameCurrent DEF IndInv, BatchInv, BatchOf
<1> QED
  BY <1>1 DEF IndInv, NoGap, Done, Moved, Exclusive

\* A new account starts at watermark 0.
LEMMA CreateAccountKeeps ==
    ASSUME IndInv, NEW a \in Accounts, NEW f \in Folders, CreateAccount(a, f)
    PROVE  IndInv'
<1> USE DEF CreateAccount, mailVars, outcomeVars
<1>1. TypeOK'
  BY DEF IndInv, TypeOK, tableVars, sessionVars
<1>2. BatchInv' /\ NoGap' /\ Done' /\ Moved' /\ Exclusive'
  BY SameSessions
<1>3. a \notin exists /\ lastSeen[a] = 0
  BY DEF IndInv, TypeOK, Fresh
<1>4. Anchored'
  BY <1>3 DEF IndInv, TypeOK, Anchored, sessionVars
<1>5. Fresh' /\ Reached'
  BY <1>3 DEF IndInv, TypeOK, Fresh, Reached
<1>6. WatermarkSafe'
  BY <1>3, BoundsAssumption DEF IndInv, TypeOK, WatermarkSafe, Present, Uids, tableVars
<1> QED
  BY <1>1, <1>2, <1>4, <1>5, <1>6 DEF IndInv

\* A change of folder.
LEMMA UpdateAccountKeeps ==
    ASSUME IndInv, NEW a \in Accounts, NEW f \in Folders, UpdateAccount(a, f)
    PROVE  IndInv'
<1> USE DEF UpdateAccount, mailVars, outcomeVars
<1>1. TypeOK'
  BY DEF IndInv, TypeOK, tableVars, sessionVars
<1>2. BatchInv' /\ NoGap' /\ Done' /\ Moved' /\ Exclusive'
  BY SameSessions
<1>3. Anchored'
  BY DEF IndInv, TypeOK, Anchored, sessionVars
<1>4. Fresh' /\ Reached' /\ WatermarkSafe'
  BY DEF IndInv, TypeOK, Fresh, Reached, WatermarkSafe, Present, tableVars
<1> QED
  BY <1>1, <1>2, <1>3, <1>4 DEF IndInv

\* An account is deleted under running syncs.
LEMMA DeleteAccountKeeps ==
    ASSUME IndInv, NEW a \in Accounts, DeleteAccount(a)
    PROVE  IndInv'
<1> USE DEF DeleteAccount, mailVars, outcomeVars
<1>1. TypeOK'
  BY BoundsAssumption DEF IndInv, TypeOK, tableVars, sessionVars
<1>2. BatchInv' /\ NoGap' /\ Done' /\ Moved' /\ Exclusive'
  BY SameSessions
<1>3. Anchored'
  BY DEF IndInv, TypeOK, Anchored, sessionVars
<1>4. Fresh' /\ Reached' /\ WatermarkSafe'
  BY DEF IndInv, TypeOK, Fresh, Reached, WatermarkSafe, Present, tableVars
<1> QED
  BY <1>1, <1>2, <1>3, <1>4 DEF IndInv

-----------------------------------------------------------------------------
(* The invariant and what it gives.                                        *)

\* The invariant holds initially.
LEMMA InitInvariant == Init => IndInv
<1> SUFFICES ASSUME Init PROVE IndInv
  OBVIOUS
<1> USE DEF Init
<1>1. TypeOK
  BY BoundsAssumption DEF TypeOK, PCs, RowsType, EmptyRows
<1>2. BatchInv /\ NoGap /\ Done /\ Moved /\ Exclusive
  BY DEF BatchInv, BatchOf, NoGap, Done, Moved, Exclusive
<1>3. Anchored /\ Fresh /\ Reached /\ WatermarkSafe
  BY DEF Anchored, Fresh, Reached, WatermarkSafe
<1> QED
  BY <1>1, <1>2, <1>3 DEF IndInv

\* Every step keeps the invariant.
LEMMA NextInvariant == IndInv /\ [Next]_vars => IndInv'
<1> SUFFICES ASSUME IndInv, [Next]_vars PROVE IndInv'
  OBVIOUS
<1>1. CASE UNCHANGED vars
  <2>1. TypeOK'
    BY <1>1 DEF IndInv, TypeOK, vars, mailVars, accountVars, tableVars, sessionVars, outcomeVars
  <2>2. BatchInv' /\ NoGap' /\ Done' /\ Moved' /\ Exclusive'
    BY <1>1, SameSessions DEF vars, mailVars
  <2>3. Anchored' /\ Fresh' /\ Reached' /\ WatermarkSafe'
    BY <1>1 DEF IndInv, Anchored, Fresh, Reached, WatermarkSafe, Present,
                vars, mailVars, accountVars, tableVars, sessionVars
  <2> QED
    BY <2>1, <2>2, <2>3 DEF IndInv
<1>2. ASSUME NEW f \in Folders, NEW m \in Msgs, NEW u \in Uids, Arrive(f, m, u)
      PROVE  IndInv'
  BY <1>2, ArriveKeeps
<1>3. ASSUME NEW a \in Accounts, NEW f \in Folders, CreateAccount(a, f)
      PROVE  IndInv'
  BY <1>3, CreateAccountKeeps
<1>4. ASSUME NEW a \in Accounts, NEW f \in Folders, UpdateAccount(a, f)
      PROVE  IndInv'
  BY <1>4, UpdateAccountKeeps
<1>5. ASSUME NEW a \in Accounts, DeleteAccount(a)
      PROVE  IndInv'
  BY <1>5, DeleteAccountKeeps
<1>6. ASSUME NEW s \in Syncers, NEW a \in Accounts, Begin(s, a)
      PROVE  IndInv'
  BY <1>6, BeginKeeps
<1>7. ASSUME NEW s \in Syncers, Step(s)
      PROVE  IndInv'
  <2>1. CASE Rollback(s)
    BY <2>1, RollbackKeeps DEF Rollback, outcomeVars, IndInv, TypeOK
  <2>2. \/ Fetch(s) \/ Check(s) \/ FindOrder(s) \/ AddOrder(s) \/ AddShipments(s)
        \/ CarrierAbsent(s) \/ AddCarrier(s) \/ AddEmail(s) \/ Commit(s) \/ Rollback(s)
    BY <1>7 DEF Step, FetchRaises, CarrierConflict, EmailConflict, CommitStale, DeadlockVictim
  <2> QED
    BY <2>1, <2>2, FetchKeeps, CheckKeeps, FindOrderKeeps, AddOrderKeeps, AddShipmentsKeeps,
       CarrierAbsentKeeps, AddCarrierKeeps, AddEmailKeeps, CommitKeeps
<1>8. ASSUME NEW s \in Syncers, Fail(s)
      PROVE  IndInv'
  <2>1. failures' \in 0 .. MaxFailures
    BY <1>8, BoundsAssumption DEF Fail, IndInv, TypeOK
  <2> QED
    BY <1>8, <2>1, RollbackKeeps DEF Fail
<1> QED
  BY <1>1, <1>2, <1>3, <1>4, <1>5, <1>6, <1>7, <1>8 DEF Next

\* The invariant holds always.
LEMMA Invariant == Spec => []IndInv
BY InitInvariant, NextInvariant, PTL DEF Spec

\* Every variable of the mail import keeps its type, in every behaviour of
\* concurrent, failing and rolled back syncs.
THEOREM TypeCorrect == Spec => []TypeOK
<1>1. IndInv => TypeOK
  BY DEF IndInv
<1> QED
  BY <1>1, Invariant, PTL

\* No mail is skipped: what lies at or below last_seen_uid, and so will never
\* be fetched again, is in the emails table.
THEOREM WatermarkCorrect == Spec => []WatermarkSafe
<1>1. IndInv => WatermarkSafe
  BY DEF IndInv
<1> QED
  BY <1>1, Invariant, PTL

\* last_seen_uid never goes back, although the syncs that write it read the
\* row long before and take no lock.
THEOREM WatermarkNeverGoesBack == Spec => WatermarkMonotone
<1> DEFINE Kept == \A a \in exists \cap exists' : ~switched[a] => lastSeen'[a] >= lastSeen[a]
<1>1. IndInv /\ [Next]_vars => [Kept]_vars
  <2> SUFFICES ASSUME IndInv, Next PROVE Kept
    OBVIOUS
  <2> SUFFICES ASSUME NEW a \in exists \cap exists', ~switched[a]
               PROVE  lastSeen'[a] >= lastSeen[a]
    OBVIOUS
  <2>1. a \in Accounts /\ lastSeen[a] \in Int
    BY BoundsAssumption DEF IndInv, TypeOK
  <2>2. ASSUME NEW s \in Syncers, Commit(s)
        PROVE  lastSeen'[a] >= lastSeen[a]
    <3>1. lastSeen' = [lastSeen EXCEPT ![acct[s]] = StoredUid(s)]
      BY <2>2 DEF Commit
    <3>2. a = acct[s] => StoredUid(s) >= lastSeen[a]
      BY <2>2, CommitAdvances
    <3> QED
      BY <2>1, <3>1, <3>2 DEF IndInv, TypeOK
  <2>3. ASSUME NEW b \in Accounts, DeleteAccount(b)
        PROVE  lastSeen'[a] >= lastSeen[a]
    BY <2>1, <2>3 DEF DeleteAccount, IndInv, TypeOK
  <2>4. CASE lastSeen' = lastSeen
    BY <2>1, <2>4
  <2>5. \/ lastSeen' = lastSeen
        \/ \E s \in Syncers : Commit(s)
        \/ \E b \in Accounts : DeleteAccount(b)
    BY DEF Next, Step, Arrive, CreateAccount, UpdateAccount, Begin, Fetch, FetchRaises, Check,
           FindOrder, AddOrder, AddShipments, CarrierAbsent, AddCarrier, CarrierConflict,
           AddEmail, EmailConflict, CommitStale, DeadlockVictim, Rollback, Fail, accountVars
  <2> QED
    BY <2>2, <2>3, <2>4, <2>5
<1> QED
  BY <1>1, Invariant, PTL DEF Spec, WatermarkMonotone

-----------------------------------------------------------------------------
(* A result that is not truncated.                                         *)

\* A set of UIDs that is not empty has a largest one.
LEMMA LargestUid ==
    ASSUME NEW S \in SUBSET Uids, S # {}
    PROVE  \E u \in S : \A w \in S : w <= u
<1> DEFINE T == {MaxUid + 1 - u : u \in S}
<1>1. T \in SUBSET Uids /\ T # {}
  <2>1. \A u \in S : MaxUid + 1 - u \in Uids
    BY BoundsAssumption DEF Uids
  <2> QED
    BY <2>1
<1>2. SmallestUid(T) \in T /\ \A w \in T : SmallestUid(T) <= w
  BY <1>1, SmallestUidIn
<1>3. PICK u \in S : SmallestUid(T) = MaxUid + 1 - u
  BY <1>2
<1>4. \A w \in S : MaxUid + 1 - u <= MaxUid + 1 - w
  BY <1>2, <1>3
<1>5. \A w \in S : w \in Int
  BY BoundsAssumption DEF Uids
<1> QED
  BY <1>4, <1>5, BoundsAssumption

\* sorted(uids)[:limit] has fewer than limit elements, or more, only if nothing
\* was cut off.
LEMMA OldestCut ==
    ASSUME NEW S \in SUBSET Uids, NEW n \in Nat \ {0}, Cardinality(Oldest(S, n)) # n
    PROVE  Oldest(S, n) = S
<1> DEFINE Below(x) == {y \in S : y < x}
           Taken == Oldest(S, n)
           Cut == S \ Taken
<1> SUFFICES ASSUME Cut # {} PROVE FALSE
  BY DEF Oldest
<1>0. Taken \subseteq S /\ \A y \in S : y \in Int
  BY BoundsAssumption DEF Oldest, Uids
<1>1. IsFiniteSet(S)
  <2>1. IsFiniteSet(Uids)
    BY FS_Interval, BoundsAssumption DEF Uids
  <2> QED
    BY <2>1, FS_Subset
<1>2. IsFiniteSet(Taken) /\ \A x \in S : IsFiniteSet(Below(x))
  BY <1>0, <1>1, FS_Subset
<1>3. Cardinality(Taken) \in Nat /\ \A x \in S : Cardinality(Below(x)) \in Nat
  BY <1>2, FS_CardinalityType
<1>4. Cardinality(Taken) >= n
  <2> DEFINE w == SmallestUid(Cut)
  <2>1. w \in Cut /\ \A y \in Cut : w <= y
    BY SmallestUidIn
  <2>2. Below(w) \subseteq Taken
    BY <1>0, <2>1
  <2>3. Cardinality(Below(w)) <= Cardinality(Taken)
    BY <1>2, <2>2, FS_Subset
  <2>4. ~(Cardinality(Below(w)) < n)
    BY <2>1 DEF Oldest
  <2> QED
    BY <1>3, <2>1, <2>3, <2>4
<1>5. Taken # {}
  BY <1>4, FS_EmptySet
<1>6. Cardinality(Taken) <= n
  <2>1. PICK u \in Taken : \A w \in Taken : w <= u
    BY <1>0, <1>5, LargestUid
  <2>2. Taken \ {u} \subseteq Below(u)
    BY <1>0, <2>1
  <2>3. Cardinality(Taken \ {u}) = Cardinality(Taken) - 1
    BY <1>2, FS_RemoveElement
  <2>4. Cardinality(Taken \ {u}) <= Cardinality(Below(u))
    BY <1>0, <1>2, <2>2, FS_Subset
  <2>5. Cardinality(Below(u)) < n
    BY DEF Oldest
  <2> QED
    BY <1>0, <1>3, <2>3, <2>4, <2>5
<1> QED
  BY <1>3, <1>4, <1>6

\* The batch is what fetch_since returned: the oldest of what was there.
Fetched ==
    \A s \in Syncers : pc[s] \notin {"idle", "fetch"} =>
        /\ batch[s] = Oldest({u \in there[s] : u > since[s]}, Limit)
        /\ \A u \in there[s] : mail[src[s]][u] # None

\* Every step keeps it: mails arrive, but none disappears.
LEMMA FetchedKept == IndInv /\ Fetched /\ [Next]_vars => Fetched'
<1> SUFFICES ASSUME IndInv, Fetched, [Next]_vars PROVE Fetched'
  OBVIOUS
<1>1. ASSUME mail' = mail,
             \A s \in Syncers : \/ pc'[s] \in {"idle", "fetch"}
                                 \/ /\ pc[s] \notin {"idle", "fetch"}
                                    /\ batch'[s] = batch[s] /\ there'[s] = there[s]
                                    /\ since'[s] = since[s] /\ src'[s] = src[s]
      PROVE  Fetched'
  BY <1>1 DEF Fetched
<1>2. CASE UNCHANGED vars
  BY <1>1, <1>2 DEF vars, mailVars, sessionVars
<1>3. ASSUME NEW f \in Folders, NEW m \in Msgs, NEW u \in Uids, Arrive(f, m, u)
      PROVE  Fetched'
  <2>1. \A g \in Folders : \A w \in Uids : mail[g][w] # None => mail'[g][w] # None
    BY <1>3, NoneAssumption DEF Arrive, IndInv, TypeOK
  <2>2. \A s \in Syncers : pc[s] # "idle" => src[s] \in Folders /\ there[s] \subseteq Uids
    BY DEF IndInv, TypeOK
  <2> QED
    BY <1>3, <2>1, <2>2 DEF Arrive, Fetched, sessionVars
<1>4. ASSUME NEW s \in Syncers, NEW a \in Accounts, Begin(s, a)
      PROVE  Fetched'
  BY <1>1, <1>4 DEF Begin, mailVars, IndInv, TypeOK
<1>5. ASSUME NEW s \in Syncers, Fetch(s)
      PROVE  Fetched'
  <2>1. {u \in Present(src[s]) : u > since[s]} = {u \in there'[s] : u > since'[s]}
    BY <1>5 DEF Fetch, IndInv, TypeOK
  <2>2. batch'[s] = Oldest({u \in there'[s] : u > since'[s]}, Limit)
    BY <1>5, <2>1 DEF Fetch, FetchSince, IndInv, TypeOK
  <2>3. \A u \in there'[s] : mail'[src'[s]][u] # None
    BY <1>5 DEF Fetch, Present, mailVars, IndInv, TypeOK
  <2>4. \A t \in Syncers \ {s} : /\ pc'[t] = pc[t] /\ batch'[t] = batch[t]
                                 /\ there'[t] = there[t] /\ since'[t] = since[t]
                                 /\ src'[t] = src[t]
    BY <1>5 DEF Fetch, IndInv, TypeOK
  <2>5. mail' = mail
    BY <1>5 DEF Fetch, mailVars
  <2> SUFFICES ASSUME NEW t \in Syncers, pc'[t] \notin {"idle", "fetch"}
               PROVE  /\ batch'[t] = Oldest({u \in there'[t] : u > since'[t]}, Limit)
                      /\ \A u \in there'[t] : mail'[src'[t]][u] # None
    BY DEF Fetched
  <2>6. CASE t = s
    BY <2>2, <2>3, <2>6
  <2>7. CASE t # s
    <3>1. {u \in there'[t] : u > since'[t]} = {u \in there[t] : u > since[t]}
      BY <2>4, <2>7
    <3> QED
      BY <2>4, <2>5, <2>7, <3>1 DEF Fetched
  <2> QED
    BY <2>6, <2>7
<1>6. ASSUME NEW s \in Syncers, EndSync(s), mail' = mail
      PROVE  Fetched'
  BY <1>1, <1>6 DEF EndSync, IndInv, TypeOK
<1>7. ASSUME NEW s \in Syncers, Step(s) \/ Fail(s)
      PROVE  Fetched'
  <2>1. \/ Fetch(s) \/ (EndSync(s) /\ mail' = mail)
        \/ Check(s) \/ FindOrder(s) \/ AddOrder(s) \/ AddShipments(s)
        \/ CarrierAbsent(s) \/ AddCarrier(s) \/ AddEmail(s)
    BY <1>7 DEF Step, FetchRaises, CarrierConflict, EmailConflict, Commit, CommitStale,
                DeadlockVictim, Rollback, Fail, mailVars
  <2>2. CASE Check(s) \/ FindOrder(s) \/ AddOrder(s) \/ AddShipments(s)
             \/ CarrierAbsent(s) \/ AddCarrier(s) \/ AddEmail(s)
    <3>1. /\ mail' = mail /\ batch' = batch /\ there' = there
          /\ since' = since /\ src' = src
          /\ pc[s] \notin {"idle", "fetch"}
          /\ \E q : pc' = [pc EXCEPT ![s] = q]
      BY <2>2 DEF Check, FindOrder, AddOrder, AddShipments, CarrierAbsent, AddCarrier,
                  AddEmail, mailVars
    <3> QED
      BY <1>1, <3>1 DEF IndInv, TypeOK
  <2> QED
    BY <1>5, <1>6, <2>1, <2>2
<1>8. CASE \/ \E a \in Accounts, f \in Folders : CreateAccount(a, f) \/ UpdateAccount(a, f)
           \/ \E a \in Accounts : DeleteAccount(a)
  BY <1>1, <1>8 DEF CreateAccount, UpdateAccount, DeleteAccount, mailVars, sessionVars
<1> QED
  BY <1>2, <1>3, <1>4, <1>7, <1>8 DEF Next

\* A sync that returns truncated = False leaves the folder caught up: what was
\* there when it fetched lies below the watermark it loaded, and then is recorded
\* already, or in its batch.
THEOREM UntruncatedIsCaughtUp == Spec => CaughtUp
<1> DEFINE Caught == \A s \in Syncers :
                        Commit(s) /\ ~Truncated(s) /\ ~switched[acct[s]]
                        => \A u \in there[s] : mail[src[s]][u] \in emails'
<1>1. Init => Fetched
  BY DEF Init, Fetched
<1>2. IndInv /\ Fetched /\ [Next]_vars => [Caught]_vars
  <2> SUFFICES ASSUME IndInv, Fetched, NEW s \in Syncers, Commit(s), ~Truncated(s),
                      ~switched[acct[s]], NEW u \in there[s]
               PROVE  mail[src[s]][u] \in emails'
    OBVIOUS
  <2>1. /\ src[s] = folder[acct[s]] /\ since[s] <= lastSeen[acct[s]]
        /\ acct[s] \in exists /\ pc[s] = "check" /\ todo[s] = {}
        /\ emails' = emails \cup newEmails[s]
    BY DEF Commit, IndInv, Anchored
  <2>2. /\ u \in Uids /\ u \in Int /\ since[s] \in Int /\ lastSeen[acct[s]] \in Int
        /\ there[s] \subseteq Uids
    BY <2>1, BoundsAssumption DEF IndInv, TypeOK, Uids
  <2>3. CASE u <= since[s]
    <3>1. mail[src[s]][u] # None
      BY <2>1 DEF Fetched
    <3>2. u <= lastSeen[acct[s]]
      BY <2>1, <2>2, <2>3
    <3> QED
      BY <2>1, <2>2, <3>1, <3>2 DEF IndInv, WatermarkSafe, Present
  <2>4. CASE u > since[s]
    <3> DEFINE S == {w \in there[s] : w > since[s]}
    <3>1. batch[s] = Oldest(S, Limit) /\ Cardinality(batch[s]) # Limit
      BY <2>1 DEF Fetched, Truncated
    <3>2. Oldest(S, Limit) = S
      BY <2>2, <3>1, OldestCut, BoundsAssumption
    <3>3. u \in batch[s] \ todo[s]
      BY <2>1, <2>4, <3>1, <3>2
    <3> QED
      BY <2>1, <3>3 DEF IndInv, Done
  <2> QED
    BY <2>2, <2>3, <2>4
<1> QED
  BY <1>1, <1>2, FetchedKept, Invariant, PTL DEF Spec, CaughtUp

-----------------------------------------------------------------------------
(* The notification comes before the commit.                               *)

\* What the worker has flushed or committed was announced.
FlushedIsAnnounced ==
    \A s \in Syncers : \A o \in rows[s].orders : o.via = Worker => o.id \in announced

\* Every step keeps it.
LEMMA AnnouncedKept ==
    IndInv /\ FlushedIsAnnounced /\ ImportedIsAnnounced /\ [Next]_vars
        => FlushedIsAnnounced' /\ ImportedIsAnnounced'
<1> SUFFICES ASSUME IndInv, FlushedIsAnnounced, ImportedIsAnnounced, [Next]_vars
             PROVE  FlushedIsAnnounced' /\ ImportedIsAnnounced'
  OBVIOUS
<1>1. ASSUME orders' = orders, announced \subseteq announced',
             \A s \in Syncers : rows'[s].orders \subseteq rows[s].orders
      PROVE  FlushedIsAnnounced' /\ ImportedIsAnnounced'
  BY <1>1 DEF FlushedIsAnnounced, ImportedIsAnnounced
<1>2. ASSUME NEW s \in Syncers, EndSync(s), orders' = orders, announced' = announced
      PROVE  FlushedIsAnnounced' /\ ImportedIsAnnounced'
  BY <1>1, <1>2 DEF EndSync, EmptyRows, IndInv, TypeOK
<1>3. ASSUME NEW s \in Syncers, AddOrder(s)
      PROVE  FlushedIsAnnounced' /\ ImportedIsAnnounced'
  <2>1. \A t \in Syncers : \A o \in rows'[t].orders :
          \/ o \in rows[t].orders
          \/ o.id = Current(s) /\ o.via = s
    BY <1>3 DEF AddOrder, IndInv, TypeOK, RowsType
  <2>2. announced \subseteq announced' /\ (s = Worker => Current(s) \in announced')
    BY <1>3 DEF AddOrder, Notified
  <2> QED
    BY <1>3, <2>1, <2>2 DEF AddOrder, FlushedIsAnnounced, ImportedIsAnnounced, tableVars
<1>4. ASSUME NEW s \in Syncers, Commit(s)
      PROVE  FlushedIsAnnounced' /\ ImportedIsAnnounced'
  <2>1. \A o \in orders' : \E p \in orders \cup rows[s].orders : o.id = p.id /\ o.via = p.via
    <3> SUFFICES ASSUME NEW o \in orders'
                 PROVE  \E p \in orders \cup rows[s].orders : o.id = p.id /\ o.via = p.via
      OBVIOUS
    <3>1. PICK p \in orders \cup rows[s].orders :
             o = [p EXCEPT !.status = IF p.id \in rows[s].shipped THEN "SHIPPED" ELSE @]
      BY <1>4 DEF Commit
    <3>2. p \in OrderRow
      BY DEF IndInv, TypeOK, RowsType
    <3> QED
      BY <3>1, <3>2 DEF OrderRow
  <2>2. announced' = announced
    BY <1>4 DEF Commit, outcomeVars
  <2>3. \A t \in Syncers : rows'[t].orders \subseteq rows[t].orders
    BY <1>4 DEF Commit, EndSync, EmptyRows, IndInv, TypeOK
  <2> QED
    BY <2>1, <2>2, <2>3 DEF FlushedIsAnnounced, ImportedIsAnnounced
<1>5. ASSUME NEW s \in Syncers, Step(s) \/ Fail(s)
      PROVE  FlushedIsAnnounced' /\ ImportedIsAnnounced'
  <2>1. \/ AddOrder(s) \/ Commit(s)
        \/ EndSync(s) /\ orders' = orders /\ announced' = announced
        \/ Fetch(s) \/ Check(s) \/ FindOrder(s) \/ AddShipments(s) \/ CarrierAbsent(s)
        \/ AddCarrier(s) \/ AddEmail(s)
    BY <1>5 DEF Step, FetchRaises, CarrierConflict, EmailConflict, CommitStale,
                DeadlockVictim, Rollback, Fail, tableVars, outcomeVars
  <2>2. CASE Fetch(s) \/ Check(s) \/ CarrierAbsent(s) \/ AddEmail(s)
    BY <1>1, <2>2 DEF Fetch, Check, CarrierAbsent, AddEmail, tableVars, outcomeVars
  <2>3. CASE FindOrder(s) \/ AddShipments(s) \/ AddCarrier(s)
    <3>1. orders' = orders /\ announced' = announced
      BY <2>3 DEF FindOrder, AddShipments, AddCarrier, tableVars, outcomeVars
    <3>2. \A t \in Syncers : rows'[t].orders = rows[t].orders
      <4>1. CASE FindOrder(s)
        BY <4>1 DEF FindOrder, IndInv, TypeOK, RowsType
      <4>2. CASE AddShipments(s)
        BY <4>2 DEF AddShipments, IndInv, TypeOK, RowsType
      <4>3. CASE AddCarrier(s)
        BY <4>3 DEF AddCarrier, IndInv, TypeOK, RowsType
      <4> QED
        BY <2>3, <4>1, <4>2, <4>3
    <3> QED
      BY <1>1, <3>1, <3>2
  <2> QED
    BY <1>2, <1>3, <1>4, <2>1, <2>2, <2>3
<1>6. CASE \/ \E f \in Folders, m \in Msgs, u \in Uids : Arrive(f, m, u)
           \/ \E a \in Accounts, f \in Folders : CreateAccount(a, f) \/ UpdateAccount(a, f)
           \/ \E a \in Accounts : DeleteAccount(a)
           \/ \E s \in Syncers, a \in Accounts : Begin(s, a)
           \/ UNCHANGED vars
  BY <1>1, <1>6 DEF Arrive, CreateAccount, UpdateAccount, DeleteAccount, Begin, vars,
                    tableVars, sessionVars, outcomeVars
<1> QED
  BY <1>5, <1>6 DEF Next

\* An order that the worker imported was announced, whatever crash or rollback
\* came between the notification and the commit.
THEOREM ImportsAnnounced == Spec => []ImportedIsAnnounced
<1>1. Init => FlushedIsAnnounced /\ ImportedIsAnnounced
  BY DEF Init, FlushedIsAnnounced, ImportedIsAnnounced, EmptyRows
<1> QED
  BY <1>1, AnnouncedKept, Invariant, PTL DEF Spec

-----------------------------------------------------------------------------
(* A recorded message has its order and shipments.                         *)
(*                                                                         *)
(* The rows of a message are flushed one after the other, some found in    *)
(* the tables and some new.  While a sync works on a message it has an     *)
(* order for it (InHand) and, from then on until the commit, the shipments *)
(* too (Promised), in the tables or in its own transaction; other commits  *)
(* only add rows and move orders to SHIPPED.                               *)

\* The orders that sync s can see, and whether o will be SHIPPED.
Visible(s) == orders \cup rows[s].orders
Marked(s, o) == o.status = "SHIPPED" \/ o.id \in rows[s].shipped

\* o is the order of message m, of the owner of the mailbox, and order i has its
\* shipments.
OrderFor(s, m, o) ==
    /\ o.user = Owner[acct[s]]
    /\ IF Content[m].number = None THEN o.id = m ELSE o.number = Content[m].number
    /\ Content[m].trks # {} => Marked(s, o)
ShippedIn(s, m, i) ==
    \A t \in Content[m].trks :
        \E r \in shipments \cup rows[s].shipments : r.order = i /\ r.trk = t

InHand(s) ==
    /\ pc[s] = "order" => Content[Current(s)].kind # "other"
    /\ pc[s] \in {"ship", "carrier", "email"} /\ Content[Current(s)].kind # "other" =>
         \E o \in Visible(s) : /\ o.id = order[s] /\ OrderFor(s, Current(s), o)
                               /\ pc[s] = "email" => ShippedIn(s, Current(s), o.id)

Promised(s) ==
    \A m \in newEmails[s] : Content[m].kind # "other" =>
        \E o \in Visible(s) : OrderFor(s, m, o) /\ ShippedIn(s, m, o.id)

\* A sync that has not fetched yet has flushed nothing.
Unstarted(s) == pc[s] \in {"idle", "fetch"} => newEmails[s] = {} /\ rows[s] = EmptyRows

\* Placeholder orders are SHIPPED from the start.
Placeholders(O) ==
    \A o \in O, m \in Msgs :
        Content[m].kind = "carrier" /\ o.number = Content[m].number => o.status = "SHIPPED"

PersistInv ==
    /\ \A s \in Syncers :
         InHand(s) /\ Promised(s) /\ Unstarted(s) /\ Placeholders(Visible(s))
    /\ RecordedIsPersisted

\* What a sync sees is still there after a step, with its order and number, and
\* SHIPPED or about to be if it was so.
Lasts(s) ==
    /\ \A o \in Visible(s) : \E p \in Visible(s)' :
         /\ p.id = o.id /\ p.user = o.user /\ p.number = o.number
         /\ Marked(s, o) => Marked(s, p)'
    /\ shipments \cup rows[s].shipments \subseteq shipments' \cup rows'[s].shipments

\* Sync t does not move.
Stays(t) ==
    /\ acct'[t] = acct[t] /\ pc'[t] = pc[t] /\ src'[t] = src[t] /\ todo'[t] = todo[t]
    /\ order'[t] = order[t] /\ newEmails'[t] = newEmails[t] /\ rows'[t] = rows[t]

\* Then a message keeps its order and its shipments.
LEMMA EntryLasts ==
    ASSUME NEW s \in Syncers, Lasts(s), NEW m \in Msgs, NEW o \in Visible(s), OrderFor(s, m, o),
           acct'[s] = acct[s]
    PROVE  \E p \in Visible(s)' : /\ p.id = o.id /\ OrderFor(s, m, p)'
                                  /\ ShippedIn(s, m, o.id) => ShippedIn(s, m, p.id)'
<1>1. PICK p \in Visible(s)' :
         /\ p.id = o.id /\ p.user = o.user /\ p.number = o.number
         /\ Marked(s, o) => Marked(s, p)'
  BY DEF Lasts
<1>2. OrderFor(s, m, p)'
  BY <1>1 DEF OrderFor
<1>3. ShippedIn(s, m, o.id) => ShippedIn(s, m, p.id)'
  BY <1>1 DEF ShippedIn, Lasts
<1> QED
  BY <1>1, <1>2, <1>3

\* And a sync that does not move keeps what it has.
LEMMA SyncLasts ==
    ASSUME IndInv, NEW s \in Syncers, Lasts(s), InHand(s), Promised(s),
           acct'[s] = acct[s], pc'[s] = pc[s], order'[s] = order[s], newEmails'[s] = newEmails[s],
           todo[s] # {} => Current(s)' = Current(s)
    PROVE  InHand(s)' /\ Promised(s)'
<1>1. pc[s] \in {"order", "ship", "carrier", "email"} => todo[s] # {} /\ Current(s) \in Msgs
  BY CurrentIn DEF IndInv, BatchInv, BatchOf
<1>2. InHand(s)'
  <2>1. CASE pc[s] \in {"ship", "carrier", "email"} /\ Content[Current(s)].kind # "other"
    <3>1. PICK o \in Visible(s) : /\ o.id = order[s] /\ OrderFor(s, Current(s), o)
                                  /\ pc[s] = "email" => ShippedIn(s, Current(s), o.id)
      BY <2>1 DEF InHand
    <3>2. PICK p \in Visible(s)' : /\ p.id = o.id /\ OrderFor(s, Current(s), p)'
                                   /\ ShippedIn(s, Current(s), o.id) => ShippedIn(s, Current(s), p.id)'
      BY <1>1, <2>1, <3>1, EntryLasts
    <3> QED
      BY <1>1, <2>1, <3>1, <3>2 DEF InHand
  <2>2. CASE ~(pc[s] \in {"ship", "carrier", "email"} /\ Content[Current(s)].kind # "other")
    BY <1>1, <2>2 DEF InHand
  <2> QED
    BY <2>1, <2>2
<1>3. Promised(s)'
  <2> SUFFICES ASSUME NEW m \in newEmails[s], Content[m].kind # "other"
               PROVE  \E p \in Visible(s)' : OrderFor(s, m, p)' /\ ShippedIn(s, m, p.id)'
    BY DEF Promised
  <2>1. PICK o \in Visible(s) : OrderFor(s, m, o) /\ ShippedIn(s, m, o.id)
    BY DEF Promised
  <2>2. m \in Msgs
    BY DEF IndInv, TypeOK
  <2> QED
    BY <2>1, <2>2, EntryLasts
<1> QED
  BY <1>2, <1>3

\* A step of sync s that commits nothing: the others keep what they have.
LEMMA OthersLast ==
    ASSUME IndInv, PersistInv, NEW s \in Syncers, UNCHANGED <<mail, tableVars>>,
           \A t \in Syncers \ {s} : Stays(t),
           InHand(s)', Promised(s)', Unstarted(s)', Placeholders(Visible(s))'
    PROVE  PersistInv'
<1> USE DEF tableVars
<1>1. ASSUME NEW t \in Syncers \ {s}
      PROVE  InHand(t)' /\ Promised(t)' /\ Unstarted(t)' /\ Placeholders(Visible(t))'
  <2>1. Current(t)' = Current(t) /\ Visible(t)' = Visible(t)
    BY <1>1 DEF Current, CurrentUid, Visible, Stays
  <2>2. Lasts(t)
    BY <1>1, <2>1 DEF Lasts, Marked, Stays
  <2>3. InHand(t)' /\ Promised(t)'
    BY <1>1, <2>1, <2>2, SyncLasts DEF PersistInv, Stays
  <2>4. Unstarted(t)' /\ Placeholders(Visible(t))'
    BY <1>1, <2>1 DEF PersistInv, Placeholders, Unstarted, Stays
  <2> QED
    BY <2>3, <2>4
<1>2. RecordedIsPersisted'
  BY DEF PersistInv, RecordedIsPersisted
<1> QED
  BY <1>1, <1>2 DEF PersistInv

\* The end of a sync without a commit.
LEMMA EndSyncPersists ==
    ASSUME IndInv, PersistInv, NEW s \in Syncers, EndSync(s), UNCHANGED <<mail, tableVars>>
    PROVE  PersistInv'
<1>1. /\ pc'[s] = "idle" /\ newEmails'[s] = {} /\ rows'[s] = EmptyRows
      /\ rows'[s].orders = {}
  BY DEF EndSync, EmptyRows, IndInv, TypeOK
<1>2. InHand(s)' /\ Promised(s)' /\ Unstarted(s)'
  BY <1>1 DEF InHand, Promised, Unstarted
<1>3. Placeholders(Visible(s))'
  BY <1>1 DEF Placeholders, Visible, PersistInv, tableVars
<1>4. \A t \in Syncers \ {s} : Stays(t)
  BY DEF EndSync, IndInv, TypeOK, Stays
<1> QED
  BY <1>2, <1>3, <1>4, OthersLast

\* Loading the account, fetching, and finding out whether a message is known: no
\* row is flushed yet.
LEMMA CheckPersists ==
    ASSUME IndInv, PersistInv, NEW s \in Syncers,
           Fetch(s) \/ Check(s) \/ \E a \in Accounts : Begin(s, a)
    PROVE  PersistInv'
<1>1. UNCHANGED <<mail, tableVars, newEmails, rows>>
  BY DEF Fetch, Check, Begin, mailVars
<1>2. \A t \in Syncers \ {s} : Stays(t)
  <2>1. CASE Fetch(s)
    BY <2>1 DEF Fetch, IndInv, TypeOK, Stays
  <2>2. CASE Check(s)
    BY <2>2 DEF Check, IndInv, TypeOK, Stays
  <2>3. CASE \E a \in Accounts : Begin(s, a)
    BY <2>3 DEF Begin, IndInv, TypeOK, Stays
  <2> QED
    BY <2>1, <2>2, <2>3
<1>3. Visible(s)' = Visible(s) /\ Placeholders(Visible(s))'
  BY <1>1 DEF PersistInv, Placeholders, Visible, tableVars
<1>5. Unstarted(s)' /\ Promised(s)'
  <2>1. CASE Fetch(s) \/ Check(s)
    <3>1. acct' = acct /\ (pc'[s] = "fetch" \/ pc'[s] = "idle" => FALSE)
      BY <2>1 DEF Fetch, Check, IndInv, TypeOK
    <3>2. Unstarted(s)'
      BY <3>1 DEF Unstarted
    <3> QED
      BY <1>1, <1>3, <3>1, <3>2
         DEF PersistInv, Promised, OrderFor, Marked, ShippedIn, tableVars
  <2>2. CASE \E a \in Accounts : Begin(s, a)
    <3>1. newEmails[s] = {} /\ rows[s] = EmptyRows
      BY <2>2 DEF Begin, PersistInv, Unstarted
    <3> QED
      BY <1>1, <3>1 DEF Unstarted, Promised
  <2> QED
    BY <2>1, <2>2
<1>4. InHand(s)'
  <2>1. CASE Fetch(s) \/ \E a \in Accounts : Begin(s, a)
    <3>1. pc'[s] \in {"fetch", "check"}
      BY <2>1 DEF Fetch, Begin, IndInv, TypeOK
    <3> QED
      BY <3>1 DEF InHand
  <2>2. CASE Check(s)
    <3> DEFINE known == Current(s) \in emails \cup newEmails[s]
    <3>1. known => pc'[s] = "check"
      BY <2>2 DEF Check, IndInv, TypeOK
    <3>2. ~known => todo'[s] = todo[s] /\ src'[s] = src[s]
      BY <2>2 DEF Check, IndInv, TypeOK
    <3>3. ~known => Current(s)' = Current(s)
      BY <1>1, <3>2 DEF Current, CurrentUid
    <3>4. CASE ~known /\ Content[Current(s)].kind = "other"
      <4>1. pc'[s] = "email"
        BY <2>2, <3>4 DEF Check, IndInv, TypeOK
      <4> QED
        BY <3>3, <3>4, <4>1 DEF InHand
    <3>5. CASE ~known /\ Content[Current(s)].kind # "other"
      <4>1. pc'[s] = "order"
        BY <2>2, <3>5 DEF Check, IndInv, TypeOK
      <4> QED
        BY <3>3, <3>5, <4>1 DEF InHand
    <3>6. CASE known
      BY <3>1, <3>6 DEF InHand
    <3> QED
      BY <3>4, <3>5, <3>6
  <2> QED
    BY <2>1, <2>2
<1> QED
  BY <1>1, <1>2, <1>3, <1>4, <1>5, OthersLast

\* A step of s that flushes rows for the message in hand.
LEMMA FlushLasts ==
    ASSUME IndInv, PersistInv, NEW s \in Syncers,
           FindOrder(s) \/ AddOrder(s) \/ AddShipments(s) \/ CarrierAbsent(s) \/ AddCarrier(s)
    PROVE  /\ UNCHANGED <<mail, tableVars, acct, src, todo, newEmails>>
           /\ \A t \in Syncers \ {s} : Stays(t)
           /\ Current(s)' = Current(s) /\ Current(s) \in Msgs
           /\ rows[s].orders \subseteq rows'[s].orders
           /\ rows[s].shipped \subseteq rows'[s].shipped
           /\ rows[s].shipments \subseteq rows'[s].shipments
           /\ Lasts(s) /\ Promised(s)' /\ Unstarted(s)'
<1>1. UNCHANGED <<mail, tableVars, acct, src, todo, newEmails>>
  BY DEF FindOrder, AddOrder, AddShipments, CarrierAbsent, AddCarrier, mailVars
<1>2. \E q : pc' = [pc EXCEPT ![s] = q]
  BY DEF FindOrder, AddOrder, AddShipments, CarrierAbsent, AddCarrier
<1>3. order' = order \/ \E q : order' = [order EXCEPT ![s] = q]
  BY DEF FindOrder, AddOrder, AddShipments, CarrierAbsent, AddCarrier
<1>4. /\ \A t \in Syncers \ {s} : rows'[t] = rows[t]
      /\ rows[s].orders \subseteq rows'[s].orders
      /\ rows[s].shipped \subseteq rows'[s].shipped
      /\ rows[s].shipments \subseteq rows'[s].shipments
  <2>0. rows \in [Syncers -> RowsType]
    BY DEF IndInv, TypeOK
  <2>1. CASE FindOrder(s)
    BY <2>0, <2>1 DEF FindOrder, RowsType
  <2>2. CASE AddOrder(s)
    BY <2>0, <2>2 DEF AddOrder, RowsType
  <2>3. CASE AddShipments(s)
    BY <2>0, <2>3 DEF AddShipments, RowsType
  <2>4. CASE CarrierAbsent(s)
    BY <2>0, <2>4 DEF CarrierAbsent
  <2>5. CASE AddCarrier(s)
    BY <2>0, <2>5 DEF AddCarrier, RowsType
  <2> QED
    BY <2>1, <2>2, <2>3, <2>4, <2>5
<1>5. pc[s] \in {"order", "ship", "carrier"}
  BY DEF FindOrder, AddOrder, AddShipments, CarrierAbsent, AddCarrier
<1>6. Current(s)' = Current(s) /\ Current(s) \in Msgs
  BY <1>1, <1>5, SameCurrent, CurrentIn DEF IndInv, BatchInv, BatchOf
<1>7. Lasts(s)
  BY <1>1, <1>4 DEF Lasts, Visible, Marked, tableVars
<1>8. Promised(s)'
  <2> SUFFICES ASSUME NEW m \in newEmails[s], Content[m].kind # "other"
               PROVE  \E p \in Visible(s)' : OrderFor(s, m, p)' /\ ShippedIn(s, m, p.id)'
    BY <1>1 DEF Promised
  <2>1. PICK o \in Visible(s) : OrderFor(s, m, o) /\ ShippedIn(s, m, o.id)
    BY DEF PersistInv, Promised
  <2>2. m \in Msgs
    BY DEF IndInv, TypeOK
  <2> QED
    BY <1>1, <1>7, <2>1, <2>2, EntryLasts
<1>9. \A t \in Syncers \ {s} : pc'[t] = pc[t] /\ order'[t] = order[t]
  BY <1>2, <1>3 DEF IndInv, TypeOK
<1>10. Unstarted(s)'
  <2>1. pc'[s] \in {"ship", "carrier", "email"}
    <3>1. \E q \in {"ship", "carrier", "email"} : pc' = [pc EXCEPT ![s] = q]
      BY DEF FindOrder, AddOrder, AddShipments, CarrierAbsent, AddCarrier
    <3> QED
      BY <3>1 DEF IndInv, TypeOK
  <2> QED
    BY <2>1 DEF Unstarted
<1> QED
  BY <1>1, <1>4, <1>6, <1>7, <1>8, <1>9, <1>10 DEF Stays

\* An order is found.
LEMMA FindOrderPersists ==
    ASSUME IndInv, PersistInv, NEW s \in Syncers, FindOrder(s)
    PROVE  PersistInv'
<1> DEFINE m == Current(s)
<1>1. PICK o \in FoundOrders(s, m) :
         /\ order' = [order EXCEPT ![s] = o.id]
         /\ rows' = [rows EXCEPT ![s].shipped =
                       IF Ships(m) /\ o.status = "CONFIRMED" THEN @ \cup {o.id} ELSE @]
  BY DEF FindOrder
<1>2. /\ o \in Visible(s) /\ o \in OrderRow
      /\ Content[m].number # None /\ o.number = Content[m].number
      /\ o.user = Owner[acct[s]]
  BY DEF FoundOrders, Visible, IndInv, TypeOK, RowsType
<1>3. /\ order'[s] = o.id /\ rows'[s].orders = rows[s].orders
      /\ Ships(m) /\ o.status = "CONFIRMED" => o.id \in rows'[s].shipped
      /\ pc'[s] = "ship"
  BY <1>1 DEF FindOrder, IndInv, TypeOK, RowsType
<1>4. Visible(s)' = Visible(s)
  BY <1>3, FlushLasts DEF Visible, tableVars
<1>5. Content[m].kind # "other" /\ m \in Msgs /\ Current(s)' = m
  BY FlushLasts DEF PersistInv, InHand, FindOrder
<1>6. Content[m].trks # {} => o.status = "SHIPPED" \/ o.id \in rows'[s].shipped
  <2>1. CASE Content[m].kind = "order"
    BY <1>2, <1>3, <2>1 DEF Ships, OrderRow
  <2>2. CASE Content[m].kind = "carrier"
    BY <1>2, <1>5, <2>2 DEF PersistInv, Placeholders
  <2> QED
    BY <1>5, <2>1, <2>2, ContentAssumption DEF ContentSet
<1>7. InHand(s)'
  BY <1>2, <1>3, <1>4, <1>5, <1>6, FlushLasts DEF InHand, OrderFor, Marked
<1>8. Placeholders(Visible(s))'
  BY <1>4 DEF PersistInv, Placeholders
<1> QED
  BY <1>7, <1>8, FlushLasts, OthersLast

\* An order is added.
LEMMA AddOrderPersists ==
    ASSUME IndInv, PersistInv, NEW s \in Syncers, AddOrder(s)
    PROVE  PersistInv'
<1> DEFINE m == Current(s)
           new == [id |-> m, user |-> Owner[acct[s]], number |-> Content[m].number,
                   status |-> IF Content[m].kind = "carrier" THEN "SHIPPED" ELSE "CONFIRMED",
                   via |-> s]
<1>1. /\ order'[s] = m /\ rows'[s].orders = rows[s].orders \cup {new}
      /\ Ships(m) => m \in rows'[s].shipped
      /\ pc'[s] = "ship"
  BY DEF AddOrder, IndInv, TypeOK, RowsType
<1>2. Visible(s)' = Visible(s) \cup {new}
  BY <1>1, FlushLasts DEF Visible, tableVars
<1>3. Content[m].kind # "other" /\ m \in Msgs /\ Current(s)' = m
  BY FlushLasts DEF PersistInv, InHand, AddOrder
<1>4. Content[m].kind \in {"order", "carrier"}
  BY <1>3, ContentAssumption DEF ContentSet
<1>5. /\ new.id = m /\ new.number = Content[m].number /\ new.user = Owner[acct[s]]
      /\ Content[m].kind = "carrier" => new.status = "SHIPPED"
  OBVIOUS
<1>6. Placeholders(Visible(s))'
  <2> SUFFICES ASSUME NEW n \in Msgs, Content[n].kind = "carrier", new.number = Content[n].number
               PROVE  new.status = "SHIPPED"
    BY <1>2 DEF PersistInv, Placeholders
  <2> QED
    BY <1>3, <1>4, <1>5, PlaceholderAssumption
<1> HIDE DEF new
<1>7. Content[m].trks # {} => new.status = "SHIPPED" \/ m \in rows'[s].shipped
  BY <1>1, <1>4, <1>5 DEF Ships
<1>8. InHand(s)'
  BY <1>1, <1>2, <1>3, <1>5, <1>7, FlushLasts DEF InHand, OrderFor, Marked
<1> QED
  BY <1>6, <1>8, FlushLasts, OthersLast

\* The shipments are added, or the carrier they need.
LEMMA AddShipmentsPersists ==
    ASSUME IndInv, PersistInv, NEW s \in Syncers,
           AddShipments(s) \/ CarrierAbsent(s) \/ AddCarrier(s)
    PROVE  PersistInv'
<1> DEFINE m == Current(s)
<1>1. /\ pc[s] \in {"ship", "carrier"} /\ order' = order
      /\ pc'[s] \in {"ship", "carrier"} \/ AddShipments(s)
  BY DEF AddShipments, CarrierAbsent, AddCarrier, IndInv, TypeOK
<1>2. rows'[s].orders = rows[s].orders
  <2>1. CASE AddShipments(s)
    BY <2>1 DEF AddShipments, IndInv, TypeOK, RowsType
  <2>2. CASE CarrierAbsent(s)
    BY <2>2 DEF CarrierAbsent
  <2>3. CASE AddCarrier(s)
    BY <2>3 DEF AddCarrier, IndInv, TypeOK, RowsType
  <2> QED
    BY <2>1, <2>2, <2>3
<1>3. Visible(s)' = Visible(s)
  BY <1>2, FlushLasts DEF Visible, tableVars
<1>4. Placeholders(Visible(s))'
  BY <1>3 DEF PersistInv, Placeholders
<1>5. m \in Msgs /\ Current(s)' = m
  BY FlushLasts
<1>6. ASSUME AddShipments(s)
      PROVE  \A t \in Content[m].trks :
                \E r \in shipments' \cup rows'[s].shipments : r.order = order[s] /\ r.trk = t
  <2>1. rows'[s].shipments = rows[s].shipments \cup
          {[order |-> order[s], trk |-> t, by |-> m] : t \in Missing(s)}
    BY <1>6 DEF AddShipments, IndInv, TypeOK, RowsType
  <2> SUFFICES ASSUME NEW t \in Content[m].trks
               PROVE  \E r \in shipments' \cup rows'[s].shipments : r.order = order[s] /\ r.trk = t
    OBVIOUS
  <2>2. CASE t \in Missing(s)
    <3> DEFINE r == [order |-> order[s], trk |-> t, by |-> m]
    <3>1. r \in rows'[s].shipments /\ r.order = order[s] /\ r.trk = t
      BY <2>1, <2>2
    <3> QED
      BY <3>1
  <2>3. CASE t \notin Missing(s)
    BY <2>1, <2>3, FlushLasts DEF Missing, tableVars
  <2> QED
    BY <2>2, <2>3
<1>7. InHand(s)'
  <2>1. CASE Content[m].kind # "other"
    <3>1. PICK o \in Visible(s) : o.id = order[s] /\ OrderFor(s, m, o)
      BY <1>1, <2>1 DEF PersistInv, InHand
    <3>2. OrderFor(s, m, o)'
      BY <1>5, <3>1, FlushLasts DEF OrderFor, Marked
    <3>3. pc'[s] = "email" => ShippedIn(s, m, o.id)'
      BY <1>1, <1>5, <1>6, <3>1 DEF ShippedIn
    <3>4. o \in Visible(s)' /\ o.id = order'[s]
      BY <1>1, <1>3, <3>1
    <3>5. Content[Current(s)'].kind # "other"
      BY <1>5, <2>1
    <3> QED
      BY <3>2, <3>3, <3>4, <3>5 DEF InHand
  <2>2. CASE Content[m].kind = "other"
    <3>1. pc'[s] # "order"
      BY DEF AddShipments, CarrierAbsent, AddCarrier, IndInv, TypeOK
    <3> QED
      BY <1>5, <2>2, <3>1 DEF InHand
  <2> QED
    BY <2>1, <2>2
<1> QED
  BY <1>4, <1>7, FlushLasts, OthersLast

\* The email row is added: from now on the sync owes its order and shipments.
LEMMA AddEmailPersists ==
    ASSUME IndInv, PersistInv, NEW s \in Syncers, AddEmail(s)
    PROVE  PersistInv'
<1> DEFINE m == Current(s)
<1>1. UNCHANGED <<mail, tableVars, acct, src, order, rows>>
  BY DEF AddEmail, mailVars
<1>2. \A t \in Syncers \ {s} : Stays(t)
  BY <1>1 DEF AddEmail, IndInv, TypeOK, Stays
<1>3. pc'[s] = "check" /\ pc[s] = "email" /\ newEmails'[s] = newEmails[s] \cup {m}
  BY DEF AddEmail, IndInv, TypeOK
<1>4. Visible(s)' = Visible(s) /\ Placeholders(Visible(s))'
  BY <1>1 DEF PersistInv, Placeholders, Visible, tableVars
<1>6. Promised(s)'
  <2> SUFFICES ASSUME NEW n \in newEmails[s] \cup {m}, Content[n].kind # "other"
               PROVE  \E o \in Visible(s)' : OrderFor(s, n, o)' /\ ShippedIn(s, n, o.id)'
    BY <1>3 DEF Promised
  <2>1. PICK o \in Visible(s) : OrderFor(s, n, o) /\ ShippedIn(s, n, o.id)
    <3>1. CASE n = m
      BY <1>3, <3>1 DEF PersistInv, InHand
    <3>2. CASE n # m
      BY <3>2 DEF PersistInv, Promised
    <3> QED
      BY <3>1, <3>2
  <2>2. OrderFor(s, n, o)' /\ ShippedIn(s, n, o.id)'
    BY <1>1, <2>1 DEF OrderFor, Marked, ShippedIn, tableVars
  <2> QED
    BY <1>4, <2>1, <2>2
<1>7. InHand(s)' /\ Unstarted(s)'
  BY <1>3 DEF InHand, Unstarted
<1> QED
  BY <1>1, <1>2, <1>4, <1>6, <1>7, OthersLast

\* What the commit of s makes of an order that it sees.
Shipped(s, o) == [o EXCEPT !.status = IF o.id \in rows[s].shipped THEN "SHIPPED" ELSE @]

LEMMA CommitRows ==
    ASSUME IndInv, NEW s \in Syncers, Commit(s)
    PROVE  /\ orders' = {Shipped(s, o) : o \in Visible(s)}
           /\ shipments' = shipments \cup rows[s].shipments
           /\ emails' = emails \cup newEmails[s]
           /\ \A o \in Visible(s) :
                /\ o \in OrderRow
                /\ Shipped(s, o).id = o.id /\ Shipped(s, o).number = o.number
                /\ Shipped(s, o).user = o.user
                /\ Marked(s, o) <=> Shipped(s, o).status = "SHIPPED"
<1>1. /\ orders' = {Shipped(s, o) : o \in Visible(s)}
      /\ shipments' = shipments \cup rows[s].shipments
      /\ emails' = emails \cup newEmails[s]
  BY DEF Commit, Visible, Shipped
<1>2. Visible(s) \subseteq OrderRow
  BY DEF Visible, IndInv, TypeOK, RowsType
<1>3. \A o \in Visible(s) :
         /\ Shipped(s, o).id = o.id /\ Shipped(s, o).number = o.number
         /\ Shipped(s, o).user = o.user
         /\ Marked(s, o) <=> Shipped(s, o).status = "SHIPPED"
  BY <1>2 DEF OrderRow, Marked, Shipped
<1> QED
  BY <1>1, <1>2, <1>3

\* A message of the transaction is in the tables after the commit, with its order
\* and its shipments, for the owner of the mailbox.
LEMMA CommitEnters ==
    ASSUME IndInv, PersistInv, NEW s \in Syncers, Commit(s),
           NEW m \in newEmails[s], Content[m].kind # "other"
    PROVE  \E p \in orders' :
              /\ p.user = Owner[acct[s]]
              /\ IF Content[m].number = None THEN p.id = m ELSE p.number = Content[m].number
              /\ Content[m].trks # {} => p.status = "SHIPPED"
              /\ \A t \in Content[m].trks :
                   \E r \in shipments' : r.order = p.id /\ r.trk = t
<1>1. PICK o \in Visible(s) : OrderFor(s, m, o) /\ ShippedIn(s, m, o.id)
  BY DEF PersistInv, Promised
<1> DEFINE p == Shipped(s, o)
<1>2. p \in orders' /\ p.id = o.id /\ p.number = o.number /\ p.user = o.user
  BY CommitRows
<1>3. Content[m].trks # {} => p.status = "SHIPPED"
  BY <1>1, CommitRows DEF OrderFor
<1>4. \A t \in Content[m].trks : \E r \in shipments' : r.order = p.id /\ r.trk = t
  BY <1>1, <1>2, CommitRows DEF ShippedIn
<1>5. /\ p.user = Owner[acct[s]]
      /\ IF Content[m].number = None THEN p.id = m ELSE p.number = Content[m].number
  BY <1>1, <1>2 DEF OrderFor
<1> QED
  BY <1>2, <1>3, <1>4, <1>5

\* The other syncs stay where they are, and find what they had found before.
LEMMA CommitLasts ==
    ASSUME IndInv, NEW s \in Syncers, Commit(s), NEW t \in Syncers \ {s}
    PROVE  Stays(t) /\ Lasts(t) /\ Current(t)' = Current(t)
<1>1. Stays(t) /\ mail' = mail
  BY DEF Commit, EndSync, IndInv, TypeOK, Stays, mailVars
<1>2. Current(t)' = Current(t)
  BY <1>1 DEF Current, CurrentUid, Stays
<1>3. ASSUME NEW o \in Visible(t)
      PROVE  \E p \in Visible(t)' :
                /\ p.id = o.id /\ p.user = o.user /\ p.number = o.number
                /\ Marked(t, o) => Marked(t, p)'
  <2>1. CASE o \in orders
    <3>1. o \in Visible(s)
      BY <2>1 DEF Visible
    <3>2. PICK p \in orders' : /\ p.id = o.id /\ p.user = o.user /\ p.number = o.number
                               /\ o.status = "SHIPPED" => p.status = "SHIPPED"
      BY <3>1, CommitRows DEF Marked
    <3>3. Marked(t, o) => Marked(t, p)'
      BY <1>1, <3>2 DEF Marked, Stays
    <3> QED
      BY <3>2, <3>3 DEF Visible
  <2>2. CASE o \in rows[t].orders
    BY <1>1, <2>2 DEF Visible, Marked, Stays
  <2> QED
    BY <2>1, <2>2 DEF Visible
<1>4. Lasts(t)
  BY <1>1, <1>3, CommitRows DEF Lasts, Stays
<1> QED
  BY <1>1, <1>2, <1>4

\* The commit: what was promised is in the tables, and the other syncs find what
\* they had found before.
LEMMA CommitPersists ==
    ASSUME IndInv, PersistInv, NEW s \in Syncers, Commit(s)
    PROVE  PersistInv'
<1> DEFINE Now(o) == Shipped(s, o)
<1>1. /\ orders' = {Now(o) : o \in Visible(s)}
      /\ shipments' = shipments \cup rows[s].shipments
      /\ emails' = emails \cup newEmails[s] /\ mail' = mail
  BY CommitRows DEF Commit, mailVars
<1>2. \A o \in Visible(s) : /\ Now(o).id = o.id /\ Now(o).number = o.number
                            /\ Now(o).user = o.user
                            /\ Marked(s, o) <=> Now(o).status = "SHIPPED"
  BY CommitRows
<1> HIDE DEF Now
<1>3. /\ pc'[s] = "idle" /\ newEmails'[s] = {} /\ rows'[s] = EmptyRows
      /\ rows'[s].orders = {}
      /\ \A t \in Syncers \ {s} : Stays(t)
  BY DEF Commit, EndSync, EmptyRows, IndInv, TypeOK, Stays
<1>4. Placeholders(orders')
  <2> SUFFICES ASSUME NEW o \in Visible(s), NEW n \in Msgs, Content[n].kind = "carrier",
                      Now(o).number = Content[n].number
               PROVE  Now(o).status = "SHIPPED"
    BY <1>1 DEF Placeholders
  <2> QED
    BY <1>2 DEF PersistInv, Placeholders, Marked
<1>5. InHand(s)' /\ Promised(s)' /\ Unstarted(s)' /\ Placeholders(Visible(s))'
  BY <1>3, <1>4 DEF InHand, Promised, Unstarted, Placeholders, Visible
<1>6. ASSUME NEW t \in Syncers \ {s}
      PROVE  InHand(t)' /\ Promised(t)' /\ Unstarted(t)' /\ Placeholders(Visible(t))'
  <2> USE DEF Stays
  <2>1. Current(t)' = Current(t) /\ Lasts(t)
    BY CommitLasts
  <2>3. InHand(t)' /\ Promised(t)'
    BY <1>3, <2>1, SyncLasts DEF PersistInv
  <2>4. Unstarted(t)' /\ Placeholders(Visible(t))'
    BY <1>3, <1>4 DEF PersistInv, Placeholders, Visible, Unstarted
  <2> QED
    BY <2>3, <2>4
<1>7. RecordedIsPersisted'
  <2> SUFFICES ASSUME NEW m \in emails', Content[m].kind # "other"
               PROVE  \E p \in orders' :
                         /\ IF Content[m].number = None THEN p.id = m
                                                        ELSE p.number = Content[m].number
                         /\ Content[m].trks # {} => p.status = "SHIPPED"
                         /\ \A t \in Content[m].trks :
                              \E r \in shipments' : r.order = p.id /\ r.trk = t
    BY DEF RecordedIsPersisted
  <2>1. CASE m \in emails
    <3>1. PICK o \in orders :
             /\ IF Content[m].number = None THEN o.id = m ELSE o.number = Content[m].number
             /\ Content[m].trks # {} => o.status = "SHIPPED"
             /\ \A t \in Content[m].trks : \E r \in shipments : r.order = o.id /\ r.trk = t
      BY <2>1 DEF PersistInv, RecordedIsPersisted
    <3>2. o \in Visible(s) /\ Now(o) \in orders' /\ Now(o).id = o.id /\ Now(o).number = o.number
      BY <1>1, <1>2 DEF Visible
    <3>3. Content[m].trks # {} => Now(o).status = "SHIPPED"
      BY <1>2, <3>1, <3>2 DEF Marked
    <3>4. \A t \in Content[m].trks : \E r \in shipments' : r.order = Now(o).id /\ r.trk = t
      BY <1>1, <3>1, <3>2
    <3>5. IF Content[m].number = None THEN Now(o).id = m ELSE Now(o).number = Content[m].number
      BY <3>1, <3>2
    <3> QED
      BY <3>2, <3>3, <3>4, <3>5
  <2>2. CASE m \in newEmails[s]
    BY <2>2, CommitEnters
  <2> QED
    BY <1>1, <2>1, <2>2
<1> QED
  BY <1>5, <1>6, <1>7 DEF PersistInv

\* Every step keeps the invariant.
LEMMA PersistKept == IndInv /\ PersistInv /\ [Next]_vars => PersistInv'
<1> SUFFICES ASSUME IndInv, PersistInv, [Next]_vars PROVE PersistInv'
  OBVIOUS
<1>1. ASSUME UNCHANGED <<tableVars, sessionVars>>,
             \A s \in Syncers : todo[s] # {} => Current(s)' = Current(s)
      PROVE  PersistInv'
  <2> USE DEF tableVars, sessionVars
  <2>1. RecordedIsPersisted'
    BY <1>1 DEF PersistInv, RecordedIsPersisted
  <2>2. ASSUME NEW s \in Syncers
        PROVE  InHand(s)' /\ Promised(s)' /\ Unstarted(s)' /\ Placeholders(Visible(s))'
    <3>1. Visible(s)' = Visible(s) /\ Lasts(s)
      BY <1>1 DEF Visible, Lasts, Marked
    <3> QED
      BY <1>1, <3>1, SyncLasts DEF PersistInv, Placeholders, Unstarted
  <2> QED
    BY <2>1, <2>2 DEF PersistInv
<1>2. CASE \/ UNCHANGED vars
           \/ \E a \in Accounts, f \in Folders : CreateAccount(a, f) \/ UpdateAccount(a, f)
           \/ \E a \in Accounts : DeleteAccount(a)
  <2>1. UNCHANGED <<mail, tableVars, sessionVars>>
    BY <1>2 DEF vars, mailVars, CreateAccount, UpdateAccount, DeleteAccount
  <2>2. \A s \in Syncers : Current(s)' = Current(s)
    BY <2>1, SameCurrent DEF sessionVars
  <2> QED
    BY <1>1, <2>1, <2>2
<1>3. ASSUME NEW f \in Folders, NEW m \in Msgs, NEW u \in Uids, Arrive(f, m, u)
      PROVE  PersistInv'
  <2>1. \A s \in Syncers : todo[s] # {} => Current(s)' = Current(s)
    BY <1>3, ArriveCurrent
  <2> QED
    BY <1>1, <1>3, <2>1 DEF Arrive
<1>4. ASSUME NEW s \in Syncers, NEW a \in Accounts, Begin(s, a)
      PROVE  PersistInv'
  BY <1>4, CheckPersists
<1>5. ASSUME NEW s \in Syncers, Step(s) \/ Fail(s)
      PROVE  PersistInv'
  <2>1. CASE EndSync(s) /\ UNCHANGED <<mail, tableVars>>
    BY <2>1, EndSyncPersists
  <2>2. \/ EndSync(s) /\ UNCHANGED <<mail, tableVars>>
        \/ Fetch(s) \/ Check(s) \/ FindOrder(s) \/ AddOrder(s) \/ AddShipments(s)
        \/ CarrierAbsent(s) \/ AddCarrier(s) \/ AddEmail(s) \/ Commit(s)
    BY <1>5 DEF Step, FetchRaises, CarrierConflict, EmailConflict, CommitStale,
                DeadlockVictim, Rollback, Fail, mailVars
  <2> QED
    BY <2>1, <2>2, CheckPersists, FindOrderPersists, AddOrderPersists, AddShipmentsPersists,
       AddEmailPersists, CommitPersists
<1> QED
  BY <1>2, <1>3, <1>4, <1>5 DEF Next

\* An email row is never committed without its order and shipments, although they
\* are separate flushes, some rows are another sync's, and a unique key may fail
\* any of them.
THEOREM RecordsPersist == Spec => []RecordedIsPersisted
<1>1. Init => PersistInv
  BY DEF Init, PersistInv, InHand, Promised, Unstarted, Placeholders, Visible, RecordedIsPersisted, EmptyRows
<1>2. PersistInv => RecordedIsPersisted
  BY DEF PersistInv
<1> QED
  BY <1>1, <1>2, PersistKept, Invariant, PTL DEF Spec

=============================================================================
