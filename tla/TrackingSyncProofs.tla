------------------------- MODULE TrackingSyncProofs -------------------------
(***************************************************************************)
(* Proofs about TrackingSync, for any number of shipments, providers and   *)
(* concurrent requests.                                                    *)
(*                                                                         *)
(* None of the properties is inductive: a commit writes a draft that was   *)
(* made from copies read long before.  IndInv says of each open session    *)
(*   - that its draft carries the event, the notification and the date     *)
(*     that its status calls for (DraftHasEvent, DraftIsAnnounced,         *)
(*     DraftIsDated), and that its pending flags are those of shipments    *)
(*     that register() has returned for (PendingIsAccepted);               *)
(*   - that what it read and relies on cannot have been undone since: a    *)
(*     row that still exists keeps its history, and its date unless a      *)
(*     user has cleared it (ReadsHold), which needs that primary keys are  *)
(*     not given out twice (OnlyCreated).                                  *)
(* Frame and TableStep reduce the 23 actions to what they can do to a      *)
(* session and to the committed rows; the rest of the proof has one lemma  *)
(* per part of IndInv.                                                     *)
(*                                                                         *)
(* With IndInv every step is one of ShipmentHistory or leaves it alone     *)
(* (ShipmentHistoryImplemented): a commit is a Record, for whose date the  *)
(* draft must have a delivered event (DraftDateHasEvent).  DelaysAreUsers  *)
(* follows the statuses from the providers' tables to the rows.            *)
(***************************************************************************)
EXTENDS TrackingSync, TLAPS, WellFoundedInduction

\* A closed session is well typed.
LEMMA CloseTypes ==
    ASSUME TypeOK, NEW p \in Actors, Close(p)
    PROVE  /\ pc' \in [Actors -> PCs]
           /\ todo' \subseteq Shipments
           /\ cur' \in [Actors -> Shipments \cup {None}]
           /\ \A r \in Actors : pc'[r] \notin {"idle", "loop"} => cur'[r] \in Shipments
           /\ loaded' \in [Actors -> SUBSET Shipments]
           /\ copy' \in [Actors -> [Shipments -> Row]]
           /\ listed' \in [Actors -> SUBSET Shipments]
           /\ known' \in [Actors -> [Shipments -> SUBSET Event]]
           /\ pending' \in [Actors -> SUBSET Shipments]
           /\ reply' \in [Actors -> SUBSET Event]
           /\ draft' \in [Actors -> Draft]
BY DEF TypeOK, Close, PCs, Row, NewRow, Statuses, Draft, NoDraft

\* The history of a shipment is a set of events.
LEMMA HistoryType ==
    ASSUME TypeOK, NEW s \in Shipments
    PROVE  History(s) \in SUBSET Event
BY DEF TypeOK, History, Event, EventRow

\* A set of events has a latest one: the sorted list has an end.
LEMMA LatestExists ==
    ASSUME NEW E \in SUBSET Event, E # {}
    PROVE  Latest(E) # {}
<1> DEFINE T == {MaxTime - e.at : e \in E}
<1>1. \A e \in E : e.at \in 1 .. MaxTime
  BY DEF Event, Times
<1>2. T \subseteq Nat /\ T # {}
  BY <1>1, BoundsAssumption
<1> HIDE DEF T
<1>3. PICK x \in T : \A y \in T : ~ (<<y, x>> \in OpToRel(<, Nat))
  BY <1>2, NatLessThanWellFounded, WFMin
<1>4. \A y \in T : y \in Nat
  BY <1>2
<1>5. \A y \in T : ~ (y < x)
  BY <1>3, <1>4, Zenon DEF OpToRel
<1>6. PICK e \in E : x = MaxTime - e.at
  BY <1>3 DEF T
<1>7. \A f \in E : ~ (MaxTime - f.at < x)
  BY <1>5 DEF T
<1>8. \A f \in E : f.at <= e.at
  BY <1>1, <1>6, <1>7, BoundsAssumption
<1> QED
  BY <1>8 DEF Latest

\* The time of the latest event is a time.
LEMMA LatestAt ==
    ASSUME NEW E \in SUBSET Event, E # {}
    PROVE  (CHOOSE e \in Latest(E) : TRUE).at \in Times
<1>1. Latest(E) # {} /\ Latest(E) \subseteq Event
  BY LatestExists DEF Latest
<1>2. (CHOOSE e \in Latest(E) : TRUE) \in Event
  BY <1>1
<1> QED
  BY <1>2 DEF Event

\* A session that goes on after a failed call is well typed.
LEMMA HTTPErrorTypes ==
    ASSUME TypeOK, NEW p \in Actors, HTTPError(p)
    PROVE  /\ pc' \in [Actors -> PCs]
           /\ todo' \subseteq Shipments
           /\ cur' \in [Actors -> Shipments \cup {None}]
           /\ \A r \in Actors : pc'[r] \notin {"idle", "loop"} => cur'[r] \in Shipments
           /\ loaded' \in [Actors -> SUBSET Shipments]
           /\ copy' \in [Actors -> [Shipments -> Row]]
           /\ listed' \in [Actors -> SUBSET Shipments]
           /\ known' \in [Actors -> [Shipments -> SUBSET Event]]
           /\ pending' \in [Actors -> SUBSET Shipments]
           /\ reply' \in [Actors -> SUBSET Event]
           /\ draft' \in [Actors -> Draft]
           /\ failures' \in 0 .. MaxFailures
<1>1. failures' \in 0 .. MaxFailures
  BY BoundsAssumption DEF HTTPError, TypeOK
<1>2. CASE p # Tracker
  BY <1>1, <1>2, CloseTypes DEF HTTPError
<1>3. CASE p = Tracker
  BY <1>1, <1>3 DEF HTTPError, TypeOK, PCs
<1> QED
  BY <1>2, <1>3

\* What an update may enrol.
LEMMA EnrolmentsType ==
    ASSUME TypeOK, NEW p \in Actors, pc[p] = "update", NEW E \in Enrolments(cur[p]),
           enrolled' = [enrolled EXCEPT ![provider] = @ \cup E]
    PROVE  enrolled' \in [Providers -> SUBSET Shipments]
<1>1. cur[p] \in Shipments
  BY DEF TypeOK
<1>2. E \subseteq Shipments
  BY <1>1 DEF Enrolments
<1> QED
  BY <1>2 DEF TypeOK

\* Every step keeps the types.
LEMMA TypeStep ==
    ASSUME TypeOK, [Next]_vars
    PROVE  TypeOK'
<1> USE DEF worldVars, tableVars
<1>0. CASE UNCHANGED vars
  BY <1>0 DEF TypeOK, vars, sessionVars
<1>1. CASE Tick
  BY <1>1, BoundsAssumption DEF Tick, TypeOK, Times, sessionVars
<1>2. ASSUME NEW s \in Shipments, NEW e \in RawEvent, Report(s, e) PROVE TypeOK'
  BY <1>2 DEF Report, TypeOK, sessionVars
<1>3. ASSUME NEW q \in Providers, Reconfigure(q) PROVE TypeOK'
  BY <1>3, BoundsAssumption DEF Reconfigure, TypeOK, sessionVars
<1>4. ASSUME NEW s \in Shipments, NEW st \in CreateStatuses,
             CreateShipment(s, st)
      PROVE  TypeOK'
  <2>1. st \in Statuses
    BY EventsAssumption DEF Statuses, CreateStatuses
  <2> QED
    BY <1>4, <2>1 DEF CreateShipment, TypeOK, sessionVars, Row, NewRow
<1>5. ASSUME NEW s \in Shipments, NEW st \in ManualStatuses, UpdateStatus(s, st)
      PROVE  TypeOK'
  <2>1. st \in Statuses
    BY EventsAssumption
  <2>2. [status |-> st, at |-> now, by |-> None] \in EventRow
    BY <2>1 DEF EventRow, TypeOK
  <2>3. row' \in [Shipments -> Row]
    <3>1. row' = [row EXCEPT ![s] = [row[s] EXCEPT !.status = st, !.last = now]]
      BY <1>5 DEF UpdateStatus, TypeOK, Row
    <3>2. row[s] \in Row /\ now \in Times
      BY DEF TypeOK
    <3>3. [row[s] EXCEPT !.status = st, !.last = now] \in Row
      BY <2>1, <3>2 DEF Row
    <3> QED
      BY <3>1, <3>3 DEF TypeOK
  <2> QED
    BY <1>5, <2>2, <2>3 DEF UpdateStatus, TypeOK, sessionVars
<1>6. ASSUME NEW s \in Shipments, NEW d \in {now, None}, UpdateDeliveryDate(s, d)
      PROVE  TypeOK'
  <2>1. row[s] \in Row
    BY DEF TypeOK
  <2>2. row' \in [Shipments -> Row]
    <3>1. row' = [row EXCEPT ![s] = [row[s] EXCEPT !.delivery = d]]
      BY <1>6 DEF UpdateDeliveryDate, TypeOK, Row
    <3>2. [row[s] EXCEPT !.delivery = d] \in Row
      BY <1>6, <2>1 DEF Row, TypeOK
    <3> QED
      BY <3>1, <3>2 DEF TypeOK
  <2> QED
    BY <1>6, <2>2 DEF UpdateDeliveryDate, TypeOK, sessionVars
<1>7. ASSUME NEW s \in Shipments, DeleteShipment(s) PROVE TypeOK'
  BY <1>7 DEF DeleteShipment, TypeOK, sessionVars, Row, NewRow, Statuses
<1>8. CASE StartPass
  <2>1. ListNonTerminal \subseteq Shipments
    BY DEF ListNonTerminal, TypeOK
  <2>2. [s \in Shipments |-> IF s \in ListNonTerminal THEN row[s] ELSE NewRow]
          \in [Shipments -> Row]
    BY DEF TypeOK, Row, NewRow, Statuses
  <2>3. [s \in Shipments |-> IF s \in ListNonTerminal THEN History(s) ELSE {}]
          \in [Shipments -> SUBSET Event]
    BY HistoryType
  <2> QED
    BY <1>8, <2>1, <2>2, <2>3 DEF StartPass, TypeOK, PCs, Actors
<1>9. CASE EndPass
  BY <1>9, CloseTypes DEF EndPass, Abort, TypeOK, Actors
<1>10. ASSUME NEW s \in Shipments, Take(s) PROVE TypeOK'
  <2> DEFINE c == IF s \in loaded[Tracker] THEN copy[Tracker][s] ELSE row[s]
  <2>1. c \in Row
    BY DEF TypeOK, Actors
  <2> HIDE DEF c
  <2>2. copy' = [copy EXCEPT ![Tracker][s] = c]
    BY <1>10 DEF Take, c
  <2>3. pc' = [pc EXCEPT ![Tracker] = FirstCall(c.registered)]
    BY <1>10 DEF Take, c
  <2> QED
    BY <1>10, <2>1, <2>2, <2>3 DEF Take, TypeOK, PCs, FirstCall, Actors
<1>11. ASSUME NEW s \in Shipments, TakeRaises(s) PROVE TypeOK'
  BY <1>11, CloseTypes DEF TakeRaises, Abort, TypeOK, Actors
<1>12. ASSUME NEW p \in Requests, NEW s \in Shipments, RefreshTracking(p, s) PROVE TypeOK'
  BY <1>12, HistoryType DEF RefreshTracking, TypeOK, PCs, FirstCall, Actors
<1>13. ASSUME NEW p \in Actors, Register(p) PROVE TypeOK'
  <2>1. PICK E \in Registrations(cur[p]) : enrolled' = [enrolled EXCEPT ![provider] = @ \cup E]
    BY <1>13 DEF Register
  <2>2. cur[p] \in Shipments
    BY <1>13 DEF Register, TypeOK
  <2>3. enrolled' \in [Providers -> SUBSET Shipments]
    <3>1. E \subseteq Shipments
      BY <2>1, <2>2 DEF Registrations
    <3> QED
      BY <2>1, <3>1 DEF TypeOK
  <2> QED
    BY <1>13, <2>2, <2>3 DEF Register, TypeOK, PCs
<1>14. ASSUME NEW p \in Actors, RegisterFails(p) PROVE TypeOK'
  <2>1. PICK E \in {{}, {cur[p]}} : enrolled' = [enrolled EXCEPT ![provider] = @ \cup E]
    BY <1>14 DEF RegisterFails
  <2>2. E \subseteq Shipments
    <3>1. cur[p] \in Shipments
      BY <1>14 DEF RegisterFails, TypeOK
    <3> QED
      BY <2>1, <3>1
  <2>3. enrolled' \in [Providers -> SUBSET Shipments]
    BY <2>1, <2>2 DEF TypeOK
  <2> QED
    BY <1>14, <2>3, HTTPErrorTypes DEF RegisterFails, TypeOK
<1>15. ASSUME NEW p \in Actors, Update(p) PROVE TypeOK'
  <2>0. cur[p] \in Shipments
    BY <1>15 DEF Update, TypeOK
  <2> DEFINE Answer(E) == {[status |-> MapStatus(ProviderStatus(provider, e.raw)),
                            at |-> ParseTimestamp(e.at)] : e \in Reported(cur[p], E)}
  <2>1. PICK E \in Enrolments(cur[p]) :
          /\ enrolled' = [enrolled EXCEPT ![provider] = @ \cup E]
          /\ reply' = [reply EXCEPT ![p] = Answer(E)]
    BY <1>15 DEF Update
  <2>2. \A e \in RawEvent :
          [status |-> MapStatus(ProviderStatus(provider, e.raw)),
           at |-> ParseTimestamp(e.at)] \in Event
    BY DEF RawEvent, MapStatus, ParseTimestamp, Event, Statuses, TypeOK
  <2>3. Answer(E) \in SUBSET Event
    <3>1. Reported(cur[p], E) \subseteq RawEvent
      BY <2>0 DEF Reported, TypeOK
    <3> QED
      BY <2>2, <3>1
  <2>4. E \subseteq Shipments
    BY <2>0, <2>1 DEF Enrolments
  <2> HIDE DEF Answer
  <2>5. enrolled' \in [Providers -> SUBSET Shipments] /\ reply' \in [Actors -> SUBSET Event]
    BY <2>1, <2>3, <2>4 DEF TypeOK
  <2> QED
    BY <1>15, <2>5 DEF Update, TypeOK, PCs
<1>16. ASSUME NEW p \in Actors, UpdateRaises(p) PROVE TypeOK'
  <2>1. PICK E \in Enrolments(cur[p]) : enrolled' = [enrolled EXCEPT ![provider] = @ \cup E]
    BY <1>16 DEF UpdateRaises
  <2>2. enrolled' \in [Providers -> SUBSET Shipments]
    BY <1>16, <2>1, EnrolmentsType DEF UpdateRaises
  <2> QED
    BY <1>16, <2>2, CloseTypes DEF UpdateRaises, TypeOK
<1>17. ASSUME NEW p \in Actors, UpdateFails(p) PROVE TypeOK'
  <2>1. PICK E \in Enrolments(cur[p]) : enrolled' = [enrolled EXCEPT ![provider] = @ \cup E]
    BY <1>17 DEF UpdateFails
  <2>2. enrolled' \in [Providers -> SUBSET Shipments]
    BY <1>17, <2>1, EnrolmentsType DEF UpdateFails
  <2> QED
    BY <1>17, <2>2, HTTPErrorTypes DEF UpdateFails, TypeOK
<1>18. ASSUME NEW p \in Actors, Apply(p) PROVE TypeOK'
  <2>0. pc[p] = "apply"
    BY <1>18, Zenon DEF Apply
  <2>1. cur[p] \in Shipments /\ copy[p][cur[p]] \in Row
    BY <2>0 DEF TypeOK
  <2>2. Fresh(p) \in SUBSET Event
    BY DEF Fresh, TypeOK
  <2>3. DeliveryDate(p, Fresh(p)) \in Times \cup {None}
    <3> DEFINE D == {e \in Fresh(p) : e.status = "delivered"}
    <3>1. D \in SUBSET Event
      BY <2>2
    <3>2. DeliveryDate(p, Fresh(p)) = IF D # {} THEN (CHOOSE e \in Latest(D) : TRUE).at
                                               ELSE copy[p][cur[p]].delivery
      BY DEF DeliveryDate
    <3> HIDE DEF D
    <3>3. D # {} => (CHOOSE e \in Latest(D) : TRUE).at \in Times
      BY <3>1, LatestAt
    <3> QED
      BY <2>1, <3>2, <3>3 DEF Row
  <2>4. LastUpdate(p) \in Times \cup {None}
    <3>1. reply[p] # {} => (CHOOSE e \in Latest(reply[p]) : TRUE).at \in Times
      BY LatestAt DEF TypeOK
    <3> QED
      BY <2>1, <3>1 DEF LastUpdate, Row
  <2>5. PICK st \in IF Fresh(p) = {} THEN {copy[p][cur[p]].status}
                                   ELSE {e.status : e \in Latest(Fresh(p))} :
           /\ draft' = [draft EXCEPT ![p] =
                          [status |-> st, delivery |-> DeliveryDate(p, Fresh(p)),
                           last |-> LastUpdate(p), new |-> Fresh(p)]]
           /\ announced' = announced \cup Dispatched(p, st)
    BY <1>18 DEF Apply
  <2>6. st \in Statuses
    BY <2>1, <2>2, <2>5 DEF Latest, Event, Row
  <2>7. draft' \in [Actors -> Draft]
    BY <2>2, <2>3, <2>4, <2>5, <2>6 DEF TypeOK, Draft
  <2>8. announced' \subseteq Shipments \X Statuses
    BY <2>1, <2>5, <2>6 DEF TypeOK, Dispatched
  <2> QED
    BY <1>18, <2>7, <2>8 DEF Apply, TypeOK, PCs
<1>19. ASSUME NEW p \in Actors, Commit(p) PROVE TypeOK'
  <2>1. cur[p] \in Shipments /\ copy[p][cur[p]] \in Row /\ draft[p] \in Draft
    BY <1>19 DEF Commit, TypeOK
  <2>2. Written(p, row[cur[p]]) \in Row
    BY <2>1 DEF Written, Row, Draft, TypeOK
  <2>3. row' \in [Shipments -> Row]
    <3>2. row \in [Shipments -> Row]
      BY DEF TypeOK
    <3>1. ASSUME NEW s \in Shipments
          PROVE  [row[s] EXCEPT !.registered = TRUE] \in Row
      <4>1. row[s] \in Row
        BY <3>2
      <4> QED
        BY <4>1 DEF Row
    <3> QED
      BY <1>19, <2>2, <3>1, <3>2 DEF Commit
  <2>4. {[status |-> e.status, at |-> e.at, by |-> p] : e \in draft[p].new} \subseteq EventRow
    BY <2>1 DEF Draft, Event, EventRow
  <2>5. events' \in [Shipments -> SUBSET EventRow]
    BY <1>19, <2>1, <2>4 DEF Commit, TypeOK
  <2>6. /\ copy' \in [Actors -> [Shipments -> Row]]
        /\ known' \in [Actors -> [Shipments -> SUBSET Event]]
        /\ draft' \in [Actors -> Draft]
    BY <1>19 DEF Commit, TypeOK, Row, NewRow, Draft, NoDraft, Statuses
  <2> QED
    BY <1>19, <2>3, <2>5, <2>6 DEF Commit, TypeOK, PCs
<1>20. ASSUME NEW p \in Actors, CommitRaises(p) PROVE TypeOK'
  BY <1>20, CloseTypes DEF CommitRaises, Abort, TypeOK
<1>21. ASSUME NEW p \in Actors, Refresh(p) PROVE TypeOK'
  BY <1>21, CloseTypes DEF Refresh, TypeOK, PCs
<1>22. ASSUME NEW p \in Actors, RefreshRaises(p) PROVE TypeOK'
  BY <1>22, CloseTypes DEF RefreshRaises, Abort, TypeOK
<1>23. ASSUME NEW p \in Actors, Fail(p) PROVE TypeOK'
  BY <1>23, CloseTypes, BoundsAssumption DEF Fail, TypeOK
<1> QED
  BY <1>0, <1>1, <1>2, <1>3, <1>4, <1>5, <1>6, <1>7, <1>8, <1>9, <1>10, <1>11, <1>12,
     <1>13, <1>14, <1>15, <1>16, <1>17, <1>18, <1>19, <1>20, <1>21, <1>22, <1>23
     DEF Next, PassStep, SyncStep
-----------------------------------------------------------------------------
(* What any step may do to a session and to the world outside.             *)

Busy(p) == pc[p] \notin {"idle", "loop"}

Outside ==
    /\ accepted \subseteq accepted'
    /\ announced \subseteq announced'
    /\ created \subseteq created'

Inside(p) ==
    /\ pending'[p] \subseteq pending[p] \cup accepted'
    /\ pc'[p] = "apply" => Update(p) \/ (pc[p] = "apply" /\ reply'[p] = reply[p])
    /\ pc'[p] = "commit" =>
         \/ Apply(p)
         \/ /\ pc[p] = "commit"
            /\ cur'[p] = cur[p] /\ copy'[p] = copy[p]
            /\ draft'[p] = draft[p] /\ reply'[p] = reply[p]
    /\ \A s \in Shipments :
         \/ copy'[p][s] \in {copy[p][s], NewRow}
         \/ s \in exists /\ copy'[p][s] = row[s]
    /\ \A s \in Shipments :
         \/ known'[p][s] \in {known[p][s], {}}
         \/ s \in exists /\ known'[p][s] = History(s)
    /\ loaded'[p] \subseteq loaded[p] \cup exists
    /\ Busy(p)' => (Busy(p) /\ cur'[p] = cur[p]) \/ cur'[p] \in loaded[p] \cup exists

\* The session of an actor that takes no step.
LEMMA Idle ==
    ASSUME TypeOK, NEW p \in Actors,
           pc'[p] = pc[p], cur'[p] = cur[p], loaded'[p] = loaded[p], copy'[p] = copy[p],
           known'[p] = known[p], pending'[p] = pending[p], reply'[p] = reply[p],
           draft'[p] = draft[p]
    PROVE  Inside(p)
BY DEF Inside, Busy

\* Closing a session.
LEMMA CloseInside ==
    ASSUME TypeOK, NEW p \in Actors, Close(p), NEW r \in Actors
    PROVE  Inside(r)
<1>1. CASE r = p
  BY <1>1 DEF TypeOK, Close, Inside, Busy
<1>2. CASE r # p
  BY <1>2, Idle DEF TypeOK, Close
<1> QED
  BY <1>1, <1>2

\* A failed call.
LEMMA HTTPErrorInside ==
    ASSUME TypeOK, NEW p \in Actors, HTTPError(p), NEW r \in Actors
    PROVE  Inside(r)
<1>1. CASE p # Tracker
  BY <1>1, CloseInside DEF HTTPError
<1>2. CASE p = Tracker /\ r = p
  BY <1>2 DEF TypeOK, HTTPError, Inside, Busy
<1>3. CASE p = Tracker /\ r # p
  BY <1>3, Idle DEF TypeOK, HTTPError
<1> QED
  BY <1>1, <1>2, <1>3

\* Every action of Next, reduced to what it does to one session.
LEMMA Frame ==
    ASSUME TypeOK, [Next]_vars, NEW r \in Actors
    PROVE  Outside /\ Inside(r)
<1> USE DEF worldVars, tableVars, Outside
<1>0. CASE UNCHANGED vars
  BY <1>0, Idle DEF vars, sessionVars
<1>1. CASE Tick
  BY <1>1, Idle DEF Tick, sessionVars
<1>2. ASSUME NEW s \in Shipments, NEW e \in RawEvent, Report(s, e) PROVE Outside /\ Inside(r)
  BY <1>2, Idle DEF Report, sessionVars
<1>3. ASSUME NEW q \in Providers, Reconfigure(q) PROVE Outside /\ Inside(r)
  BY <1>3, Idle DEF Reconfigure, sessionVars
<1>4. ASSUME NEW s \in Shipments, NEW st \in CreateStatuses,
             CreateShipment(s, st)
      PROVE  Outside /\ Inside(r)
  BY <1>4, Idle DEF CreateShipment, sessionVars
<1>5. ASSUME NEW s \in Shipments, NEW st \in ManualStatuses, UpdateStatus(s, st)
      PROVE  Outside /\ Inside(r)
  BY <1>5, Idle DEF UpdateStatus, sessionVars
<1>6. ASSUME NEW s \in Shipments, NEW d \in {now, None}, UpdateDeliveryDate(s, d)
      PROVE  Outside /\ Inside(r)
  BY <1>6, Idle DEF UpdateDeliveryDate, sessionVars
<1>7. ASSUME NEW s \in Shipments, DeleteShipment(s) PROVE Outside /\ Inside(r)
  BY <1>7, Idle DEF DeleteShipment, sessionVars
<1>8. CASE StartPass
  <2>1. CASE r = Tracker
    BY <1>8, <2>1 DEF StartPass, Inside, Busy, TypeOK, ListNonTerminal
  <2>2. CASE r # Tracker
    BY <1>8, <2>2, Idle DEF StartPass, TypeOK
  <2> QED
    BY <1>8, <2>1, <2>2 DEF StartPass
<1>9. CASE EndPass
  BY <1>9, CloseInside DEF EndPass, Abort, Actors
<1>10. ASSUME NEW s \in Shipments, Take(s) PROVE Outside /\ Inside(r)
  <2>1. CASE r = Tracker
    BY <1>10, <2>1 DEF Take, Inside, Busy, TypeOK, FirstCall
  <2>2. CASE r # Tracker
    BY <1>10, <2>2, Idle DEF Take, TypeOK
  <2> QED
    BY <1>10, <2>1, <2>2 DEF Take
<1>11. ASSUME NEW s \in Shipments, TakeRaises(s) PROVE Outside /\ Inside(r)
  BY <1>11, CloseInside DEF TakeRaises, Abort, Actors
<1>12. ASSUME NEW p \in Requests, NEW s \in Shipments, RefreshTracking(p, s)
       PROVE  Outside /\ Inside(r)
  <2>1. CASE r = p
    BY <1>12, <2>1 DEF RefreshTracking, Inside, Busy, TypeOK, FirstCall
  <2>2. CASE r # p
    BY <1>12, <2>2, Idle DEF RefreshTracking, TypeOK, Actors
  <2> QED
    BY <1>12, <2>1, <2>2 DEF RefreshTracking
<1>13. ASSUME NEW p \in Actors, Register(p) PROVE Outside /\ Inside(r)
  <2>1. CASE r = p
    BY <1>13, <2>1 DEF Register, Inside, Busy, TypeOK
  <2>2. CASE r # p
    BY <1>13, <2>2, Idle DEF Register, TypeOK
  <2>3. Outside
    BY <1>13 DEF Register, TypeOK
  <2> QED
    BY <2>1, <2>2, <2>3
<1>14. ASSUME NEW p \in Actors, RegisterFails(p) PROVE Outside /\ Inside(r)
  BY <1>14, HTTPErrorInside DEF RegisterFails
<1>15. ASSUME NEW p \in Actors, Update(p) PROVE Outside /\ Inside(r)
  <2>0. \E A : reply' = [reply EXCEPT ![p] = A]
    BY <1>15, Zenon DEF Update
  <2>1. CASE r = p
    BY <1>15, <2>1 DEF Update, Inside, Busy, TypeOK
  <2>2. CASE r # p
    BY <1>15, <2>0, <2>2, Idle DEF Update, TypeOK
  <2>3. Outside
    BY <1>15 DEF Update, TypeOK
  <2> QED
    BY <2>1, <2>2, <2>3
<1>16. ASSUME NEW p \in Actors, UpdateRaises(p) PROVE Outside /\ Inside(r)
  <2>1. Outside
    BY <1>16 DEF UpdateRaises, TypeOK
  <2> QED
    BY <1>16, <2>1, CloseInside DEF UpdateRaises
<1>17. ASSUME NEW p \in Actors, UpdateFails(p) PROVE Outside /\ Inside(r)
  BY <1>17, HTTPErrorInside DEF UpdateFails
<1>18. ASSUME NEW p \in Actors, Apply(p) PROVE Outside /\ Inside(r)
  <2>0. /\ pc[p] = "apply" /\ pc' = [pc EXCEPT ![p] = "commit"]
        /\ UNCHANGED <<accepted, created, cur, loaded, copy, known, pending, reply>>
    BY <1>18, Zenon DEF Apply
  <2>1. /\ announced \subseteq announced'
        /\ r # p => draft'[r] = draft[r]
    <3>1. PICK d, st : /\ draft' = [draft EXCEPT ![p] = d]
                       /\ announced' = announced \cup Dispatched(p, st)
      BY <1>18, Zenon DEF Apply
    <3> QED
      BY <3>1 DEF TypeOK
  <2>2. CASE r = p
    BY <1>18, <2>0, <2>1, <2>2 DEF Inside, Busy, TypeOK
  <2>3. CASE r # p
    BY <2>0, <2>1, <2>3, Idle DEF TypeOK
  <2> QED
    BY <2>0, <2>1, <2>2, <2>3
<1>19. ASSUME NEW p \in Actors, Commit(p) PROVE Outside /\ Inside(r)
  <2>0. /\ pc' = [pc EXCEPT ![p] = "refresh"] /\ pc[p] = "commit"
        /\ pending' = [pending EXCEPT ![p] = {}]
        /\ loaded' = [loaded EXCEPT ![p] = {}]
        /\ copy' = [copy EXCEPT ![p] = [s \in Shipments |-> NewRow]]
        /\ known' = [known EXCEPT ![p] = [s \in Shipments |-> {}]]
        /\ reply' = [reply EXCEPT ![p] = {}]
        /\ draft' = [draft EXCEPT ![p] = NoDraft]
        /\ UNCHANGED <<cur, created, accepted, announced>>
    BY <1>19, Zenon DEF Commit
  <2>1. CASE r = p
    BY <2>0, <2>1 DEF Inside, Busy, TypeOK
  <2>2. CASE r # p
    BY <2>0, <2>2, Idle DEF TypeOK
  <2> QED
    BY <2>0, <2>1, <2>2
<1>20. ASSUME NEW p \in Actors, CommitRaises(p) PROVE Outside /\ Inside(r)
  BY <1>20, CloseInside DEF CommitRaises, Abort
<1>21. ASSUME NEW p \in Actors, Refresh(p) PROVE Outside /\ Inside(r)
  <2>1. CASE p # Tracker
    BY <1>21, <2>1, CloseInside DEF Refresh
  <2>2. CASE p = Tracker /\ r = p
    BY <1>21, <2>2 DEF Refresh, Inside, Busy, TypeOK
  <2>3. CASE p = Tracker /\ r # p
    BY <1>21, <2>3, Idle DEF Refresh, TypeOK
  <2> QED
    BY <1>21, <2>1, <2>2, <2>3 DEF Refresh
<1>22. ASSUME NEW p \in Actors, RefreshRaises(p) PROVE Outside /\ Inside(r)
  BY <1>22, CloseInside DEF RefreshRaises, Abort
<1>23. ASSUME NEW p \in Actors, Fail(p) PROVE Outside /\ Inside(r)
  BY <1>23, CloseInside DEF Fail
<1> QED
  BY <1>0, <1>1, <1>2, <1>3, <1>4, <1>5, <1>6, <1>7, <1>8, <1>9, <1>10, <1>11, <1>12,
     <1>13, <1>14, <1>15, <1>16, <1>17, <1>18, <1>19, <1>20, <1>21, <1>22, <1>23
     DEF Next, PassStep, SyncStep

\* The steps that change committed rows.
LEMMA TableStep ==
    ASSUME [Next]_vars
    PROVE  \/ UNCHANGED tableVars
           \/ \E s \in Shipments, st \in CreateStatuses : CreateShipment(s, st)
           \/ \E s \in Shipments, st \in ManualStatuses : UpdateStatus(s, st)
           \/ \E s \in Shipments, d \in {now, None} : UpdateDeliveryDate(s, d)
           \/ \E s \in Shipments : DeleteShipment(s)
           \/ \E p \in Actors : Commit(p)
BY DEF Next, vars, PassStep, SyncStep, Tick, Report, Reconfigure, StartPass, EndPass, Take,
       TakeRaises, RefreshTracking, Register, RegisterFails, Update, UpdateRaises, UpdateFails,
       Apply, CommitRaises, Refresh, RefreshRaises, Fail, Abort

-----------------------------------------------------------------------------
(* The inductive invariant.                                                *)

PendingIsAccepted == \A p \in Actors : pending[p] \subseteq accepted

Changes(p) == draft[p].status # copy[p][cur[p]].status

DraftHasEvent ==
    \A p \in Actors : pc[p] = "commit" /\ Changes(p) =>
        \E e \in draft[p].new : e.status = draft[p].status

DraftIsDated ==
    \A p \in Actors : pc[p] = "commit" =>
        /\ Changes(p) /\ draft[p].status = "delivered" => draft[p].delivery # None
        /\ draft[p].delivery # copy[p][cur[p]].delivery => draft[p].delivery # None

DraftDateHasEvent ==
    \A p \in Actors : pc[p] = "commit" /\ draft[p].delivery # copy[p][cur[p]].delivery =>
        \E e \in draft[p].new : e.status = "delivered" /\ e.at = draft[p].delivery

DraftIsAnnounced ==
    \A p \in Actors : pc[p] = "commit" /\ Changes(p) /\ draft[p].status \in NotifyOnStatuses =>
        <<cur[p], draft[p].status>> \in announced

\* No session has heard of a primary key that was not given out.
OnlyCreated ==
    \A p \in Actors :
        /\ Busy(p) => cur[p] \in created
        /\ loaded[p] \subseteq created
        /\ \A s \in Shipments \ created : copy[p][s].delivery = None /\ known[p][s] = {}

\* What a session has read still holds of a row that still exists.
ReadsHold ==
    \A p \in Actors : \A s \in exists :
        /\ copy[p][s].delivery # None => row[s].delivery # None \/ s \in cleared
        /\ known[p][s] \subseteq History(s)

ReplyIsCovered ==
    \A p \in Actors : pc[p] = "commit" /\ cur[p] \in exists =>
        reply[p] \subseteq draft[p].new \cup History(cur[p])

IndInv ==
    /\ TypeOK
    /\ PendingIsAccepted /\ RegisteredIsAccepted
    /\ DraftHasEvent /\ StatusHasEvent
    /\ DraftIsAnnounced /\ StatusIsAnnounced
    /\ OnlyCreated /\ ReadsHold
    /\ DraftIsDated /\ DraftDateHasEvent /\ DeliveredIsDated
    /\ ReplyIsCovered

-----------------------------------------------------------------------------
(* What Apply puts in the draft and what Commit writes.                    *)

\* The draft that Apply makes.
LEMMA ApplyDraft ==
    ASSUME TypeOK, NEW p \in Actors, Apply(p)
    PROVE  /\ cur[p] \in Shipments
           /\ UNCHANGED <<tableVars, cur, copy, reply, known>>
           /\ draft'[p].new = Fresh(p)
           /\ Changes(p)' => \E e \in Fresh(p) : e.status = draft'[p].status
           /\ Changes(p)' /\ draft'[p].status \in NotifyOnStatuses =>
                <<cur[p], draft'[p].status>> \in announced'
           /\ Changes(p)' /\ draft'[p].status = "delivered" => draft'[p].delivery # None
           /\ draft'[p].delivery # copy[p][cur[p]].delivery => draft'[p].delivery # None
           /\ draft'[p].delivery # copy[p][cur[p]].delivery =>
                \E e \in Fresh(p) : e.status = "delivered" /\ e.at = draft'[p].delivery
<1>1. /\ pc[p] = "apply"
      /\ UNCHANGED <<tableVars, cur, copy, reply, known>>
  BY Zenon DEF Apply, tableVars
<1>2. cur[p] \in Shipments
  BY <1>1 DEF TypeOK
<1>3. PICK st \in IF Fresh(p) = {} THEN {copy[p][cur[p]].status}
                                   ELSE {e.status : e \in Latest(Fresh(p))} :
         /\ draft' = [draft EXCEPT ![p] =
                        [status |-> st, delivery |-> DeliveryDate(p, Fresh(p)),
                         last |-> LastUpdate(p), new |-> Fresh(p)]]
         /\ announced' = announced \cup Dispatched(p, st)
  BY DEF Apply
<1>4. /\ draft'[p].status = st
      /\ draft'[p].new = Fresh(p)
      /\ draft'[p].delivery = DeliveryDate(p, Fresh(p))
  BY <1>3 DEF TypeOK
<1>5. Changes(p)' <=> st # copy[p][cur[p]].status
  BY <1>1, <1>4 DEF Changes
<1>6. st # copy[p][cur[p]].status => \E e \in Fresh(p) : e.status = st
  BY <1>3 DEF Latest
<1>7. st # copy[p][cur[p]].status /\ st \in NotifyOnStatuses => <<cur[p], st>> \in announced'
  BY <1>3 DEF Dispatched
<1>8. st # copy[p][cur[p]].status /\ st = "delivered" => DeliveryDate(p, Fresh(p)) # None
  <2> SUFFICES ASSUME st # copy[p][cur[p]].status, st = "delivered"
               PROVE  DeliveryDate(p, Fresh(p)) # None
    OBVIOUS
  <2> DEFINE D == {e \in Fresh(p) : e.status = "delivered"}
  <2>1. D \in SUBSET Event /\ D # {}
    BY <1>6 DEF Fresh, TypeOK
  <2>2. D # {} => DeliveryDate(p, Fresh(p)) = (CHOOSE e \in Latest(D) : TRUE).at
    BY DEF DeliveryDate
  <2> HIDE DEF D
  <2>3. DeliveryDate(p, Fresh(p)) \in Times
    BY <2>1, <2>2, LatestAt
  <2> QED
    BY <2>3, TimesAssumption DEF Times
<1>9. DeliveryDate(p, Fresh(p)) # copy[p][cur[p]].delivery => DeliveryDate(p, Fresh(p)) # None
  <2> DEFINE D == {e \in Fresh(p) : e.status = "delivered"}
  <2>1. D \in SUBSET Event
    BY DEF Fresh, TypeOK
  <2>2. DeliveryDate(p, Fresh(p)) = IF D # {} THEN (CHOOSE e \in Latest(D) : TRUE).at
                                             ELSE copy[p][cur[p]].delivery
    BY DEF DeliveryDate
  <2> HIDE DEF D
  <2>3. D # {} => DeliveryDate(p, Fresh(p)) \in Times
    BY <2>1, <2>2, LatestAt
  <2> QED
    BY <2>2, <2>3, TimesAssumption DEF Times
<1>10. DeliveryDate(p, Fresh(p)) # copy[p][cur[p]].delivery =>
         \E e \in Fresh(p) : e.status = "delivered" /\ e.at = DeliveryDate(p, Fresh(p))
  <2> DEFINE D == {e \in Fresh(p) : e.status = "delivered"}
  <2>1. D \in SUBSET Event
    BY DEF Fresh, TypeOK
  <2>2. DeliveryDate(p, Fresh(p)) = IF D # {} THEN (CHOOSE e \in Latest(D) : TRUE).at
                                             ELSE copy[p][cur[p]].delivery
    BY DEF DeliveryDate
  <2>3. \A e \in D : e \in Fresh(p) /\ e.status = "delivered"
    OBVIOUS
  <2> HIDE DEF D
  <2>4. D # {} => (CHOOSE e \in Latest(D) : TRUE) \in D
    BY <2>1, LatestExists DEF Latest
  <2> QED
    BY <2>2, <2>3, <2>4
<1> QED
  BY <1>1, <1>2, <1>4, <1>5, <1>6, <1>7, <1>8, <1>9, <1>10

\* The columns that PATCH changes and leaves.
LEMMA UpdateStatusRow ==
    ASSUME TypeOK, NEW t \in Shipments, NEW st, UpdateStatus(t, st), NEW s \in Shipments
    PROVE  /\ row'[s].status = IF s = t THEN st ELSE row[s].status
           /\ row'[s].registered = row[s].registered
           /\ row'[s].delivery = row[s].delivery
<1>1. row \in [Shipments -> Row]
  BY DEF TypeOK
<1>2. row' = [row EXCEPT ![t] = [row[t] EXCEPT !.status = st, !.last = now]]
  BY <1>1 DEF UpdateStatus, Row
<1>3. row[t] \in Row
  BY <1>1
<1>4. row'[t] = [row[t] EXCEPT !.status = st, !.last = now]
  BY <1>1, <1>2
<1>5. CASE s = t
  BY <1>3, <1>4, <1>5 DEF Row
<1>6. CASE s # t
  BY <1>1, <1>2, <1>6
<1> QED
  BY <1>5, <1>6

\* The columns that a PATCH of the date changes and leaves.
LEMMA UpdateDeliveryRow ==
    ASSUME TypeOK, NEW t \in Shipments, NEW d \in {now, None}, UpdateDeliveryDate(t, d),
           NEW s \in Shipments
    PROVE  /\ row'[s].status = row[s].status
           /\ row'[s].registered = row[s].registered
           /\ row'[s].delivery = IF s = t THEN d ELSE row[s].delivery
<1>1. row \in [Shipments -> Row]
  BY DEF TypeOK
<1>2. row' = [row EXCEPT ![t] = [row[t] EXCEPT !.delivery = d]]
  BY <1>1 DEF UpdateDeliveryDate, Row
<1>3. row[t] \in Row
  BY <1>1
<1>4. row'[t] = [row[t] EXCEPT !.delivery = d]
  BY <1>1, <1>2
<1>5. CASE s = t
  BY <1>3, <1>4, <1>5 DEF Row
<1>6. CASE s # t
  BY <1>1, <1>2, <1>6
<1> QED
  BY <1>5, <1>6

\* The columns and events that a commit writes.
LEMMA CommitRows ==
    ASSUME TypeOK, NEW p \in Actors, Commit(p)
    PROVE  /\ pc[p] = "commit" /\ cur[p] \in Shipments
           /\ UNCHANGED <<exists, created, initial, announced, accepted>>
           /\ \A s \in Shipments :
                /\ row'[s].registered => row[s].registered \/ s \in pending[p]
                /\ row'[s].status # row[s].status =>
                     s = cur[p] /\ Changes(p) /\ row'[s].status = draft[p].status
                /\ row'[s].delivery # row[s].delivery =>
                     /\ s = cur[p] /\ row'[s].delivery = draft[p].delivery
                     /\ draft[p].delivery # copy[p][s].delivery
                /\ events[s] \subseteq events'[s]
           /\ cur[p] \in exists /\ Changes(p) => row'[cur[p]].status = draft[p].status
           /\ cur[p] \in exists =>
                \/ row'[cur[p]].delivery = draft[p].delivery
                \/ draft[p].delivery = copy[p][cur[p]].delivery
                   /\ row'[cur[p]].delivery = row[cur[p]].delivery
           /\ cleared' = cleared \ {s \in {cur[p]} : draft[p].delivery # copy[p][s].delivery}
           /\ \A e \in draft[p].new :
                [status |-> e.status, at |-> e.at, by |-> p] \in events'[cur[p]]
<1>1. /\ pc[p] = "commit"
      /\ UNCHANGED <<exists, created, initial, announced, accepted>>
      /\ cleared' = cleared \ {s \in {cur[p]} : draft[p].delivery # copy[p][s].delivery}
      /\ row' = [s \in Shipments |->
                 CASE s = cur[p] /\ s \in exists -> Written(p, row[s])
                   [] s # cur[p] /\ s \in pending[p] -> [row[s] EXCEPT !.registered = TRUE]
                   [] OTHER -> row[s]]
      /\ events' = [events EXCEPT ![cur[p]] = @ \cup
                    {[status |-> e.status, at |-> e.at, by |-> p] : e \in draft[p].new}]
  BY Zenon DEF Commit, worldVars
<1>2. cur[p] \in Shipments
  BY <1>1 DEF TypeOK
<1>3. cur[p] \in exists => row'[cur[p]] = Written(p, row[cur[p]])
  BY <1>1, <1>2
<1>4. ASSUME NEW s \in Shipments
      PROVE  /\ s = cur[p] /\ s \notin exists => row'[s] = row[s]
             /\ s # cur[p] /\ s \notin pending[p] => row'[s] = row[s]
             /\ s # cur[p] /\ s \in pending[p] =>
                  row'[s].status = row[s].status /\ row'[s].delivery = row[s].delivery
  <2>1. row[s] \in Row
    BY DEF TypeOK
  <2> QED
    BY <1>1, <2>1 DEF Row
<1>5. LET w == Written(p, row[cur[p]]) IN
      /\ w.registered => row[cur[p]].registered \/ cur[p] \in pending[p]
      /\ w.status = IF Changes(p) THEN draft[p].status ELSE row[cur[p]].status
      /\ w.delivery = IF draft[p].delivery # copy[p][cur[p]].delivery
                      THEN draft[p].delivery ELSE row[cur[p]].delivery
  BY DEF Written, Changes
<1>6. ASSUME NEW s \in Shipments
      PROVE  /\ row'[s].registered => row[s].registered \/ s \in pending[p]
             /\ row'[s].status # row[s].status =>
                  s = cur[p] /\ Changes(p) /\ row'[s].status = draft[p].status
             /\ row'[s].delivery # row[s].delivery =>
                  /\ s = cur[p] /\ row'[s].delivery = draft[p].delivery
                  /\ draft[p].delivery # copy[p][s].delivery
  BY <1>3, <1>4, <1>5
<1>7. \A s \in Shipments : events[s] \subseteq events'[s]
  BY <1>1 DEF TypeOK
<1>8. \A e \in draft[p].new :
        [status |-> e.status, at |-> e.at, by |-> p] \in events'[cur[p]]
  BY <1>1, <1>2 DEF TypeOK
<1> QED
  BY <1>1, <1>2, <1>3, <1>5, <1>6, <1>7, <1>8

-----------------------------------------------------------------------------
(* Every step keeps the invariant: one lemma per pair of a property and    *)
(* what it needs to know of the open sessions.                             *)

\* The flag is only ever set for shipments that register() has returned for.
LEMMA AcceptedKept ==
    ASSUME IndInv, [Next]_vars
    PROVE  PendingIsAccepted' /\ RegisteredIsAccepted'
<1> USE DEF IndInv, PendingIsAccepted, RegisteredIsAccepted
<1>1. accepted \subseteq accepted'
  <2>1. PICK r \in Actors : TRUE
    BY DEF Actors
  <2> QED
    BY <2>1, Frame DEF Outside
<1>2. PendingIsAccepted'
  BY <1>1, Frame DEF Inside
<1>3. RegisteredIsAccepted'
  <2> SUFFICES ASSUME NEW s \in exists', row'[s].registered
               PROVE  s \in accepted'
    OBVIOUS
  <2>0. s \in Shipments
    BY TypeStep DEF TypeOK
  <2>1. CASE UNCHANGED tableVars
    BY <1>1, <2>1 DEF tableVars
  <2>2. ASSUME NEW t \in Shipments, NEW st \in CreateStatuses,
               CreateShipment(t, st)
        PROVE  s \in accepted'
    BY <1>1, <2>0, <2>2 DEF CreateShipment, TypeOK, NewRow
  <2>3. ASSUME NEW t \in Shipments, NEW st \in ManualStatuses, UpdateStatus(t, st)
        PROVE  s \in accepted'
    BY <1>1, <2>0, <2>3, UpdateStatusRow DEF UpdateStatus
  <2>4. ASSUME NEW t \in Shipments, NEW d \in {now, None}, UpdateDeliveryDate(t, d)
        PROVE  s \in accepted'
    BY <1>1, <2>0, <2>4, UpdateDeliveryRow DEF UpdateDeliveryDate
  <2>5. ASSUME NEW t \in Shipments, DeleteShipment(t) PROVE s \in accepted'
    BY <1>1, <2>0, <2>5 DEF DeleteShipment, TypeOK
  <2>6. ASSUME NEW p \in Actors, Commit(p) PROVE s \in accepted'
    BY <1>1, <2>0, <2>6, CommitRows
  <2> QED
    BY <2>1, <2>2, <2>3, <2>4, <2>5, <2>6, TableStep
<1> QED
  BY <1>2, <1>3

\* A draft stays what Apply made it until it is committed.
LEMMA DraftsKept ==
    ASSUME IndInv, [Next]_vars
    PROVE  DraftHasEvent' /\ DraftIsAnnounced' /\ DraftIsDated' /\ DraftDateHasEvent'
<1> SUFFICES ASSUME NEW p \in Actors, pc'[p] = "commit"
             PROVE  /\ Changes(p)' => \E e \in draft'[p].new : e.status = draft'[p].status
                    /\ Changes(p)' /\ draft'[p].status \in NotifyOnStatuses =>
                         <<cur'[p], draft'[p].status>> \in announced'
                    /\ Changes(p)' /\ draft'[p].status = "delivered" =>
                         draft'[p].delivery # None
                    /\ draft'[p].delivery # copy'[p][cur'[p]].delivery =>
                         /\ draft'[p].delivery # None
                         /\ \E e \in draft'[p].new :
                              e.status = "delivered" /\ e.at = draft'[p].delivery
  BY DEF DraftHasEvent, DraftIsAnnounced, DraftIsDated, DraftDateHasEvent
<1>1. CASE Apply(p)
  BY <1>1, ApplyDraft DEF IndInv
<1>2. CASE /\ pc[p] = "commit"
           /\ cur'[p] = cur[p] /\ copy'[p] = copy[p]
           /\ draft'[p] = draft[p]
  <2>1. Changes(p)' = Changes(p)
    BY <1>2 DEF Changes
  <2>2. announced \subseteq announced'
    BY Frame DEF IndInv, Outside
  <2> QED
    BY <1>2, <2>1, <2>2
       DEF IndInv, DraftHasEvent, DraftIsAnnounced, DraftIsDated, DraftDateHasEvent
<1> QED
  BY <1>1, <1>2, Frame DEF IndInv, Inside

\* The status of a row, and what explains, announces and dates it.
LEMMA StatusKept ==
    ASSUME IndInv, [Next]_vars
    PROVE  StatusHasEvent' /\ StatusIsAnnounced' /\ DeliveredIsDated'
<1> DEFINE Good(s) ==
      /\ row[s].status = initial[s] \/ \E e \in events[s] : e.status = row[s].status
      /\ row[s].status \in NotifyOnStatuses =>
           <<s, row[s].status>> \in announced \/ SetByUser(s, row[s].status)
      /\ row[s].status = "delivered" =>
           row[s].delivery # None \/ SetByUser(s, "delivered") \/ s \in cleared
<1> SUFFICES ASSUME NEW s \in exists'
             PROVE  Good(s)'
  BY DEF StatusHasEvent, StatusIsAnnounced, DeliveredIsDated
<1>0. s \in Shipments /\ (s \in exists => Good(s))
  BY TypeStep DEF IndInv, TypeOK, StatusHasEvent, StatusIsAnnounced, DeliveredIsDated
<1>00. announced \subseteq announced'
  <2>1. PICK r \in Actors : TRUE
    BY DEF Actors
  <2> QED
    BY <2>1, Frame DEF IndInv, Outside
<1>1. CASE UNCHANGED tableVars
  BY <1>0, <1>00, <1>1 DEF tableVars, SetByUser
<1>2. ASSUME NEW t \in Shipments, NEW st \in CreateStatuses,
             CreateShipment(t, st)
      PROVE  Good(s)'
  BY <1>0, <1>00, <1>2 DEF CreateShipment, IndInv, TypeOK, NewRow, SetByUser
<1>3. ASSUME NEW t \in Shipments, NEW st \in ManualStatuses, UpdateStatus(t, st)
      PROVE  Good(s)'
  <2>1. s \in exists
    BY <1>3 DEF UpdateStatus
  <2>2. CASE s = t
    <3>1. row'[s].status = st
      BY <1>0, <1>3, <2>2 DEF UpdateStatus, IndInv, TypeOK, Row
    <3>2. [status |-> st, at |-> now, by |-> None] \in events'[s]
      BY <1>0, <1>3, <2>2 DEF UpdateStatus, IndInv, TypeOK
    <3> QED
      BY <3>1, <3>2 DEF SetByUser
  <2>3. CASE s # t
    BY <1>0, <1>00, <1>3, <2>1, <2>3 DEF UpdateStatus, IndInv, TypeOK, SetByUser
  <2> QED
    BY <2>2, <2>3
<1>4. ASSUME NEW t \in Shipments, NEW d \in {now, None}, UpdateDeliveryDate(t, d)
      PROVE  Good(s)'
  <2>1. s \in exists /\ events' = events /\ initial' = initial
    BY <1>4 DEF UpdateDeliveryDate
  <2>2. /\ row'[s].status = row[s].status
        /\ row'[s].delivery = IF s = t THEN d ELSE row[s].delivery
    BY <1>0, <1>4, UpdateDeliveryRow DEF IndInv
  <2>3. \/ row'[s].delivery # None \/ s \in cleared'
        \/ row'[s].delivery = row[s].delivery /\ s \notin cleared
    BY <1>4, <2>2 DEF UpdateDeliveryDate
  <2> QED
    BY <1>0, <1>00, <2>1, <2>2, <2>3 DEF SetByUser
<1>5. ASSUME NEW t \in Shipments, DeleteShipment(t) PROVE Good(s)'
  BY <1>0, <1>00, <1>5 DEF DeleteShipment, IndInv, TypeOK, SetByUser
<1>6. ASSUME NEW p \in Actors, Commit(p) PROVE Good(s)'
  <2>1. s \in exists /\ initial' = initial /\ events[s] \subseteq events'[s]
    BY <1>0, <1>6, CommitRows DEF IndInv
  <2>2. \A st : SetByUser(s, st) => SetByUser(s, st)'
    BY <2>1 DEF SetByUser
  <2>3. CASE s = cur[p] /\ Changes(p)
    <3>1. row'[s].status = draft[p].status /\ pc[p] = "commit"
      BY <1>6, <2>1, <2>3, CommitRows DEF IndInv
    <3>2. \E e \in events'[s] : e.status = draft[p].status
      <4>1. PICK e \in draft[p].new : e.status = draft[p].status
        BY <2>3, <3>1 DEF IndInv, DraftHasEvent
      <4>2. [status |-> e.status, at |-> e.at, by |-> p] \in events'[s]
        BY <1>6, <2>3, CommitRows DEF IndInv
      <4> QED
        BY <4>1, <4>2
    <3>3. draft[p].status \in NotifyOnStatuses => <<s, draft[p].status>> \in announced'
      BY <1>00, <2>3, <3>1 DEF IndInv, DraftIsAnnounced
    <3>4. draft[p].status = "delivered" => row'[s].delivery # None \/ s \in cleared'
      <4> SUFFICES ASSUME draft[p].status = "delivered"
                   PROVE  row'[s].delivery # None \/ s \in cleared'
        OBVIOUS
      <4>1. draft[p].delivery # None
        BY <2>3, <3>1 DEF IndInv, DraftIsDated
      <4>2. copy[p][s].delivery # None => row[s].delivery # None \/ s \in cleared
        BY <2>1 DEF IndInv, ReadsHold
      <4> QED
        BY <1>6, <2>1, <2>3, <4>1, <4>2, CommitRows DEF IndInv
    <3> QED
      BY <3>1, <3>2, <3>3, <3>4
  <2>4. CASE ~(s = cur[p] /\ Changes(p))
    <3>1. row'[s].status = row[s].status
      BY <1>0, <1>6, <2>4, CommitRows DEF IndInv
    <3>2. row[s].delivery # None \/ s \in cleared =>
            row'[s].delivery # None \/ s \in cleared'
      BY <1>0, <1>6, <2>1, CommitRows DEF IndInv, DraftIsDated
    <3> QED
      BY <1>0, <1>00, <2>1, <2>2, <3>1, <3>2
  <2> QED
    BY <2>3, <2>4
<1> QED
  BY <1>1, <1>2, <1>3, <1>4, <1>5, <1>6, TableStep

\* Sessions only know of primary keys that were given out.
LEMMA OnlyCreatedKept ==
    ASSUME IndInv, [Next]_vars
    PROVE  OnlyCreated'
<1> SUFFICES ASSUME NEW p \in Actors
             PROVE  /\ Busy(p)' => cur'[p] \in created'
                    /\ loaded'[p] \subseteq created'
                    /\ \A s \in Shipments \ created' :
                         copy'[p][s].delivery = None /\ known'[p][s] = {}
  BY DEF OnlyCreated
<1>1. Outside /\ Inside(p)
  BY Frame DEF IndInv
<1>2. exists \subseteq created /\ created \subseteq created'
  BY <1>1 DEF Outside, IndInv, TypeOK
<1>3. Busy(p)' => cur'[p] \in created'
  BY <1>1, <1>2 DEF Inside, IndInv, OnlyCreated
<1>4. loaded'[p] \subseteq created'
  BY <1>1, <1>2 DEF Inside, IndInv, OnlyCreated
<1>5. ASSUME NEW s \in Shipments \ created'
      PROVE  copy'[p][s].delivery = None /\ known'[p][s] = {}
  BY <1>1, <1>2 DEF Inside, IndInv, OnlyCreated, NewRow
<1> QED
  BY <1>3, <1>4, <1>5

\* A row that goes on existing keeps its history, and its date unless a user
\* clears it.
LEMMA RowsKept ==
    ASSUME IndInv, [Next]_vars, NEW s \in exists \cap exists'
    PROVE  /\ row[s].delivery # None \/ s \in cleared =>
                row'[s].delivery # None \/ s \in cleared'
           /\ History(s) \subseteq History(s)'
<1>0. s \in Shipments
  BY DEF IndInv, TypeOK
<1> SUFFICES /\ row[s].delivery # None \/ s \in cleared =>
                  row'[s].delivery # None \/ s \in cleared'
             /\ events[s] \subseteq events'[s]
  BY DEF History
<1>1. CASE UNCHANGED tableVars
  BY <1>1 DEF tableVars
<1>2. ASSUME NEW t \in Shipments, NEW st \in CreateStatuses,
             CreateShipment(t, st)
      PROVE  row'[s] = row[s] /\ events' = events /\ cleared' = cleared
  BY <1>0, <1>2 DEF CreateShipment, IndInv, TypeOK
<1>3. ASSUME NEW t \in Shipments, NEW st \in ManualStatuses, UpdateStatus(t, st)
      PROVE  /\ row'[s].delivery = row[s].delivery /\ cleared' = cleared
             /\ events[s] \subseteq events'[s]
  <2>1. row'[s].delivery = row[s].delivery /\ cleared' = cleared
    BY <1>0, <1>3, UpdateStatusRow DEF IndInv, UpdateStatus
  <2>2. events[s] \subseteq events'[s]
    BY <1>0, <1>3 DEF UpdateStatus, IndInv, TypeOK
  <2> QED
    BY <2>1, <2>2
<1>4. ASSUME NEW t \in Shipments, NEW d \in {now, None}, UpdateDeliveryDate(t, d)
      PROVE  /\ row[s].delivery # None \/ s \in cleared =>
                  row'[s].delivery # None \/ s \in cleared'
             /\ events' = events
  <2>1. row'[s].delivery = IF s = t THEN d ELSE row[s].delivery
    BY <1>0, <1>4, UpdateDeliveryRow DEF IndInv
  <2> QED
    BY <1>4, <2>1 DEF UpdateDeliveryDate
<1>5. ASSUME NEW t \in Shipments, DeleteShipment(t)
      PROVE  row'[s] = row[s] /\ events'[s] = events[s] /\ (s \in cleared => s \in cleared')
  BY <1>0, <1>5 DEF DeleteShipment, IndInv, TypeOK
<1>6. ASSUME NEW p \in Actors, Commit(p)
      PROVE  /\ row[s].delivery # None \/ s \in cleared =>
                  row'[s].delivery # None \/ s \in cleared'
             /\ events[s] \subseteq events'[s]
  BY <1>0, <1>6, CommitRows DEF IndInv, DraftIsDated
<1> QED
  BY <1>1, <1>2, <1>3, <1>4, <1>5, <1>6, TableStep

\* A row that comes to exist has a primary key of its own.
LEMMA NewIsCreated ==
    ASSUME IndInv, [Next]_vars, NEW s \in exists', s \notin exists
    PROVE  s \in Shipments \ created
<1>1. s \in Shipments
  BY TypeStep DEF IndInv, TypeOK
<1>2. ASSUME NEW p \in Actors, Commit(p) PROVE FALSE
  BY <1>2, CommitRows DEF IndInv
<1> QED
  BY <1>1, <1>2, TableStep DEF tableVars, CreateShipment, UpdateStatus, UpdateDeliveryDate,
                             DeleteShipment

\* What was read of a row that still exists holds of it.
LEMMA ReadsKept ==
    ASSUME IndInv, [Next]_vars
    PROVE  ReadsHold'
<1> SUFFICES ASSUME NEW p \in Actors, NEW s \in exists'
             PROVE  /\ copy'[p][s].delivery # None =>
                         row'[s].delivery # None \/ s \in cleared'
                    /\ known'[p][s] \subseteq History(s)'
  BY DEF ReadsHold
<1>0. s \in Shipments /\ Inside(p)
  BY TypeStep, Frame DEF IndInv, TypeOK
<1>1. /\ \/ copy'[p][s] \in {copy[p][s], NewRow}
         \/ s \in exists /\ copy'[p][s] = row[s]
      /\ \/ known'[p][s] \in {known[p][s], {}}
         \/ s \in exists /\ known'[p][s] = History(s)
  BY <1>0 DEF Inside
<1>2. CASE s \in exists
  BY <1>1, <1>2, RowsKept DEF IndInv, ReadsHold, NewRow
<1>3. CASE s \notin exists
  BY <1>1, <1>3, NewIsCreated DEF IndInv, OnlyCreated, NewRow
<1> QED
  BY <1>2, <1>3

\* Every event of a reply is in the draft or in the history.
LEMMA ReplyKept ==
    ASSUME IndInv, [Next]_vars
    PROVE  ReplyIsCovered'
<1> SUFFICES ASSUME NEW p \in Actors, pc'[p] = "commit", cur'[p] \in exists'
             PROVE  (reply[p] \subseteq draft[p].new \cup History(cur[p]))'
  BY DEF ReplyIsCovered
<1>1. CASE Apply(p)
  <2>1. /\ cur'[p] = cur[p] /\ reply'[p] = reply[p] /\ draft'[p].new = Fresh(p)
        /\ exists' = exists /\ events' = events
    BY <1>1, ApplyDraft DEF IndInv, tableVars
  <2>2. Known(p) \subseteq History(cur[p])
    BY <2>1 DEF Known, IndInv, ReadsHold
  <2>3. History(cur[p])' = History(cur[p])
    BY <2>1 DEF History
  <2> QED
    BY <2>1, <2>2, <2>3 DEF Fresh
<1>2. CASE /\ pc[p] = "commit"
           /\ cur'[p] = cur[p]
           /\ draft'[p] = draft[p] /\ reply'[p] = reply[p]
  <2>1. cur[p] \in exists
    <3>1. cur[p] \in created
      BY <1>2 DEF IndInv, OnlyCreated, Busy
    <3> QED
      BY <1>2, <3>1, NewIsCreated
  <2>2. History(cur[p]) \subseteq History(cur[p])'
    BY <1>2, <2>1, RowsKept DEF History
  <2> QED
    BY <1>2, <2>1, <2>2 DEF IndInv, ReplyIsCovered
<1> QED
  BY <1>1, <1>2, Frame DEF IndInv, Inside

-----------------------------------------------------------------------------
(* The theorems.                                                           *)

\* The invariant holds initially.
LEMMA InitHolds == Init => IndInv
<1> SUFFICES ASSUME Init PROVE IndInv
  OBVIOUS
<1>1. TypeOK
  BY BoundsAssumption, ProvidersAssumption
     DEF Init, TypeOK, Times, Row, NewRow, Statuses, PCs, Draft, NoDraft
<1>2. \A p \in Actors : pc[p] = "idle" /\ pending[p] = {} /\ loaded[p] = {}
  BY DEF Init
<1>3. \A p \in Actors : \A s \in Shipments : copy[p][s] = NewRow /\ known[p][s] = {}
  BY DEF Init
<1>4. exists = {}
  BY DEF Init
<1>5. OnlyCreated
  BY <1>2, <1>3 DEF OnlyCreated, Busy, NewRow
<1> QED
  BY <1>1, <1>2, <1>4, <1>5
     DEF IndInv, PendingIsAccepted, RegisteredIsAccepted, DraftHasEvent, StatusHasEvent,
         DraftIsAnnounced, StatusIsAnnounced, ReadsHold, DraftIsDated, DraftDateHasEvent,
         DeliveredIsDated, ReplyIsCovered

\* The invariant holds always.
LEMMA IndInvHolds == Spec => []IndInv
<1>1. Init => IndInv
  BY InitHolds
<1>2. IndInv /\ [Next]_vars => IndInv'
  BY TypeStep, AcceptedKept, DraftsKept, StatusKept, OnlyCreatedKept, ReadsKept, ReplyKept
     DEF IndInv
<1> QED
  BY <1>1, <1>2, PTL DEF Spec

\* Type correctness, of the committed rows and of every session.
THEOREM TypeCorrect == Spec => []TypeOK
<1>1. IndInv => TypeOK
  BY DEF IndInv
<1> QED
  BY <1>1, IndInvHolds, PTL

\* tracking_registered implies that register() has been called and has returned,
\* for any number of sessions, although a failed update() leaves the flag to a
\* later commit.
THEOREM RegistrationCorrect == Spec => []RegisteredIsAccepted
<1>1. IndInv => RegisteredIsAccepted
  BY DEF IndInv
<1> QED
  BY <1>1, IndInvHolds, PTL

\* The status of a shipment is always one of its history, whatever sessions
\* overwrite each other with stale copies.
THEOREM StatusExplained == Spec => []StatusHasEvent
<1>1. IndInv => StatusHasEvent
  BY DEF IndInv
<1> QED
  BY <1>1, IndInvHolds, PTL

\* A delivered or delayed shipment was announced: the notification goes out
\* before the commit, and a session that does not send one has read a status
\* that was announced before.
THEOREM StatusAnnounced == Spec => []StatusIsAnnounced
<1>1. IndInv => StatusIsAnnounced
  BY DEF IndInv
<1> QED
  BY <1>1, IndInvHolds, PTL

\* A shipment that a sync made delivered has a delivery date until a user clears
\* it, although the date and the status are written only where they differ from
\* the copy, and users may write and clear the date between the read and the commit.
THEOREM DeliveryDated == Spec => []DeliveredIsDated
<1>1. IndInv => DeliveredIsDated
  BY DEF IndInv
<1> QED
  BY <1>1, IndInvHolds, PTL

\* A committed sync has recorded all that the provider reported.
THEOREM RepliesRecorded == Spec => ReplyIsRecorded
<1> DEFINE P == \A p \in Actors :
                  Commit(p) /\ cur[p] \in exists => reply[p] \subseteq History(cur[p])'
<1>1. ASSUME IndInv, [Next]_vars PROVE P
  <2> SUFFICES ASSUME NEW p \in Actors, Commit(p), cur[p] \in exists
               PROVE  reply[p] \subseteq History(cur[p])'
    OBVIOUS
  <2>1. pc[p] = "commit" /\ exists' = exists /\ cur' = cur
    BY <1>1, CommitRows DEF Commit, IndInv
  <2>2. reply[p] \subseteq draft[p].new \cup History(cur[p])
    BY <1>1, <2>1 DEF IndInv, ReplyIsCovered
  <2>3. History(cur[p]) \subseteq History(cur[p])'
    BY <1>1, <2>1, RowsKept DEF History
  <2>4. draft[p].new \subseteq History(cur[p])'
    <3> SUFFICES ASSUME NEW e \in draft[p].new PROVE e \in History(cur[p])'
      OBVIOUS
    <3>1. [status |-> e.status, at |-> e.at, by |-> p] \in events'[cur[p]]
      BY <1>1, CommitRows DEF IndInv
    <3>2. e \in Event
      BY <1>1 DEF IndInv, TypeOK, Draft
    <3>3. e = [status |-> e.status, at |-> e.at]
      BY <3>2 DEF Event
    <3> QED
      BY <2>1, <3>1, <3>3 DEF History
  <2> QED
    BY <2>2, <2>3, <2>4
<1>2. IndInv /\ [Next]_vars => [P]_vars
  BY <1>1
<1> QED
  BY <1>2, IndInvHolds, PTL DEF Spec, ReplyIsRecorded

-----------------------------------------------------------------------------
(* The refinement of ShipmentHistory.                                      *)

\* A step that leaves the committed rows alone sends at most one notification.
LEMMA QuietStep ==
    ASSUME [Next]_vars
    PROVE  \/ UNCHANGED announced
           \/ \E p \in Actors : Apply(p)
BY DEF Next, vars, tableVars, PassStep, SyncStep, Tick, Report, Reconfigure, StartPass, EndPass,
       Take, TakeRaises, RefreshTracking, Register, RegisterFails, Update, UpdateRaises,
       UpdateFails, Commit, CommitRaises, Refresh, RefreshRaises, Fail, Abort, CreateShipment,
       UpdateStatus, UpdateDeliveryDate, DeleteShipment

\* Apply sends at most one notification and shows nothing yet.
LEMMA ApplyAnnounces ==
    ASSUME IndInv, NEW p \in Actors, Apply(p), announced' # announced
    PROVE  \E s \in Shipments : \E st \in Statuses : Promise!Announce(s, st)
<1>1. pc[p] = "apply" /\ cur[p] \in Shipments /\ cur[p] \in created
      /\ UNCHANGED <<created, exists, row, events>>
  BY Zenon DEF Apply, IndInv, TypeOK, OnlyCreated, Busy, tableVars
<1>2. PICK st : announced' = announced \cup Dispatched(p, st)
  BY DEF Apply
<1>3. st \in NotifyOnStatuses /\ announced' = announced \cup {<<cur[p], st>>}
  BY <1>2 DEF Dispatched
<1>4. st \in Statuses
  BY <1>3 DEF NotifyOnStatuses, Statuses
<1>5. \A s \in Shipments : History(s)' = History(s) /\ row'[s] = row[s]
  BY <1>1 DEF History
<1> QED
  BY <1>1, <1>3, <1>4, <1>5 DEF Promise!Announce

\* The history after a step is well typed.
LEMMA HistoryTypeNext ==
    ASSUME TypeOK', NEW s \in Shipments
    PROVE  History(s)' \subseteq Event
BY DEF TypeOK, History, Event, EventRow

\* A commit is a Record of the shipment at hand, or changes nothing that is
\* shown.
LEMMA CommitRecords ==
    ASSUME IndInv, TypeOK', NEW p \in Actors, Commit(p)
    PROVE  \/ UNCHANGED Promise!vars
           \/ \E s \in Shipments : Promise!Record(s)
<1>0. PICK c \in Shipments : c = cur[p]
  BY CommitRows DEF IndInv
<1>1. pc[p] = "commit" /\ UNCHANGED <<created, exists, announced>>
  BY CommitRows DEF IndInv
<1>2. \A s \in Shipments \ {c} :
        History(s)' = History(s) /\ row'[s].status = row[s].status
        /\ row'[s].delivery = row[s].delivery
  <2>1. \A s \in Shipments \ {c} : events'[s] = events[s]
    BY <1>0, <1>1 DEF Commit, IndInv, TypeOK
  <2> QED
    BY <1>0, <2>1, CommitRows DEF IndInv, History
<1>3. CASE c \notin exists
  <2>1. draft[p].new = {}
    BY <1>0, <1>1, <1>3 DEF Commit, Dirty
  <2>2. events'[c] = events[c]
    BY <1>0, <1>1, <2>1 DEF Commit, IndInv, TypeOK
  <2>3. row'[c] = row[c]
    BY <1>0, <1>1, <1>3 DEF Commit
  <2>4. \A s \in Shipments :
          History(s)' = History(s) /\ row'[s].status = row[s].status
          /\ row'[s].delivery = row[s].delivery
    BY <1>2, <2>2, <2>3 DEF History
  <2> QED
    BY <1>1, <2>4 DEF Promise!vars
<1>4. CASE c \in exists
  <2>1. History(c) \subseteq History(c)' /\ History(c)' \subseteq Event
    <3>1. events[c] \subseteq events'[c]
      BY <1>0, CommitRows DEF IndInv
    <3>2. History(c) \subseteq History(c)'
      BY <3>1 DEF History
    <3> QED
      BY <3>2, HistoryTypeNext
  <2>2. \A e \in draft[p].new : e \in History(c)'
    <3> SUFFICES ASSUME NEW e \in draft[p].new PROVE e \in History(c)'
      OBVIOUS
    <3>1. [status |-> e.status, at |-> e.at, by |-> p] \in events'[c]
      BY <1>0, CommitRows DEF IndInv
    <3>2. e \in Event
      BY DEF IndInv, TypeOK, Draft
    <3>3. e = [status |-> e.status, at |-> e.at]
      BY <3>2 DEF Event
    <3> QED
      BY <3>1, <3>3 DEF History
  <2>3. row'[c].status # row[c].status =>
          /\ \E e \in History(c)' : e.status = row'[c].status
          /\ row'[c].status \in NotifyOnStatuses => <<c, row'[c].status>> \in announced
    BY <1>0, <1>1, <2>2, CommitRows DEF IndInv, DraftHasEvent, DraftIsAnnounced
  <2>4. row'[c].delivery # row[c].delivery =>
          \E e \in History(c)' : e.status = "delivered" /\ e.at = row'[c].delivery
    BY <1>0, <1>1, <2>2, CommitRows DEF IndInv, DraftDateHasEvent
  <2>5. Promise!Record(c)
    BY <1>1, <1>2, <1>4, <2>1, <2>3, <2>4 DEF Promise!Record, Promise!Event, Event
  <2> QED
    BY <2>5
<1> QED
  BY <1>3, <1>4

\* Every step is a step of ShipmentHistory or changes nothing that is shown.
LEMMA PromiseStep ==
    ASSUME IndInv, TypeOK', [Next]_vars
    PROVE  [Promise!Next]_Promise!vars
<1>1. CASE UNCHANGED tableVars
  <2>1. CASE announced' = announced
    <3>1. UNCHANGED <<created, exists, row, events>>
      BY <1>1 DEF tableVars
    <3> QED
      BY <2>1, <3>1 DEF Promise!vars, History
  <2>2. CASE announced' # announced
    BY <2>2, QuietStep, ApplyAnnounces DEF Promise!Next
  <2> QED
    BY <2>1, <2>2
<1>2. ASSUME NEW t \in Shipments, NEW st \in CreateStatuses, CreateShipment(t, st)
      PROVE  Promise!Create(t, st) /\ st \in Statuses
  <2>1. /\ t \notin created /\ created' = created \cup {t} /\ exists' = exists \cup {t}
        /\ UNCHANGED <<events, announced>>
        /\ \A s \in Shipments : row'[s] = IF s = t THEN [NewRow EXCEPT !.status = st] ELSE row[s]
    BY <1>2 DEF CreateShipment, IndInv, TypeOK
  <2>2. \A s \in Shipments : /\ row'[s].status = IF s = t THEN st ELSE row[s].status
                             /\ row'[s].delivery = IF s = t THEN None ELSE row[s].delivery
    BY <2>1 DEF NewRow
  <2>3. \A s \in Shipments : History(s)' = History(s)
    BY <2>1 DEF History
  <2>4. st \in Statuses
    BY EventsAssumption DEF CreateStatuses, Statuses
  <2> QED
    BY <2>1, <2>2, <2>3, <2>4 DEF Promise!Create
<1>3. ASSUME NEW t \in Shipments, NEW st \in ManualStatuses, UpdateStatus(t, st)
      PROVE  \E e \in Promise!Event : Promise!Edit(t, e)
  <2>0. PICK e \in Promise!Event : e = [status |-> st, at |-> now]
    BY EventsAssumption DEF Promise!Event, IndInv, TypeOK
  <2>1. /\ t \in exists /\ UNCHANGED <<created, exists, announced>>
        /\ events' = [events EXCEPT ![t] = @ \cup {[status |-> st, at |-> now, by |-> None]}]
    BY <1>3 DEF UpdateStatus
  <2>2. History(t)' = History(t) \cup {e}
    <3>1. events'[t] = events[t] \cup {[status |-> st, at |-> now, by |-> None]}
      BY <2>1 DEF IndInv, TypeOK
    <3> DEFINE m == [status |-> st, at |-> now, by |-> None]
    <3>2. m.status = st /\ m.at = now
      OBVIOUS
    <3> HIDE DEF m
    <3>3. History(t)' = History(t) \cup {[status |-> m.status, at |-> m.at]}
      BY <3>1 DEF History, m
    <3> QED
      BY <2>0, <3>2, <3>3
  <2>3. \A s \in Shipments \ {t} : History(s)' = History(s)
    BY <2>1 DEF History, IndInv, TypeOK
  <2>4. \A s \in Shipments : /\ row'[s].status = IF s = t THEN st ELSE row[s].status
                             /\ row'[s].delivery = row[s].delivery
    BY <1>3, UpdateStatusRow DEF IndInv
  <2>5. Promise!Edit(t, e)
    BY <2>0, <2>1, <2>2, <2>3, <2>4 DEF Promise!Edit
  <2> QED
    BY <2>5
<1>4. ASSUME NEW t \in Shipments, NEW d \in {now, None}, UpdateDeliveryDate(t, d)
      PROVE  \E u \in Times \cup {None} : Promise!Reschedule(t, u)
  <2>1. t \in exists /\ UNCHANGED <<created, exists, events, announced>>
    BY <1>4 DEF UpdateDeliveryDate
  <2>2. \A s \in Shipments : /\ row'[s].status = row[s].status
                             /\ row'[s].delivery = IF s = t THEN d ELSE row[s].delivery
    BY <1>4, UpdateDeliveryRow DEF IndInv
  <2>3. \A s \in Shipments : History(s)' = History(s)
    BY <2>1 DEF History
  <2>4. PICK u \in Times \cup {None} : u = d
    BY DEF IndInv, TypeOK
  <2>5. Promise!Reschedule(t, u)
    BY <2>1, <2>2, <2>3, <2>4 DEF Promise!Reschedule
  <2> QED
    BY <2>5
<1>5. ASSUME NEW t \in Shipments, DeleteShipment(t)
      PROVE  Promise!Delete(t)
  <2>1. /\ t \in exists /\ exists' = exists \ {t} /\ UNCHANGED <<created, announced>>
        /\ \A s \in Shipments : row'[s] = IF s = t THEN NewRow ELSE row[s]
        /\ \A s \in Shipments : events'[s] = IF s = t THEN {} ELSE events[s]
    BY <1>5 DEF DeleteShipment, IndInv, TypeOK
  <2>2. \A s \in Shipments : History(s)' = IF s = t THEN {} ELSE History(s)
    BY <2>1 DEF History
  <2>3. \A s \in Shipments :
          /\ row'[s].status = IF s = t THEN "unknown" ELSE row[s].status
          /\ row'[s].delivery = IF s = t THEN None ELSE row[s].delivery
    BY <2>1 DEF NewRow
  <2> QED
    BY <2>1, <2>2, <2>3 DEF Promise!Delete
<1>6. ASSUME NEW p \in Actors, Commit(p)
      PROVE  UNCHANGED Promise!vars \/ \E s \in Shipments : Promise!Record(s)
  BY <1>6, CommitRecords
<1> QED
  BY <1>1, <1>2, <1>3, <1>4, <1>5, <1>6, TableStep DEF Promise!Next

\* The sync code with its sessions, stale copies and crashes implements the
\* history that ShipmentHistory promises to its readers.
THEOREM ShipmentHistoryImplemented == Spec => ImplementsShipmentHistory
<1>1. Init => Promise!Init
  BY DEF Init, Promise!Init, History, NewRow
<1>2. IndInv /\ IndInv' /\ [Next]_vars => [Promise!Next]_Promise!vars
  BY PromiseStep DEF IndInv
<1> QED
  BY <1>1, <1>2, IndInvHolds, PTL DEF Spec, ImplementsShipmentHistory, Promise!Spec

-----------------------------------------------------------------------------
(* The statuses that syncs can give a shipment.                            *)

\* No word of a table means "delayed".
LEMMA TablesNeverDelay ==
    ASSUME NEW w
    PROVE  /\ Get(_TAG_MAP, w) # "delayed"
           /\ Get(_MILESTONE_MAP, w) # "delayed"
           /\ Get(_STATUS_MAP, w) # "delayed"
<1>1. Get(_TAG_MAP, w) # "delayed"
  BY DEF Get, _TAG_MAP
<1>2. Get(_MILESTONE_MAP, w) # "delayed"
  BY DEF Get, _MILESTONE_MAP
<1>3. Get(_STATUS_MAP, w) # "delayed"
  BY DEF Get, _STATUS_MAP
<1> QED
  BY <1>1, <1>2, <1>3

\* A set of numbers of keywords has a least one.
LEMMA FirstHit ==
    ASSUME NEW H \in SUBSET (1 .. 10), H # {}
    PROVE  \E i \in H : \A j \in H : i <= j
<1>1. H \subseteq Nat
  OBVIOUS
<1>2. PICK x \in H : \A y \in H : ~ (<<y, x>> \in OpToRel(<, Nat))
  BY <1>1, NatLessThanWellFounded, WFMin
<1>3. \A y \in H : y \in Nat
  BY <1>1
<1>4. \A y \in H : ~ (y < x)
  BY <1>2, <1>3, Zenon DEF OpToRel
<1> QED
  BY <1>3, <1>4

\* No keyword stands for "delayed".
LEMMA KeywordsNeverDelay ==
    ASSUME NEW w
    PROVE  infer_status_from_text(w) # "delayed"
<1>1. DOMAIN _KEYWORDS = 1 .. 10
  BY DEF _KEYWORDS
<1>2. \A i \in 1 .. 10 : _KEYWORDS[i][2] # "delayed"
  BY DEF _KEYWORDS
<1> DEFINE Hits == {i \in DOMAIN _KEYWORDS : Contains(w, _KEYWORDS[i][1])}
           first == CHOOSE i \in Hits : \A j \in Hits : i <= j
<1>3. Hits \in SUBSET (1 .. 10)
  BY <1>1
<1>4. infer_status_from_text(w) = IF Hits = {} THEN "in_transit" ELSE _KEYWORDS[first][2]
  BY DEF infer_status_from_text
<1> HIDE DEF Hits
<1>5. Hits # {} => first \in Hits
  BY <1>3, FirstHit
<1> QED
  BY <1>2, <1>3, <1>4, <1>5

\* No provider says "delayed".
LEMMA ProvidersNeverDelay ==
    ASSUME NEW q, NEW w
    PROVE  MapStatus(ProviderStatus(q, w)) # "delayed"
BY TablesNeverDelay, KeywordsNeverDelay DEF ProviderStatus, MapStatus

LEMMA ReportsNeverDelay == "delayed" \notin Reportable
BY ProvidersNeverDelay DEF Reportable

\* What a session has in hand are statuses that the providers' words stand for.
SyncsReport ==
    \A p \in Actors :
        /\ pc[p] = "apply" => \A e \in reply[p] : e.status \in Reportable
        /\ pc[p] = "commit" => \A e \in draft[p].new : e.status \in Reportable

LEMMA SyncsReportKept ==
    ASSUME IndInv, SyncsReport, [Next]_vars
    PROVE  SyncsReport'
<1> SUFFICES ASSUME NEW p \in Actors
             PROVE  /\ pc'[p] = "apply" => \A e \in reply'[p] : e.status \in Reportable
                    /\ pc'[p] = "commit" => \A e \in draft'[p].new : e.status \in Reportable
  BY DEF SyncsReport
<1>1. Inside(p)
  BY Frame DEF IndInv
<1>2. ASSUME Update(p), NEW e \in reply'[p] PROVE e.status \in Reportable
  <2>1. PICK E \in Enrolments(cur[p]) :
          reply'[p] = {[status |-> MapStatus(ProviderStatus(provider, r.raw)),
                        at |-> ParseTimestamp(r.at)] : r \in Reported(cur[p], E)}
    BY <1>2 DEF Update, IndInv, TypeOK
  <2>2. PICK r \in Reported(cur[p], E) :
          e = [status |-> MapStatus(ProviderStatus(provider, r.raw)),
               at |-> ParseTimestamp(r.at)]
    BY <1>2, <2>1
  <2>3. e.status = MapStatus(ProviderStatus(provider, r.raw))
    BY <2>2
  <2>4. r \in RawEvent
    BY <1>2, <2>2 DEF Update, Reported, IndInv, TypeOK
  <2>5. r.raw \in RawStatuses /\ provider \in Providers
    BY <2>4 DEF RawEvent, IndInv, TypeOK
  <2> QED
    BY <2>3, <2>5 DEF Reportable
<1>3. ASSUME Apply(p), NEW e \in draft'[p].new PROVE e.status \in Reportable
  <2>1. e \in reply[p] /\ pc[p] = "apply"
    BY <1>3, ApplyDraft DEF IndInv, Fresh, Apply
  <2> QED
    BY <2>1 DEF SyncsReport
<1> QED
  BY <1>1, <1>2, <1>3 DEF Inside, SyncsReport

\* A row becomes delayed only through a user.
LEMMA DelayKept ==
    ASSUME IndInv, SyncsReport, DelayIsSetByUser, [Next]_vars
    PROVE  DelayIsSetByUser'
<1> SUFFICES ASSUME NEW s \in exists', row'[s].status = "delayed"
             PROVE  SetByUser(s, "delayed")'
  BY DEF DelayIsSetByUser
<1>0. s \in Shipments
  BY TypeStep DEF IndInv, TypeOK
<1>1. CASE UNCHANGED tableVars
  BY <1>1 DEF tableVars, SetByUser, DelayIsSetByUser
<1>2. ASSUME NEW t \in Shipments, NEW st \in CreateStatuses, CreateShipment(t, st)
      PROVE  SetByUser(s, "delayed")'
  BY <1>0, <1>2 DEF CreateShipment, IndInv, TypeOK, NewRow, SetByUser, DelayIsSetByUser
<1>3. ASSUME NEW t \in Shipments, NEW st \in ManualStatuses, UpdateStatus(t, st)
      PROVE  SetByUser(s, "delayed")'
  <2>1. s \in exists /\ initial' = initial
    BY <1>3 DEF UpdateStatus
  <2>2. CASE s = t
    <3>1. st = "delayed"
      BY <1>0, <1>3, <2>2, UpdateStatusRow DEF IndInv
    <3>2. [status |-> st, at |-> now, by |-> None] \in events'[s]
      BY <1>0, <1>3, <2>2 DEF UpdateStatus, IndInv, TypeOK
    <3> QED
      BY <3>1, <3>2 DEF SetByUser
  <2>3. CASE s # t
    BY <1>0, <1>3, <2>1, <2>3 DEF UpdateStatus, IndInv, TypeOK, SetByUser, DelayIsSetByUser
  <2> QED
    BY <2>2, <2>3
<1>4. ASSUME NEW t \in Shipments, NEW d \in {now, None}, UpdateDeliveryDate(t, d)
      PROVE  SetByUser(s, "delayed")'
  <2>1. s \in exists /\ events' = events /\ initial' = initial
    BY <1>4 DEF UpdateDeliveryDate
  <2>2. row[s].status = "delayed"
    BY <1>0, <1>4, UpdateDeliveryRow DEF IndInv
  <2> QED
    BY <2>1, <2>2 DEF SetByUser, DelayIsSetByUser
<1>5. ASSUME NEW t \in Shipments, DeleteShipment(t) PROVE SetByUser(s, "delayed")'
  BY <1>0, <1>5 DEF DeleteShipment, IndInv, TypeOK, SetByUser, DelayIsSetByUser
<1>6. ASSUME NEW p \in Actors, Commit(p) PROVE SetByUser(s, "delayed")'
  <2>1. s \in exists /\ initial' = initial /\ events[s] \subseteq events'[s] /\ pc[p] = "commit"
    BY <1>0, <1>6, CommitRows DEF IndInv
  <2>2. row[s].status = "delayed"
    <3> SUFFICES ASSUME row'[s].status # row[s].status PROVE FALSE
      OBVIOUS
    <3>1. Changes(p) /\ row'[s].status = draft[p].status
      BY <1>0, <1>6, CommitRows DEF IndInv
    <3>2. \E e \in draft[p].new : e.status = "delayed"
      BY <2>1, <3>1 DEF IndInv, DraftHasEvent
    <3> QED
      BY <2>1, <3>2, ReportsNeverDelay DEF SyncsReport
  <2> QED
    BY <2>1, <2>2 DEF SetByUser, DelayIsSetByUser
<1> QED
  BY <1>1, <1>2, <1>3, <1>4, <1>5, <1>6, TableStep

\* Whatever words the providers send, only users make a shipment delayed: the
\* "delayed" of _NOTIFY_ON_STATUSES is never announced.
THEOREM DelaysAreUsers == Spec => []DelayIsSetByUser
<1> DEFINE Inv == SyncsReport /\ DelayIsSetByUser
<1>1. Init => Inv
  BY DEF Init, SyncsReport, DelayIsSetByUser
<1>2. IndInv /\ Inv /\ [Next]_vars => Inv'
  BY SyncsReportKept, DelayKept
<1> QED
  BY <1>1, <1>2, IndInvHolds, PTL DEF Spec

-----------------------------------------------------------------------------
(* The tables of ParcelTables.                                             *)

\* A shipment that is not there has no events.
NoRowNoEvents == \A s \in Shipments \ exists : events[s] = {}

LEMMA NoRowNoEventsKept ==
    ASSUME IndInv, NoRowNoEvents, [Next]_vars
    PROVE  NoRowNoEvents'
<1> SUFFICES ASSUME NEW s \in Shipments \ exists' PROVE events'[s] = {}
  BY DEF NoRowNoEvents
<1>1. CASE UNCHANGED tableVars
  BY <1>1 DEF tableVars, NoRowNoEvents
<1>2. ASSUME NEW t \in Shipments, NEW st \in CreateStatuses, CreateShipment(t, st)
      PROVE  events'[s] = {}
  BY <1>2 DEF CreateShipment, NoRowNoEvents
<1>3. ASSUME NEW t \in Shipments, NEW st \in ManualStatuses, UpdateStatus(t, st)
      PROVE  events'[s] = {}
  BY <1>3 DEF UpdateStatus, NoRowNoEvents, IndInv, TypeOK
<1>4. ASSUME NEW t \in Shipments,
             DeleteShipment(t) \/ \E d \in {now, None} : UpdateDeliveryDate(t, d)
      PROVE  events'[s] = {}
  BY <1>4 DEF UpdateDeliveryDate, DeleteShipment, NoRowNoEvents, IndInv, TypeOK
<1>5. ASSUME NEW p \in Actors, Commit(p) PROVE events'[s] = {}
  <2>1. exists' = exists /\ (cur[p] = s => draft[p].new = {})
    BY <1>5 DEF Commit, Dirty
  <2>2. events'[s] = events[s]
    BY <1>5, <2>1 DEF Commit, IndInv, TypeOK
  <2> QED
    BY <2>1, <2>2 DEF NoRowNoEvents
<1> QED
  BY <1>1, <1>2, <1>3, <1>4, <1>5, TableStep

\* Only Tick moves the clock, and it leaves the tables alone.
LEMMA ClockStep ==
    ASSUME [Next]_vars
    PROVE  now' = now \/ (Tick /\ UNCHANGED tableVars)
BY DEF Next, vars, worldVars, PassStep, SyncStep, Tick, Report, Reconfigure, StartPass, EndPass,
       Take, TakeRaises, RefreshTracking, Register, RegisterFails, Update, UpdateRaises,
       UpdateFails, Apply, Commit, CommitRaises, Refresh, RefreshRaises, Fail, Abort,
       CreateShipment, UpdateStatus, UpdateDeliveryDate, DeleteShipment

Late(s) == \E e \in events[s] : e.status = "delayed"

LEMMA ColumnsFields ==
    ASSUME NEW s
    PROVE  /\ Columns(s) = [status |-> row[s].status, est |-> None, delivered |-> row[s].delivery,
                            delayed |-> Late(s)]
           /\ Columns(s)' = [status |-> row'[s].status, est |-> None, delivered |-> row'[s].delivery,
                             delayed |-> Late(s)']
BY DEF Columns, Late

\* Nobody reads meanwhile, as far as this module goes.
LEMMA NoReaders ==
    ASSUME NEW S
    PROVE  Tables!Changes(S)
BY DEF Tables!Changes, Tables!Readers

\* What a shipment looks like depends on its row and its events.
LEMMA ColumnsSame ==
    ASSUME NEW s, row'[s].status = row[s].status, row'[s].delivery = row[s].delivery,
           Late(s)' <=> Late(s)
    PROVE  Columns(s)' = Columns(s)
<1>1. Late(s)' = Late(s)
  BY Zenon DEF Late
<1> QED
  BY <1>1, ColumnsFields

\* create_shipment, or the importer.
LEMMA CreateIsTransaction ==
    ASSUME IndInv, NoRowNoEvents, NEW t \in Shipments, NEW st \in CreateStatuses,
           CreateShipment(t, st)
    PROVE  Tables!create_shipment(t, st, None, None)
<1>1. /\ t \notin created /\ created' = created \cup {t} /\ exists' = exists \cup {t}
      /\ events' = events /\ now' = now /\ t \notin exists
      /\ \A s \in Shipments : row'[s] = IF s = t THEN [NewRow EXCEPT !.status = st] ELSE row[s]
  BY DEF CreateShipment, IndInv, TypeOK, worldVars
<1>2. \A s \in Shipments \ {t} : Columns(s)' = Columns(s)
  BY <1>1 DEF Columns
<1>3. Columns(t)' = [status |-> st, est |-> None, delivered |-> None, delayed |-> FALSE]
  <2>1. Late(t)' = FALSE
    BY <1>1 DEF Late, NoRowNoEvents
  <2>2. row'[t].status = st /\ row'[t].delivery = None
    BY <1>1 DEF NewRow
  <2> QED
    BY <2>1, <2>2, ColumnsFields
<1>4. exists \subseteq created
  BY DEF IndInv, TypeOK
<1> QED
  BY <1>1, <1>2, <1>3, <1>4, NoReaders DEF Tables!create_shipment, Tables!Present

\* PATCH of the status.
LEMMA UpdateIsTransaction ==
    ASSUME IndInv, NEW t \in Shipments, NEW st \in ManualStatuses, UpdateStatus(t, st)
    PROVE  Tables!update_status(t, {"status"}, st, None, None)
<1>1. /\ t \in exists /\ UNCHANGED <<created, exists, now>>
      /\ events' = [events EXCEPT ![t] = @ \cup {[status |-> st, at |-> now, by |-> None]}]
  BY DEF UpdateStatus, worldVars
<1>2. \A s \in Shipments : /\ row'[s].status = IF s = t THEN st ELSE row[s].status
                           /\ row'[s].delivery = row[s].delivery
  BY UpdateStatusRow DEF IndInv
<1>3. \A s \in Shipments \ {t} : Columns(s)' = Columns(s)
  <2>1. \A s \in Shipments \ {t} : events'[s] = events[s]
    BY <1>1 DEF IndInv, TypeOK
  <2> QED
    BY <1>2, <2>1, ColumnsSame DEF Late
<1>4. Late(t)' <=> Late(t) \/ st = "delayed"
  <2> DEFINE m == [status |-> st, at |-> now, by |-> None]
  <2>1. events'[t] = events[t] \cup {m}
    BY <1>1 DEF IndInv, TypeOK
  <2>2. m.status = st
    OBVIOUS
  <2> HIDE DEF m
  <2> QED
    BY <2>1, <2>2 DEF Late
<1>5. Columns(t)' = [status |-> IF "status" \in {"status"} THEN st ELSE Columns(t).status,
                     est |-> IF "est" \in {"status"} THEN None ELSE Columns(t).est,
                     delivered |-> IF "delivered" \in {"status"} THEN None ELSE Columns(t).delivered,
                     delayed |-> Columns(t).delayed \/ ("status" \in {"status"} /\ st = "delayed")]
  <2> DEFINE late == Columns(t).delayed \/ ("status" \in {"status"} /\ st = "delayed")
  <2>1. Columns(t).delayed = Late(t)
    BY ColumnsFields
  <2>2. late = Late(t)'
    BY <1>4, <2>1, Zenon DEF Late
  <2>3. Columns(t).est = None /\ Columns(t).delivered = row[t].delivery
    BY ColumnsFields
  <2> HIDE DEF late
  <2>4. Columns(t)' = [status |-> IF "status" \in {"status"} THEN st ELSE Columns(t).status,
                       est |-> IF "est" \in {"status"} THEN None ELSE Columns(t).est,
                       delivered |-> IF "delivered" \in {"status"} THEN None
                                     ELSE Columns(t).delivered,
                       delayed |-> late]
    BY <1>2, <2>2, <2>3, ColumnsFields
  <2> QED
    BY <2>4 DEF late
<1> QED
  BY <1>1, <1>3, <1>5, NoReaders DEF Tables!update_status

\* PATCH of the date.
LEMMA DateIsTransaction ==
    ASSUME IndInv, NEW t \in Shipments, NEW d \in {now, None}, UpdateDeliveryDate(t, d)
    PROVE  Tables!update_status(t, {"delivered"}, "unknown", None, d)
<1>1. t \in exists /\ UNCHANGED <<created, exists, now, events>>
  BY DEF UpdateDeliveryDate, worldVars
<1>2. \A s \in Shipments : /\ row'[s].status = row[s].status
                           /\ row'[s].delivery = IF s = t THEN d ELSE row[s].delivery
  BY UpdateDeliveryRow DEF IndInv
<1>3. \A s \in Shipments : Late(s)' = Late(s)
  BY <1>1 DEF Late
<1>4. \A s \in Shipments \ {t} : Columns(s)' = Columns(s)
  BY <1>2, <1>3, ColumnsSame
<1>5. Columns(t)' = [status |-> IF "status" \in {"delivered"} THEN "unknown" ELSE Columns(t).status,
                     est |-> IF "est" \in {"delivered"} THEN None ELSE Columns(t).est,
                     delivered |-> IF "delivered" \in {"delivered"} THEN d
                                   ELSE Columns(t).delivered,
                     delayed |-> Columns(t).delayed
                                 \/ ("status" \in {"delivered"} /\ "unknown" = "delayed")]
  <2> DEFINE late == Columns(t).delayed \/ ("status" \in {"delivered"} /\ "unknown" = "delayed")
  <2>1. Columns(t).delayed = Late(t)
    BY ColumnsFields
  <2>2. late = Late(t)
    <3>1. "status" \notin {"delivered"}
      OBVIOUS
    <3> QED
      BY <2>1, <3>1, Zenon DEF Late
  <2>3. Columns(t).est = None /\ Columns(t).status = row[t].status
    BY ColumnsFields
  <2> HIDE DEF late
  <2>4. Columns(t)' = [status |-> IF "status" \in {"delivered"} THEN "unknown" ELSE Columns(t).status,
                       est |-> IF "est" \in {"delivered"} THEN None ELSE Columns(t).est,
                       delivered |-> IF "delivered" \in {"delivered"} THEN d
                                     ELSE Columns(t).delivered,
                       delayed |-> late]
    BY <1>2, <1>3, <2>2, <2>3, ColumnsFields
  <2> QED
    BY <2>4 DEF late
<1> QED
  BY <1>1, <1>4, <1>5, NoReaders DEF Tables!update_status

\* delete_order, of the order of this shipment.
LEMMA DeleteIsTransaction ==
    ASSUME IndInv, NEW t \in Shipments, DeleteShipment(t)
    PROVE  Tables!delete_order(t)
<1>1. /\ t \in exists /\ exists' = exists \ {t} /\ UNCHANGED <<created, now>>
      /\ \A s \in Shipments : /\ row'[s] = IF s = t THEN NewRow ELSE row[s]
                              /\ events'[s] = IF s = t THEN {} ELSE events[s]
  BY DEF DeleteShipment, worldVars, IndInv, TypeOK
<1>2. \A s \in Shipments \ {t} : Columns(s)' = Columns(s)
  BY <1>1 DEF Columns
<1>3. Columns(t)' = Tables!NewShip
  <2>1. Late(t)' = FALSE
    BY <1>1 DEF Late
  <2>2. row'[t].status = "unknown" /\ row'[t].delivery = None
    BY <1>1 DEF NewRow
  <2> QED
    BY <2>1, <2>2, ColumnsFields DEF Tables!NewShip
<1>4. exists \subseteq created /\ created \subseteq Shipments
  BY DEF IndInv, TypeOK
<1> QED
  BY <1>1, <1>2, <1>3, <1>4, NoReaders DEF Tables!delete_order, Tables!Present

\* A commit, from copies of whatever age, is a sync_shipment of the tables with the
\* statuses of the events it adds; of a shipment that is gone it writes nothing.
LEMMA CommitIsTransaction ==
    ASSUME IndInv, SyncsReport, NEW p \in Actors, Commit(p)
    PROVE  (\E t \in Shipments : Tables!sync_shipment(t)) \/ UNCHANGED Tables!tableVars
<1>0. PICK t \in Shipments : t = cur[p]
  BY CommitRows DEF IndInv
<1>a. PICK N : N = {e.status : e \in draft[p].new}
  OBVIOUS
<1>1. /\ pc[p] = "commit" /\ UNCHANGED <<created, exists, now>>
      /\ \A s \in Shipments : /\ row'[s].status # row[s].status => s = t
                              /\ row'[s].delivery # row[s].delivery => s = t
  BY <1>0, CommitRows DEF IndInv, Commit, worldVars
<1>2. /\ events'[t] = events[t] \cup {[status |-> e.status, at |-> e.at, by |-> p] : e \in draft[p].new}
      /\ \A s \in Shipments \ {t} : events'[s] = events[s]
  BY <1>0 DEF Commit, IndInv, TypeOK
<1>3. \A s \in Shipments \ {t} : Columns(s)' = Columns(s)
  BY <1>1, <1>2, ColumnsSame DEF Late
<1>4. Late(t)' <=> Late(t) \/ "delayed" \in N
  <2> DEFINE R(e) == [status |-> e.status, at |-> e.at, by |-> p]
  <2>1. \A e : R(e).status = e.status
    OBVIOUS
  <2>2. events'[t] = events[t] \cup {R(e) : e \in draft[p].new}
    BY <1>2
  <2> HIDE DEF R
  <2> QED
    BY <1>a, <2>1, <2>2 DEF Late
<1>5. CASE t \in exists
  <2>1. N \in SUBSET Reportable
    BY <1>1, <1>a DEF SyncsReport
  <2>2. row'[t].status \in {row[t].status} \cup N
    BY <1>0, <1>1, <1>a, CommitRows DEF IndInv, DraftHasEvent
  <2>3. row'[t].delivery \in {row[t].delivery} \cup {d \in Tables!Days : "delivered" \in N}
    <3> SUFFICES ASSUME row'[t].delivery # row[t].delivery
                 PROVE  row'[t].delivery \in Tables!Days /\ "delivered" \in N
      OBVIOUS
    <3>1. PICK e \in draft[p].new : e.status = "delivered" /\ e.at = row'[t].delivery
      BY <1>0, <1>1, CommitRows DEF IndInv, DraftDateHasEvent
    <3>2. e \in Event
      BY <1>1 DEF IndInv, TypeOK, Draft
    <3> QED
      BY <1>a, <3>1, <3>2, BoundsAssumption DEF Event, Times, Tables!Days
  <2>4. Columns(t)' = [status |-> row'[t].status, est |-> Columns(t).est,
                       delivered |-> row'[t].delivery,
                       delayed |-> Columns(t).delayed \/ "delayed" \in N]
    <3> DEFINE late == Columns(t).delayed \/ "delayed" \in N
    <3>1. Columns(t).delayed = Late(t)
      BY ColumnsFields
    <3>2. late = Late(t)'
      BY <1>4, <3>1, Zenon DEF Late
    <3>3. Columns(t).est = None
      BY ColumnsFields
    <3> HIDE DEF late
    <3>4. Columns(t)' = [status |-> row'[t].status, est |-> Columns(t).est,
                         delivered |-> row'[t].delivery, delayed |-> late]
      BY <3>2, <3>3, ColumnsFields
    <3> QED
      BY <3>4 DEF late
  <2>5. Columns(t).status = row[t].status /\ Columns(t).delivered = row[t].delivery
    BY ColumnsFields
  <2>6. PICK st \in {Columns(t).status} \cup N,
             d \in {Columns(t).delivered} \cup {k \in Tables!Days : "delivered" \in N} :
               st = row'[t].status /\ d = row'[t].delivery
    BY <2>2, <2>3, <2>5
  <2> DEFINE ships == [s \in Shipments |-> Columns(s)]
  <2>7. ships' = [ships EXCEPT ![t] = [status |-> st, est |-> ships[t].est, delivered |-> d,
                                       delayed |-> ships[t].delayed \/ "delayed" \in N]]
    <3> DEFINE new == [status |-> st, est |-> Columns(t).est, delivered |-> d,
                       delayed |-> Columns(t).delayed \/ "delayed" \in N]
    <3>1. Columns(t)' = new
      BY <2>4, <2>6
    <3> HIDE DEF new
    <3>2. ships' = [ships EXCEPT ![t] = new]
      BY <1>3, <3>1
    <3> QED
      BY <3>2 DEF new
  <2>8. ships[t] = Columns(t)
    OBVIOUS
  <2> HIDE DEF ships
  <2>9. \E M \in SUBSET Reportable :
          \E b \in {ships[t].status} \cup M,
             c \in {ships[t].delivered} \cup {k \in Tables!Days : "delivered" \in M} :
            ships' = [ships EXCEPT ![t] = [status |-> b, est |-> ships[t].est, delivered |-> c,
                                           delayed |-> ships[t].delayed \/ "delayed" \in M]]
    BY <2>1, <2>6, <2>7, <2>8
  <2>10. UNCHANGED <<now, [s \in Shipments |-> IF s \in created \ exists THEN "deleted" ELSE "open"],
                     exists>>
    BY <1>1
  <2>11. Tables!sync_shipment(t)
    BY <1>5, <2>9, <2>10, NoReaders, Zenon DEF Tables!sync_shipment, ships
  <2> QED
    BY <2>11
<1>6. CASE t \notin exists
  <2>1. draft[p].new = {}
    BY <1>0, <1>6 DEF Commit, Dirty
  <2>2. row'[t] = row[t] /\ events'[t] = events[t]
    BY <1>0, <1>2, <1>6, <2>1 DEF Commit, IndInv, TypeOK
  <2>3. Columns(t)' = Columns(t)
    BY <2>2 DEF Columns
  <2> QED
    BY <1>1, <1>3, <2>3 DEF Tables!tableVars
<1> QED
  BY <1>5, <1>6

\* Every step is a transaction or leaves the tables alone.
LEMMA TransactionStep ==
    ASSUME IndInv, SyncsReport, NoRowNoEvents, [Next]_vars
    PROVE  [Transaction]_(Tables!tableVars)
<1>1. CASE UNCHANGED tableVars
  <2>1. /\ UNCHANGED <<created, exists>>
        /\ \A s \in Shipments : Columns(s)' = Columns(s)
    BY <1>1 DEF tableVars, Columns
  <2>2. CASE now' = now
    BY <2>1, <2>2 DEF Tables!tableVars
  <2>3. CASE Tick
    BY <2>1, <2>3 DEF Tick, Transaction, Tables!Midnight
  <2> QED
    BY <2>2, <2>3, ClockStep
<1>2. ASSUME NEW s \in Shipments, NEW st \in CreateStatuses, CreateShipment(s, st)
      PROVE  Transaction
  BY <1>2, CreateIsTransaction DEF Transaction
<1>3. ASSUME NEW s \in Shipments, NEW st \in ManualStatuses, UpdateStatus(s, st)
      PROVE  Transaction
  BY <1>3, UpdateIsTransaction DEF Transaction
<1>4. ASSUME NEW s \in Shipments, NEW d \in {now, None}, UpdateDeliveryDate(s, d) PROVE Transaction
  BY <1>4, DateIsTransaction DEF Transaction
<1>5. ASSUME NEW s \in Shipments, DeleteShipment(s) PROVE Transaction
  BY <1>5, DeleteIsTransaction DEF Transaction
<1>6. ASSUME NEW p \in Actors, Commit(p) PROVE [Transaction]_(Tables!tableVars)
  BY <1>6, CommitIsTransaction DEF Transaction
<1> QED
  BY <1>1, <1>2, <1>3, <1>4, <1>5, <1>6, TableStep

\* However the sessions of worker, requests and users interleave and whichever of
\* them crash, what the tables see of the refresh is what ParcelTables says of it:
\* each commit of sync_shipment is one transaction on one shipment.
THEOREM ParcelTablesImplemented == Spec => ImplementsParcelTables
<1> DEFINE Inv == SyncsReport /\ NoRowNoEvents
<1>1. Init => Inv
  BY DEF Init, SyncsReport, NoRowNoEvents
<1>2. IndInv /\ Inv /\ [Next]_vars => Inv'
  BY SyncsReportKept, NoRowNoEventsKept
<1>3. IndInv /\ Inv /\ [Next]_vars => [Transaction]_(Tables!tableVars)
  BY TransactionStep
<1> QED
  BY <1>1, <1>2, <1>3, IndInvHolds, PTL DEF Spec, ImplementsParcelTables

=============================================================================
