---------------------------- MODULE TrackingSync ----------------------------
(***************************************************************************)
(* Tracking refresh: TrackingSyncService.sync_shipment, run by the         *)
(* tracking worker (a pass over all shipments that are not delivered or    *)
(* returned, in one database session) and by refresh-tracking requests of  *)
(* the API server, each with its own session.                              *)
(*                                                                         *)
(* A sync waits for the tracking provider (register, update) and for the   *)
(* notification channels between reading a shipment and committing it, so  *)
(* other sessions commit in between.  A session works on copies of the     *)
(* rows: an UPDATE writes only the columns whose value differs from the    *)
(* one that was loaded, a commit writes every changed row of the session   *)
(* and expires all its copies, and an expired copy is loaded again when it *)
(* is next used (SQLAlchemy's Session; autoflush is off, database.py:26).  *)
(*                                                                         *)
(* Every shipment has a tracking number of its own.                        *)
(***************************************************************************)
EXTENDS Integers, FiniteSets, TrackingProviders

CONSTANTS
    Tracker,          \* the tracking worker process (tracking_worker.py)
    Requests,         \* threads of the API server running refresh_tracking
    Shipments,        \* primary keys of shipments, each given out once
    Providers,        \* names tracking_provider.name may have ("aftership", ...)
    EnrolsOnUpdate,   \* providers whose update() registers by itself (ship24)
    Refuses,          \* providers whose register() returns on a refusal (ship24, 17TRACK)
    NaiveTimes,       \* TRUE when the providers send times without an offset
    RawStatuses,      \* the words the providers send
    Possible,         \* Possible[s]: the carrier events that may be reported
    InOrder,          \* TRUE when events are reported in order of occurrence
    DefaultStatuses,  \* statuses of new shipments: the API's default, the importer's
    ManualStatuses,   \* statuses users set through the API
    Deletable,        \* shipments whose order a user may delete
    Datable,          \* shipments whose delivery date a user may set or clear
    None,
    MaxTime,          \* bound of the clock
    MaxSwitches,      \* bound: changes of the configured provider
    MaxFailures       \* bound: failed requests and crashes in a behaviour

Actors == {Tracker} \cup Requests
Times == 1 .. MaxTime

Statuses == {"unknown", "label_created", "in_transit", "out_for_delivery",
             "delivered", "delayed", "exception", "returned"}
TERMINAL_STATUSES == {"delivered", "returned"}
NotifyOnStatuses == {"delivered", "delayed"}

\* A carrier event as a provider reports it; some have no time.
RawEvent == [raw : RawStatuses, at : Times \cup {None}]

ASSUME ActorsAssumption == Tracker \notin Requests /\ None \notin Actors
ASSUME ShipmentsAssumption == None \notin Shipments /\ Deletable \subseteq Shipments
ASSUME ProvidersAssumption ==
    Providers # {} /\ EnrolsOnUpdate \subseteq Providers /\ Refuses \subseteq Providers
ASSUME BoundsAssumption ==
    MaxTime \in Nat \ {0} /\ MaxSwitches \in Nat /\ MaxFailures \in Nat
ASSUME TimesAssumption ==
    None \notin Int /\ NaiveTimes \in BOOLEAN /\ InOrder \in BOOLEAN
ASSUME EventsAssumption ==
    /\ Possible \in [Shipments -> SUBSET RawEvent]
    /\ DefaultStatuses \subseteq {"unknown", "label_created"}
    /\ ManualStatuses \subseteq Statuses

VARIABLES
    \* the world outside
    now,              \* the clock
    reported,         \* reported[s]: carrier events the providers know of
    enrolled,         \* enrolled[q]: shipments registered with provider q
    provider,         \* tracking_provider.name of config.yaml
    \* committed rows
    created,          \* primary keys given out so far
    exists,           \* rows of shipments
    row,              \* their columns
    events,           \* events[s]: the tracking_events of a shipment
    \* one session per actor
    pc,
    todo,             \* shipments the pass has not reached
    cur,              \* the shipment being synced
    loaded,           \* shipments whose columns are loaded and not expired
    copy,             \* the columns as they were loaded
    listed,           \* shipments whose tracking_events are loaded
    known,            \* the loaded tracking_events
    pending,          \* shipments with tracking_registered set, not committed
    reply,            \* what update() returned
    draft,            \* the new columns and events, not committed
    \* outcomes
    announced,        \* pairs of shipment and status a notification was sent for
    switches, failures,
    \* history variables of the properties, never read by an action
    initial,          \* the status a shipment was created with
    cleared,          \* shipments whose delivery date was last written by a user, to null
    accepted          \* shipments for which a call of register() has returned

worldVars == <<now, reported, enrolled, provider, switches, accepted>>
tableVars == <<created, exists, row, events, initial, cleared>>
sessionVars == <<pc, todo, cur, loaded, copy, listed, known, pending, reply, draft>>
vars == <<worldVars, tableVars, sessionVars, announced, failures>>

\* The columns of Shipment that a sync reads or writes.
Row == [status : Statuses, registered : BOOLEAN,
        delivery : Times \cup {None}, last : Times \cup {None}]

\* A provider event after _map_status and parse_timestamp, and a
\* TrackingEvent row: the same with the session that inserted it.
Event == [status : Statuses, at : Times]
EventRow == [status : Statuses, at : Times, by : Actors \cup {None}]

Draft == [status : Statuses, delivery : Times \cup {None}, last : Times \cup {None},
          new : SUBSET Event]

NewRow == [status |-> "unknown", registered |-> FALSE, delivery |-> None, last |-> None]
NoDraft == [status |-> "unknown", delivery |-> None, last |-> None, new |-> {}]

Init ==
    /\ now = 1
    /\ reported = [s \in Shipments |-> {}]
    /\ enrolled = [q \in Providers |-> {}]
    /\ provider \in Providers
    /\ switches = 0
    /\ created = {} /\ exists = {}
    /\ row = [s \in Shipments |-> NewRow]
    /\ events = [s \in Shipments |-> {}]
    /\ initial = [s \in Shipments |-> "unknown"]
    /\ cleared = {} /\ accepted = {}
    /\ pc = [p \in Actors |-> "idle"]
    /\ todo = {}
    /\ cur = [p \in Actors |-> None]
    /\ loaded = [p \in Actors |-> {}]
    /\ copy = [p \in Actors |-> [s \in Shipments |-> NewRow]]
    /\ listed = [p \in Actors |-> {}]
    /\ known = [p \in Actors |-> [s \in Shipments |-> {}]]
    /\ pending = [p \in Actors |-> {}]
    /\ reply = [p \in Actors |-> {}]
    /\ draft = [p \in Actors |-> NoDraft]
    /\ announced = {}
    /\ failures = 0

-----------------------------------------------------------------------------
(* The carriers, the operator and the users.                               *)

Tick ==
    /\ now < MaxTime
    /\ now' = now + 1
    /\ UNCHANGED <<reported, enrolled, provider, switches, accepted, tableVars, sessionVars,
                   announced, failures>>

\* A carrier event becomes known to the providers, in order or late.
Report(s, e) ==
    /\ e \in Possible[s] \ reported[s]
    /\ e.at # None => e.at <= now
    /\ InOrder => \A f \in reported[s] : f.at # None /\ e.at # None => f.at < e.at
    /\ reported' = [reported EXCEPT ![s] = @ \cup {e}]
    /\ UNCHANGED <<now, enrolled, provider, switches, accepted, tableVars, sessionVars,
                   announced, failures>>

\* The operator edits config.yaml and restarts the processes: the settings
\* are cached per process (config.py:214).
Reconfigure(q) ==
    /\ switches < MaxSwitches
    /\ \A p \in Actors : pc[p] = "idle"
    /\ q # provider
    /\ provider' = q
    /\ switches' = switches + 1
    /\ UNCHANGED <<now, reported, enrolled, accepted, tableVars, sessionVars, announced, failures>>

\* The statuses a shipment may start with: the default of the API, the one
\* the importer gives, or any that a user enters.
CreateStatuses == DefaultStatuses \cup ManualStatuses

\* Mutant: the key of a deleted shipment is given out again.
CreateReusingKeys(s, st) ==
    /\ s \notin exists
    /\ exists' = exists \cup {s}
    /\ row' = [row EXCEPT ![s] = [NewRow EXCEPT !.status = st]]
    /\ initial' = [initial EXCEPT ![s] = st]
    /\ UNCHANGED <<created, events, cleared, worldVars, sessionVars, announced, failures>>

\* create_shipment, or the importer.
CreateShipment(s, st) ==
    /\ s \notin created
    /\ created' = created \cup {s}
    /\ exists' = exists \cup {s}
    /\ row' = [row EXCEPT ![s] = [NewRow EXCEPT !.status = st]]
    /\ initial' = [initial EXCEPT ![s] = st]
    /\ UNCHANGED <<events, cleared, worldVars, sessionVars, announced, failures>>

\* Mutant: the history is not written.
UpdateStatusOnly(s, st) ==
    /\ s \in exists
    /\ row' = [row EXCEPT ![s].status = st, ![s].last = now]
    /\ UNCHANGED <<created, exists, initial, cleared, events, worldVars, sessionVars,
                   announced, failures>>

\* update_status with a tracking_status: the change is entered in the history.
UpdateStatus(s, st) ==
    /\ s \in exists
    /\ row' = [row EXCEPT ![s].status = st, ![s].last = now]
    /\ events' = [events EXCEPT ![s] = @ \cup {[status |-> st, at |-> now, by |-> None]}]
    /\ UNCHANGED <<created, exists, initial, cleared, worldVars, sessionVars, announced, failures>>

\* update_status with a delivery_date only, which may be an explicit null.
UpdateDeliveryDate(s, d) ==
    /\ s \in exists \cap Datable
    /\ row' = [row EXCEPT ![s].delivery = d]
    /\ cleared' = IF d = None THEN cleared \cup {s} ELSE cleared \ {s}
    /\ UNCHANGED <<created, exists, initial, events, worldVars, sessionVars,
                   announced, failures>>

\* delete_order: the shipments of the order and their history go with it.
DeleteShipment(s) ==
    /\ s \in exists \cap Deletable
    /\ exists' = exists \ {s}
    /\ row' = [row EXCEPT ![s] = NewRow]
    /\ events' = [events EXCEPT ![s] = {}]
    /\ initial' = [initial EXCEPT ![s] = "unknown"]
    /\ cleared' = cleared \ {s}
    /\ UNCHANGED <<created, worldVars, sessionVars, announced, failures>>

-----------------------------------------------------------------------------
(* sync_shipment, and the loop of sync_due_shipments around it.            *)

\* The tracking_events of a shipment as sync_shipment compares them.
History(s) == {[status |-> e.status, at |-> e.at] : e \in events[s]}

\* The session is closed: what was not committed is lost.
Close(p) ==
    /\ pc' = [pc EXCEPT ![p] = "idle"]
    /\ todo' = IF p = Tracker THEN {} ELSE todo
    /\ cur' = [cur EXCEPT ![p] = None]
    /\ loaded' = [loaded EXCEPT ![p] = {}]
    /\ copy' = [copy EXCEPT ![p] = [s \in Shipments |-> NewRow]]
    /\ listed' = [listed EXCEPT ![p] = {}]
    /\ known' = [known EXCEPT ![p] = [s \in Shipments |-> {}]]
    /\ pending' = [pending EXCEPT ![p] = {}]
    /\ reply' = [reply EXCEPT ![p] = {}]
    /\ draft' = [draft EXCEPT ![p] = NoDraft]

\* An exception other than httpx.HTTPError leaves sync_shipment: it ends the
\* request, or the pass and with it the worker process.
Abort(p) ==
    /\ Close(p)
    /\ UNCHANGED <<worldVars, tableVars, announced, failures>>

\* Mutant: a failed delivery attempt is taken for the end.
ListNonTerminalStrict ==
    {s \in exists : row[s].status \notin TERMINAL_STATUSES \cup {"exception"}}

\* list_non_terminal
ListNonTerminal == {s \in exists : row[s].status \notin TERMINAL_STATUSES}

\* run_tracking_sync opens a session and loads the shipments with their events.
StartPass ==
    /\ pc[Tracker] = "idle"
    /\ pc' = [pc EXCEPT ![Tracker] = "loop"]
    /\ todo' = ListNonTerminal
    /\ loaded' = [loaded EXCEPT ![Tracker] = ListNonTerminal]
    /\ listed' = [listed EXCEPT ![Tracker] = ListNonTerminal]
    /\ copy' = [copy EXCEPT ![Tracker] =
                  [s \in Shipments |-> IF s \in ListNonTerminal THEN row[s] ELSE NewRow]]
    /\ known' = [known EXCEPT ![Tracker] =
                  [s \in Shipments |-> IF s \in ListNonTerminal THEN History(s) ELSE {}]]
    /\ UNCHANGED <<cur, pending, reply, draft, worldVars, tableVars, announced, failures>>

\* The first provider call that sync_shipment makes.
FirstCall(registered) == IF registered THEN "update" ELSE "register"

\* The loop reaches a shipment; its columns are loaded again if they expired.
Take(s) ==
    LET c == IF s \in loaded[Tracker] THEN copy[Tracker][s] ELSE row[s] IN
    /\ pc[Tracker] = "loop"
    /\ s \in todo
    /\ s \in loaded[Tracker] \cup exists
    /\ todo' = todo \ {s}
    /\ cur' = [cur EXCEPT ![Tracker] = s]
    /\ loaded' = [loaded EXCEPT ![Tracker] = @ \cup {s}]
    /\ copy' = [copy EXCEPT ![Tracker][s] = c]
    /\ pc' = [pc EXCEPT ![Tracker] = FirstCall(c.registered)]
    /\ UNCHANGED <<listed, known, pending, reply, draft, worldVars, tableVars,
                   announced, failures>>

\* ... which raises ObjectDeletedError when the row is gone.
TakeRaises(s) ==
    /\ pc[Tracker] = "loop"
    /\ s \in todo
    /\ s \notin loaded[Tracker] \cup exists
    /\ Abort(Tracker)

EndPass ==
    /\ pc[Tracker] = "loop"
    /\ todo = {}
    /\ Abort(Tracker)

\* refresh_tracking loads the shipment with its events, whatever its status.
RefreshTracking(p, s) ==
    /\ pc[p] = "idle"
    /\ s \in exists
    /\ pc' = [pc EXCEPT ![p] = FirstCall(row[s].registered)]
    /\ cur' = [cur EXCEPT ![p] = s]
    /\ loaded' = [loaded EXCEPT ![p] = {s}]
    /\ copy' = [copy EXCEPT ![p][s] = row[s]]
    /\ listed' = [listed EXCEPT ![p] = {s}]
    /\ known' = [known EXCEPT ![p][s] = History(s)]
    /\ UNCHANGED <<todo, pending, reply, draft, worldVars, tableVars, announced, failures>>

\* What a call of register() that returns may have registered: the number, or
\* nothing, when the provider refuses it in an answer with status 200 that is not
\* looked at (17TRACK's result by item, Ship24 without a trackerId).
Registrations(s) == IF provider \in Refuses THEN {{}, {s}} ELSE {{s}}

\* provider.register returns.
Register(p) ==
    /\ pc[p] = "register"
    /\ \E E \in Registrations(cur[p]) : enrolled' = [enrolled EXCEPT ![provider] = @ \cup E]
    /\ accepted' = accepted \cup {cur[p]}
    /\ pending' = [pending EXCEPT ![p] = @ \cup {cur[p]}]
    /\ pc' = [pc EXCEPT ![p] = "update"]
    /\ UNCHANGED <<todo, cur, loaded, copy, listed, known, reply, draft,
                   now, reported, provider, switches, tableVars, announced, failures>>

\* httpx.HTTPError: the request ends with 502; the loop goes on to the next
\* shipment with the same session, nothing rolled back.
HTTPError(p) ==
    /\ failures < MaxFailures
    /\ failures' = failures + 1
    /\ \/ /\ p # Tracker
          /\ Close(p)
       \/ /\ p = Tracker
          /\ pc' = [pc EXCEPT ![p] = "loop"]
          /\ cur' = [cur EXCEPT ![p] = None]
          /\ UNCHANGED <<todo, loaded, copy, listed, known, pending, reply, draft>>

\* Mutant: the flag is set before the call.
RegisterFailsMarked(p) ==
    /\ pc[p] = "register"
    /\ p = Tracker
    /\ failures < MaxFailures
    /\ failures' = failures + 1
    /\ pending' = [pending EXCEPT ![p] = @ \cup {cur[p]}]
    /\ pc' = [pc EXCEPT ![p] = "loop"]
    /\ cur' = [cur EXCEPT ![p] = None]
    /\ UNCHANGED <<todo, loaded, copy, listed, known, reply, draft,
                   worldVars, tableVars, announced>>

\* provider.register fails, or times out after the provider has done it.
RegisterFails(p) ==
    /\ pc[p] = "register"
    /\ \E E \in {{}, {cur[p]}} : enrolled' = [enrolled EXCEPT ![provider] = @ \cup E]
    /\ HTTPError(p)
    /\ UNCHANGED <<now, reported, provider, switches, accepted, tableVars, announced>>

\* What update() may register: ship24's does it with a number that its process has
\* not registered yet, and may be refused.
Enrolments(s) == IF provider \in EnrolsOnUpdate THEN {{}, {s}} ELSE {{}}

\* A provider answers on the shipments registered with it, E among them.
Reported(s, E) == IF s \in enrolled[provider] \cup E THEN reported[s] ELSE {}

\* _map_status: an unrecognised status string stands for in_transit.
MapStatus(raw) == IF raw \in Statuses THEN raw ELSE "in_transit"

\* parse_timestamp: an event without a time is given the time of the call.
ParseTimestamp(at) == IF at = None THEN now ELSE at

\* sorted(events) cannot compare a time without an offset with the "now" (in
\* UTC) that stands in for a missing time.
Unsortable(R) == NaiveTimes /\ \E e, f \in R : e.at = None /\ f.at # None

\* provider.update succeeds ...
Update(p) ==
    /\ pc[p] = "update"
    /\ \E E \in Enrolments(cur[p]) :
         LET R == Reported(cur[p], E) IN
         /\ ~Unsortable(R)
         /\ enrolled' = [enrolled EXCEPT ![provider] = @ \cup E]
         /\ reply' = [reply EXCEPT ![p] =
                        {[status |-> MapStatus(ProviderStatus(provider, e.raw)),
                          at |-> ParseTimestamp(e.at)] : e \in R}]
    /\ pc' = [pc EXCEPT ![p] = "apply"]
    /\ UNCHANGED <<todo, cur, loaded, copy, listed, known, pending, draft, now, reported,
                   provider, switches, accepted, tableVars, announced, failures>>

\* ... and the sort of its events raises TypeError.
UpdateRaises(p) ==
    /\ pc[p] = "update"
    /\ \E E \in Enrolments(cur[p]) :
         /\ Unsortable(Reported(cur[p], E))
         /\ enrolled' = [enrolled EXCEPT ![provider] = @ \cup E]
    /\ Close(p)
    /\ UNCHANGED <<now, reported, provider, switches, accepted, tableVars, announced, failures>>

\* provider.update fails, maybe after it has registered the number.
UpdateFails(p) ==
    /\ pc[p] = "update"
    /\ \E E \in Enrolments(cur[p]) : enrolled' = [enrolled EXCEPT ![provider] = @ \cup E]
    /\ HTTPError(p)
    /\ UNCHANGED <<now, reported, provider, switches, accepted, tableVars, announced>>

\* The events of the shipment at hand: loaded with it, or when first used.
Known(p) == IF cur[p] \in listed[p] THEN known[p][cur[p]] ELSE History(cur[p])

\* Mutant: events are told apart by their status alone.
FreshByStatus(p) == {e \in reply[p] : \A k \in Known(p) : k.status # e.status}

\* The events of the reply that are not known.
Fresh(p) == reply[p] \ Known(p)

\* The ones with the latest occurred_at in a set of events: the last of the
\* sorted list is one of them.
Latest(E) == {e \in E : \A f \in E : f.at <= e.at}

\* Mutant: the date is set when the shipment was already delivered.
DeliveryDateLate(p, E) ==
    IF E # {} /\ copy[p][cur[p]].status = "delivered"
    THEN (CHOOSE e \in Latest(E) : TRUE).at ELSE copy[p][cur[p]].delivery

\* delivery_date after the loop: that of the last new delivered event.
DeliveryDate(p, E) ==
    LET D == {e \in E : e.status = "delivered"} IN
    IF D # {} THEN (CHOOSE e \in Latest(D) : TRUE).at ELSE copy[p][cur[p]].delivery

\* last_update after the loop: the latest time of the whole reply.
LastUpdate(p) ==
    IF reply[p] # {} THEN (CHOOSE e \in Latest(reply[p]) : TRUE).at
                     ELSE copy[p][cur[p]].last

\* Mutant: only the worker has a dispatcher.
DispatchedByTracker(p, st) ==
    IF p = Tracker /\ st # copy[p][cur[p]].status /\ st \in NotifyOnStatuses
    THEN {<<cur[p], st>>} ELSE {}

\* The notification of a change of status, against the status that was loaded.
Dispatched(p, st) ==
    IF st # copy[p][cur[p]].status /\ st \in NotifyOnStatuses
    THEN {<<cur[p], st>>} ELSE {}

\* The loop over the events: the status is that of the last new event; the
\* notification goes out before the commit.
Apply(p) ==
    /\ pc[p] = "apply"
    /\ \E st \in IF Fresh(p) = {} THEN {copy[p][cur[p]].status}
                                  ELSE {e.status : e \in Latest(Fresh(p))} :
         /\ draft' = [draft EXCEPT ![p] =
                        [status |-> st, delivery |-> DeliveryDate(p, Fresh(p)),
                         last |-> LastUpdate(p), new |-> Fresh(p)]]
         /\ announced' = announced \cup Dispatched(p, st)
    /\ pc' = [pc EXCEPT ![p] = "commit"]
    /\ UNCHANGED <<todo, cur, loaded, copy, listed, known, pending, reply,
                   worldVars, tableVars, failures>>

\* Mutant: the flush writes the whole row.
WrittenWhole(p, old) ==
    [status |-> draft[p].status,
     registered |-> old.registered \/ cur[p] \in pending[p],
     delivery |-> draft[p].delivery,
     last |-> draft[p].last]

\* What the flush writes to the shipment at hand: changed columns only.  last_update
\* is written whenever there was a reply, since the time that was loaded has an
\* offset (on PostgreSQL) and the new one has none.
Written(p, old) ==
    LET c == copy[p][cur[p]]
        d == draft[p]
    IN
    [status |-> IF d.status # c.status THEN d.status ELSE old.status,
     registered |-> old.registered \/ cur[p] \in pending[p],
     delivery |-> IF d.delivery # c.delivery THEN d.delivery ELSE old.delivery,
     last |-> IF reply[p] # {} THEN d.last ELSE old.last]

\* The rows the flush updates or inserts events for.
Dirty(p) ==
    LET c == copy[p][cur[p]]
        d == draft[p]
    IN
    pending[p] \cup
        IF d.new # {} \/ d.status # c.status \/ d.delivery # c.delivery \/ reply[p] # {}
        THEN {cur[p]} ELSE {}

\* The commit writes the shipment at hand and every flag that is pending, and
\* expires all copies of the session.
Commit(p) ==
    /\ pc[p] = "commit"
    /\ Dirty(p) \subseteq exists
    /\ row' = [s \in Shipments |->
                 CASE s = cur[p] /\ s \in exists -> Written(p, row[s])
                   [] s # cur[p] /\ s \in pending[p] -> [row[s] EXCEPT !.registered = TRUE]
                   [] OTHER -> row[s]]
    /\ events' = [events EXCEPT ![cur[p]] = @ \cup
                    {[status |-> e.status, at |-> e.at, by |-> p] : e \in draft[p].new}]
    /\ cleared' = cleared \ {s \in {cur[p]} : draft[p].delivery # copy[p][s].delivery}
    /\ pending' = [pending EXCEPT ![p] = {}]
    /\ loaded' = [loaded EXCEPT ![p] = {}]
    /\ copy' = [copy EXCEPT ![p] = [s \in Shipments |-> NewRow]]
    /\ listed' = [listed EXCEPT ![p] = {}]
    /\ known' = [known EXCEPT ![p] = [s \in Shipments |-> {}]]
    /\ reply' = [reply EXCEPT ![p] = {}]
    /\ draft' = [draft EXCEPT ![p] = NoDraft]
    /\ pc' = [pc EXCEPT ![p] = "refresh"]
    /\ UNCHANGED <<todo, cur, created, exists, initial, worldVars, announced, failures>>

\* A row to be written was deleted meanwhile: StaleDataError or IntegrityError.
CommitRaises(p) ==
    /\ pc[p] = "commit"
    /\ ~(Dirty(p) \subseteq exists)
    /\ Abort(p)

\* db.refresh(shipment), the end of sync_shipment: the loop goes on, or the
\* request has its answer.
Refresh(p) ==
    /\ pc[p] = "refresh"
    /\ cur[p] \in exists
    /\ \/ /\ p # Tracker
          /\ Close(p)
       \/ /\ p = Tracker
          /\ pc' = [pc EXCEPT ![p] = "loop"]
          /\ cur' = [cur EXCEPT ![p] = None]
          /\ UNCHANGED <<todo, loaded, copy, listed, known, pending, reply, draft>>
    /\ UNCHANGED <<worldVars, tableVars, announced, failures>>

RefreshRaises(p) ==
    /\ pc[p] = "refresh"
    /\ cur[p] \notin exists
    /\ Abort(p)

\* A crash, a lost database connection or a reply that is not JSON.
Fail(p) ==
    /\ pc[p] # "idle"
    /\ failures < MaxFailures
    /\ failures' = failures + 1
    /\ Close(p)
    /\ UNCHANGED <<worldVars, tableVars, announced>>

-----------------------------------------------------------------------------
PassStep == StartPass \/ EndPass \/ \E s \in Shipments : Take(s) \/ TakeRaises(s)

SyncStep(p) ==
    \/ Register(p) \/ RegisterFails(p)
    \/ Update(p) \/ UpdateRaises(p) \/ UpdateFails(p)
    \/ Apply(p) \/ Commit(p) \/ CommitRaises(p)
    \/ Refresh(p) \/ RefreshRaises(p)

Next ==
    \/ Tick
    \/ \E s \in Shipments, e \in RawEvent : Report(s, e)
    \/ \E q \in Providers : Reconfigure(q)
    \/ \E s \in Shipments, st \in CreateStatuses : CreateShipment(s, st)
    \/ \E s \in Shipments, st \in ManualStatuses : UpdateStatus(s, st)
    \/ \E s \in Shipments, d \in {now, None} : UpdateDeliveryDate(s, d)
    \/ \E s \in Shipments : DeleteShipment(s)
    \/ PassStep
    \/ \E p \in Requests, s \in Shipments : RefreshTracking(p, s)
    \/ \E p \in Actors : SyncStep(p) \/ Fail(p)

Spec == Init /\ [][Next]_vars

(***************************************************************************)
(* The worker's loop starts a pass every poll interval and goes on with    *)
(* it (a process that dies is restarted: docker-compose.yml, "restart:     *)
(* unless-stopped").  Every call has a timeout, so that a started sync     *)
(* goes on as well.  Nobody is obliged to press "refresh".                 *)
(***************************************************************************)
Fairness ==
    /\ WF_vars(PassStep)
    /\ \A p \in Actors : WF_vars(SyncStep(p))

FairSpec == Spec /\ Fairness

-----------------------------------------------------------------------------
(* Properties.                                                             *)

PCs == {"idle", "loop", "register", "update", "apply", "commit", "refresh"}

\* Every variable has its type, and a sync in progress has a shipment.
TypeOK ==
    /\ now \in Times
    /\ reported \in [Shipments -> SUBSET RawEvent]
    /\ enrolled \in [Providers -> SUBSET Shipments]
    /\ provider \in Providers
    /\ switches \in 0 .. MaxSwitches
    /\ created \subseteq Shipments /\ exists \subseteq created
    /\ row \in [Shipments -> Row]
    /\ events \in [Shipments -> SUBSET EventRow]
    /\ initial \in [Shipments -> Statuses]
    /\ cleared \subseteq Shipments /\ accepted \subseteq Shipments
    /\ pc \in [Actors -> PCs]
    /\ todo \subseteq Shipments
    /\ cur \in [Actors -> Shipments \cup {None}]
    /\ \A p \in Actors : pc[p] \notin {"idle", "loop"} => cur[p] \in Shipments
    /\ loaded \in [Actors -> SUBSET Shipments]
    /\ copy \in [Actors -> [Shipments -> Row]]
    /\ listed \in [Actors -> SUBSET Shipments]
    /\ known \in [Actors -> [Shipments -> SUBSET Event]]
    /\ pending \in [Actors -> SUBSET Shipments]
    /\ reply \in [Actors -> SUBSET Event]
    /\ draft \in [Actors -> Draft]
    /\ announced \subseteq Shipments \X Statuses
    /\ failures \in 0 .. MaxFailures

\* tracking_registered is only ever set for a shipment for which register() has
\* been called and has returned (models/shipment.py:41, "Whether register() has
\* already been called"), although the flag is written by a later commit than that
\* of its own sync when update() fails.  Whether the provider knows the number is
\* another matter: see Register.
RegisteredIsAccepted == \A s \in exists : row[s].registered => s \in accepted

\* A status is never shown that the history does not explain: whatever
\* sessions overwrite each other, the status of a shipment is that of one of
\* its tracking events or the one it was created with.
StatusHasEvent ==
    \A s \in exists :
        row[s].status = initial[s] \/ \E e \in events[s] : e.status = row[s].status

\* The user did it: through PATCH, or when the shipment was created.
SetByUser(s, st) == initial[s] = st \/ \E e \in events[s] : e.status = st /\ e.by = None

\* A shipment the provider reported delivered has a delivery date (the
\* dashboard and the statistics count by it), unless a user has taken it out and
\* no commit has written one since.
DeliveredIsDated ==
    \A s \in exists : row[s].status = "delivered" =>
        row[s].delivery # None \/ SetByUser(s, "delivered") \/ s \in cleared

\* A delivered or delayed shipment was announced, whichever of the racing
\* sessions wrote the status and whatever crashed.
StatusIsAnnounced ==
    \A s \in exists : row[s].status \in NotifyOnStatuses =>
        <<s, row[s].status>> \in announced \/ SetByUser(s, row[s].status)

\* No provider's words mean "delayed": a delayed shipment, which the dashboard
\* and MQTT count and the notifications are said to announce, is always one
\* that a user marked so.
DelayIsSetByUser ==
    \A s \in exists : row[s].status = "delayed" => SetByUser(s, "delayed")

\* A sync that commits has recorded every event of the provider's reply,
\* though it left out the ones it took for known from an older read.
ReplyIsRecorded ==
    [][\A p \in Actors : Commit(p) /\ cur[p] \in exists => reply[p] \subseteq History(cur[p])']_vars

Recorded(s, q, e) ==
    [status |-> MapStatus(ProviderStatus(q, e.raw)), at |-> e.at] \in History(s)

\* An event the configured provider knows of, for a number it has taken, is
\* recorded in the end, unless the shipment is delivered, returned or deleted or
\* the provider changed.
EventIsRecorded ==
    \A s \in Shipments, q \in Providers : \A e \in Possible[s] :
        (s \in exists /\ provider = q /\ e \in reported[s] /\ e.at # None /\ s \in enrolled[q])
        ~> (\/ Recorded(s, q, e) \/ s \notin exists \/ provider # q
            \/ row[s].status \in TERMINAL_STATUSES)

\* What a reader of the committed rows sees: the status, the date and the
\* history of each shipment.
Promise ==
    INSTANCE ShipmentHistory WITH
        status <- [s \in Shipments |-> row[s].status],
        delivery <- [s \in Shipments |-> row[s].delivery],
        history <- [s \in Shipments |-> History(s)]

\* sync_shipment keeps the promise of ShipmentHistory: however the sessions
\* of worker, requests and users interleave, every change of a shipment is
\* one that its history explains, nothing is taken out of the history, and
\* no column goes back to a value that a session read earlier.
ImplementsShipmentHistory == Promise!Spec

\* A shipment in the tables that the rest of the installation reads, each with an
\* order of its own; estimated dates are not of this module.
Columns(s) ==
    [status |-> row[s].status, est |-> None, delivered |-> row[s].delivery,
     delayed |-> \E e \in events[s] : e.status = "delayed"]

\* The statuses that the words of the providers stand for.
Reportable == {MapStatus(ProviderStatus(q, w)) : q \in Providers, w \in RawStatuses}

Tables ==
    INSTANCE ParcelTables WITH
        Users <- {"user"}, Mqtt <- "mqtt", Mailboxes <- {}, Deployments <- {}, Limit <- 1,
        Orders <- Shipments, OwnerOf <- [s \in Shipments |-> "user"],
        OrderOf <- [s \in Shipments |-> s],
        NewStatuses <- Reportable, MaxDay <- MaxTime,
        deployed <- [days |-> MaxTime], today <- now, writes <- 0, faults <- 0,
        order <- [s \in Shipments |-> IF s \in created \ exists THEN "deleted" ELSE "open"],
        rows <- exists, ship <- [s \in Shipments |-> Columns(s)],
        read <- [r \in {"user", "mqtt"} |-> [at |-> 0]]

\* The transactions of ParcelTables that this module has.
Transaction ==
    \/ Tables!Midnight
    \/ \E s \in Shipments :
          \/ \E st \in CreateStatuses : Tables!create_shipment(s, st, None, None)
          \/ Tables!delete_order(s)
          \/ \E d \in {now, None} : Tables!update_status(s, {"delivered"}, "unknown", None, d)
          \/ \E st \in ManualStatuses : Tables!update_status(s, {"status"}, st, None, None)
          \/ Tables!sync_shipment(s)

\* What the rest of the installation takes for one transaction on the tables,
\* ParcelTables!sync_shipment, is what the sessions of this module come to: however
\* stale the copies are that a commit is written from, it changes one shipment, to
\* what its own new events say, and no step but those of the users changes more.
ImplementsParcelTables == [][Transaction]_(Tables!tableVars)

-----------------------------------------------------------------------------
(* What the repository says of this code and the code does not keep.       *)

\* docs/architecture.md:223-224: tracking_status is "from the latest event".
StatusFromLatestEvent ==
    \A s \in exists : events[s] # {} => \E e \in Latest(events[s]) : e.status = row[s].status

=============================================================================
