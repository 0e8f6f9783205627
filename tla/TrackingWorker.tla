--------------------------- MODULE TrackingWorker ---------------------------
(***************************************************************************)
(* The loop of the tracking worker process (tracking_worker.main): every   *)
(* tick it runs the tracking pass and then the MQTT publication, each if   *)
(* it is due.  The pass itself is module TrackingSync; here it is what it  *)
(* does to the process and to the tables.                                  *)
(***************************************************************************)
EXTENDS ParcelTables

CONSTANTS
    PollTicks,        \* tracking_provider.poll_interval_seconds, in ticks
    PublishTicks      \* mqtt.publish_interval_seconds, in ticks

ASSUME TicksAssumption == PollTicks \in Nat /\ PublishTicks \in Nat

VARIABLES
    job,              \* what the process is doing
    due,              \* the shipments that the pass has not reached
    last_tracking_sync, last_mqtt_publish,   \* ticks ago, None: not yet
    retained          \* the messages the broker keeps, by sensor

workerVars == <<job, due, last_tracking_sync, last_mqtt_publish, retained>>

Counts == {"total", "in_transit", "delivered_today", "delayed"}
Sensors == Counts \cup {"next_delivery"}

\* MqttPublishService.publish: the statements, then the messages.
Publication == <<"total", "in_transit", "out_for_delivery", "delivered_today",
                 "delayed", "next_delivery">>

TrackingWorkerTypeOK ==
    /\ job \in {"sleep", "check_tracking", "tracking", "check_mqtt", "publish"}
    /\ due \subseteq Shipments
    /\ last_tracking_sync \in Nat \cup {None} /\ last_mqtt_publish \in Nat \cup {None}

TrackingWorkerInit ==
    /\ job = "sleep" /\ due = {}
    /\ last_tracking_sync = None /\ last_mqtt_publish = None
    /\ retained = [k \in Sensors |-> None]

-----------------------------------------------------------------------------
\* _due
_due(last_run, interval) == last_run # None => last_run >= interval

\* Ticks since a run, counted no further than the interval.
Later1(last_run, interval) == IF _due(last_run, interval) THEN last_run ELSE last_run + 1

\* time.sleep is over: now, and what is due.
Tick ==
    /\ job = "sleep" /\ deployed.tracking
    /\ job' = "check_tracking"
    /\ last_tracking_sync' = Later1(last_tracking_sync, PollTicks)
    /\ last_mqtt_publish' = Later1(last_mqtt_publish, PublishTicks)
    /\ UNCHANGED <<parcelVars, due, retained>>

\* list_non_terminal
list_non_terminal == {s \in rows : ship[s].status \notin TERMINAL_STATUSES}

\* run_tracking_sync starts with the shipments of that moment, or is not due.
TrackingJob ==
    /\ job = "check_tracking"
    /\ \/ /\ _due(last_tracking_sync, PollTicks)
          /\ job' = "tracking" /\ due' = list_non_terminal
       \/ /\ ~_due(last_tracking_sync, PollTicks)
          /\ job' = "check_mqtt" /\ UNCHANGED due
    /\ UNCHANGED <<parcelVars, last_tracking_sync, last_mqtt_publish, retained>>

\* The pass commits a shipment's news, whatever became of it since the pass began.
\* The carriers' news are bounded with the commits of users.
TrackingCommit ==
    /\ job = "tracking"
    /\ ByUser
    /\ \E s \in due \ deployed.unsortable : sync_shipment(s) /\ due' = due \ {s}
    /\ UNCHANGED <<job, last_tracking_sync, last_mqtt_publish, retained>>

\* The pass ends: done, or no provider.  A reply that cannot be sorted is in its
\* way, unless it meets an httpx.HTTPError instead, which is logged.
TrackingEnds ==
    /\ job = "tracking"
    /\ Fault(due \cap deployed.unsortable = {})
    /\ job' = "check_mqtt" /\ due' = {}
    /\ last_tracking_sync' = 0
    /\ UNCHANGED <<deployed, tableVars, read, writes, last_mqtt_publish, retained>>

\* Any other exception, of the pass, of a publication or of the database, ends the
\* process; Docker starts it again, with nothing done yet.
Restart ==
    /\ job' = "sleep" /\ due' = {}
    /\ last_tracking_sync' = None /\ last_mqtt_publish' = None
    /\ read' = [read EXCEPT ![Mqtt] = Idle]
    /\ UNCHANGED <<deployed, tableVars, writes, retained>>

\* The pass raises whenever it comes to a shipment that was deleted meanwhile, or
\* to a reply that cannot be sorted.
PassRaises ==
    /\ job = "tracking"
    /\ due \cap (deployed.unsortable \cup (Shipments \ rows)) # {}
    /\ Restart /\ UNCHANGED faults

WorkerDies ==
    /\ job # "sleep"
    /\ Fault(FALSE)
    /\ Restart

\* run_mqtt_publish starts, or is not due.
MqttJob ==
    /\ job = "check_mqtt"
    /\ \/ /\ _due(last_mqtt_publish, PublishTicks)
          /\ job' = "publish"
          /\ read' = [read EXCEPT ![Mqtt] = [Idle EXCEPT !.at = 1]]
       \/ /\ ~_due(last_mqtt_publish, PublishTicks)
          /\ job' = "sleep"
          /\ UNCHANGED read
    /\ UNCHANGED <<deployed, tableVars, writes, faults, due, last_tracking_sync,
                   last_mqtt_publish, retained>>

\* MqttPublishService.publish: its counts ...
AllSelected(q) ==
    CASE q = "total"           -> rows
      [] q = "delivered_today" -> count_all_delivered_on(today)
      [] OTHER                 -> count_all_by_status(q)

\* ... and then next_delivery_date.
Query ==
    LET r == read[Mqtt] IN
    /\ job = "publish" /\ r.at \in 1 .. Len(Publication)
    /\ \/ /\ Publication[r.at] \in Statements
          /\ Count(Mqtt, Publication[r.at], AllSelected(Publication[r.at]))
       \/ /\ Publication[r.at] = "next_delivery"
          /\ read' = [read EXCEPT ![Mqtt].at = @ + 1, ![Mqtt].next = next_delivery_date]
          /\ UNCHANGED <<deployed, tableVars, writes, faults>>
    /\ UNCHANGED workerVars

\* The values of a publication; without a next delivery there is no value for it.
Values(r) ==
    [k \in Counts |->
        IF k = "in_transit"
        THEN Cardinality(r.rows["in_transit"]) + Cardinality(r.rows["out_for_delivery"])
        ELSE Cardinality(r.rows[k])]

\* Mutant: a count of zero is taken for a missing one.
publish_nonzero(r, lost) ==
    [k \in Sensors |->
        CASE k \in lost -> retained[k]
          [] k \in Counts \ lost -> IF Values(r)[k] = 0 THEN retained[k] ELSE Values(r)[k]
          [] OTHER -> IF r.next = None THEN retained[k] ELSE r.next]

\* publish_state: retained messages with QoS 0, some of which may be lost.
publish_state(r, lost) ==
    [k \in Sensors |->
        CASE k \in lost -> retained[k]
          [] k \in Counts \ lost -> Values(r)[k]
          [] OTHER -> IF r.next = None THEN retained[k] ELSE r.next]

\* The publication is over.
Published ==
    /\ job = "publish" /\ read[Mqtt].at > Len(Publication)
    /\ job' = "sleep"
    /\ last_mqtt_publish' = 0
    /\ read' = [read EXCEPT ![Mqtt] = Idle]

\* connect, publish_discovery, publish_state, disconnect.
Publish ==
    /\ Published
    /\ retained' = publish_state(read[Mqtt], {})
    /\ UNCHANGED <<deployed, tableVars, writes, faults, due, last_tracking_sync>>

\* The broker is away (an OSError, which is logged), or messages are lost.
PublishFails ==
    /\ Fault(FALSE)
    /\ Published
    /\ \E lost \in (SUBSET Sensors) \ {{}} : retained' = publish_state(read[Mqtt], lost)
    /\ UNCHANGED <<deployed, tableVars, writes, due, last_tracking_sync>>

-----------------------------------------------------------------------------
WorkerStep ==
    Tick \/ TrackingJob \/ TrackingEnds \/ PassRaises \/ MqttJob \/ Query \/ Publish

TrackingWorkerNext == WorkerStep \/ TrackingCommit \/ WorkerDies \/ PublishFails

=============================================================================
