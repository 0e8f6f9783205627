--------------------------- MODULE ShipmentHistory ---------------------------
(***************************************************************************)
(* What the tracking side of the system promises to somebody who reads     *)
(* shipments, with no word of sessions, copies or providers:               *)
(*   - the history of a shipment only grows while the shipment exists;     *)
(*   - its status changes only to that of an event of its history, and its *)
(*     delivery date only to the time of a delivered one, or because a     *)
(*     user said so;                                                       *)
(*   - a sync shows a shipment delivered or delayed only after that was    *)
(*     announced;                                                          *)
(*   - one step concerns one shipment.                                     *)
(* TrackingSync implements this with sessions that overwrite each other.   *)
(***************************************************************************)
EXTENDS Integers

CONSTANTS Shipments, Statuses, NotifyOnStatuses, Times, None

VARIABLES
    created,     \* primary keys given out so far
    exists,      \* the shipments
    status, delivery, history,
    announced    \* pairs of shipment and status a notification was sent for

vars == <<created, exists, status, delivery, history, announced>>

Event == [status : Statuses, at : Times]

Init ==
    /\ created = {} /\ exists = {} /\ announced = {}
    /\ status = [s \in Shipments |-> "unknown"]
    /\ delivery = [s \in Shipments |-> None]
    /\ history = [s \in Shipments |-> {}]

\* Somebody enters a shipment, with any status and no date.
Create(s, st) ==
    /\ s \notin created
    /\ created' = created \cup {s}
    /\ exists' = exists \cup {s}
    /\ status' = [status EXCEPT ![s] = st]
    /\ delivery' = [delivery EXCEPT ![s] = None]
    /\ UNCHANGED <<history, announced>>

\* A user enters a status: it joins the history.
Edit(s, e) ==
    /\ s \in exists
    /\ status' = [status EXCEPT ![s] = e.status]
    /\ history' = [history EXCEPT ![s] = @ \cup {e}]
    /\ UNCHANGED <<created, exists, delivery, announced>>

\* A user enters a delivery date, or takes it out.
Reschedule(s, t) ==
    /\ s \in exists
    /\ delivery' = [delivery EXCEPT ![s] = t]
    /\ UNCHANGED <<created, exists, status, history, announced>>

Announce(s, st) ==
    /\ s \in created
    /\ announced' = announced \cup {<<s, st>>}
    /\ UNCHANGED <<created, exists, status, delivery, history>>

\* A sync records what the provider reported.
Record(s) ==
    /\ s \in exists
    /\ history[s] \subseteq history'[s] /\ history'[s] \subseteq Event
    /\ status'[s] # status[s] =>
         /\ \E e \in history'[s] : e.status = status'[s]
         /\ status'[s] \in NotifyOnStatuses => <<s, status'[s]>> \in announced
    /\ delivery'[s] # delivery[s] =>
         \E e \in history'[s] : e.status = "delivered" /\ e.at = delivery'[s]
    /\ history' = [history EXCEPT ![s] = history'[s]]
    /\ status' = [status EXCEPT ![s] = status'[s]]
    /\ delivery' = [delivery EXCEPT ![s] = delivery'[s]]
    /\ UNCHANGED <<created, exists, announced>>

\* The shipment goes with its order.
Delete(s) ==
    /\ s \in exists
    /\ exists' = exists \ {s}
    /\ status' = [status EXCEPT ![s] = "unknown"]
    /\ delivery' = [delivery EXCEPT ![s] = None]
    /\ history' = [history EXCEPT ![s] = {}]
    /\ UNCHANGED <<created, announced>>

Next ==
    \E s \in Shipments :
        \/ \E st \in Statuses : Create(s, st) \/ Announce(s, st)
        \/ \E e \in Event : Edit(s, e)
        \/ \E t \in Times \cup {None} : Reschedule(s, t)
        \/ Record(s)
        \/ Delete(s)

Spec == Init /\ [][Next]_vars

=============================================================================
