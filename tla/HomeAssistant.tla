--------------------------- MODULE HomeAssistant ---------------------------
(***************************************************************************)
(* The Home Assistant integration (custom_components/parcel_server): the   *)
(* config entries, one per account, with the client and the coordinator    *)
(* that each of them has, and the services, registered once for all.       *)
(*                                                                         *)
(* Everything runs in one event loop: what is between two awaits is one    *)
(* step.  A poll sends three requests one after the other, and the server  *)
(* answers each by several statements (ParcelTables).                      *)
(***************************************************************************)
EXTENDS ParcelTables

VARIABLES
    entry,            \* where the setup of each account's entry is
    hass_data,        \* hass.data[DOMAIN], a dictionary in order of insertion
    services,         \* whether the services are registered
    token,            \* what the server thinks of the client's _access_token
    step,             \* where the request of the coordinator is
    data,             \* coordinator.data, as the sensors show it
    call              \* a service call waiting for the server

haVars == <<entry, hass_data, services, token, step, data, call>>

Requests == {"get_dashboard", "get_statistics", "list_orders"}

\* _async_update_data: the requests, each followed by the server's statements.
Poll == <<"get_dashboard", "in_transit", "out_for_delivery", "delayed",
          "delivered_today", "expected_tomorrow", "label_created",
          "get_statistics", "dated", "delivered", "returned", "total", "ever_delayed",
          "list_orders", "page", "load">>

Services == {"refresh_tracking", "archive_parcel", "send_notification"}
Loaded == {"forward", "loaded", "unload", "failed"}

HomeAssistantTypeOK ==
    /\ entry \in [Users -> {"none", "retry", "setup"} \cup Loaded]
    /\ hass_data \in Seq(Users) /\ services \in BOOLEAN
    /\ token \in [Users -> {"none", "valid", "expired"}]
    /\ step \in [Users -> {"idle", "send", "resend", "login", "again", "run"}]
    /\ call \in [svc : Services, who : Users, order : Orders] \cup {None}
    /\ \A u \in Users : read[u].at \in 0 .. Len(Poll)

HomeAssistantInit ==
    /\ entry = [u \in Users |-> "none"]
    /\ hass_data = <<>>
    /\ services = FALSE
    /\ token = [u \in Users |-> "none"]
    /\ step = [u \in Users |-> "idle"]
    /\ data = [u \in Users |-> None]
    /\ call = None

-----------------------------------------------------------------------------
(* The request of the coordinator (ParcelServerApiClient._request).        *)

\* The next step of u's poll.
At(u) == IF read[u].at = 0 THEN "idle" ELSE Poll[read[u].at]

\* A new refresh starts.
BeginPoll(u) ==
    /\ step' = [step EXCEPT ![u] = "send"]
    /\ read' = [read EXCEPT ![u] = [Idle EXCEPT !.at = 1]]

\* ParcelServerError: UpdateFailed, or ConfigEntryNotReady when it was the first
\* refresh; data stay as they are.
UpdateFailed(u) ==
    /\ step' = [step EXCEPT ![u] = "idle"]
    /\ read' = [read EXCEPT ![u] = Idle]
    /\ entry' = [entry EXCEPT ![u] = IF @ = "setup" THEN "retry" ELSE @]
    /\ UNCHANGED <<deployed, tableVars, writes, hass_data, services, token, data, call>>

\* get_current_user: the server takes the token, or answers 401.
get_current_user(u) == token[u] = "valid"

\* Mutant: the rejected request is an error at once.
_request_without_retry(u) ==
    /\ step[u] \in {"send", "resend"} /\ At(u) \in Requests
    /\ \/ /\ token[u] = "none" /\ step' = [step EXCEPT ![u] = "login"]
          /\ UNCHANGED <<parcelVars, entry, hass_data, services, token, data, call>>
       \/ /\ token[u] # "none" /\ ~get_current_user(u)
          /\ UpdateFailed(u) /\ UNCHANGED faults
       \/ /\ get_current_user(u)
          /\ step' = [step EXCEPT ![u] = "run"]
          /\ read' = [read EXCEPT ![u].at = @ + 1,
                                    ![u].day = IF At(u) = "get_dashboard" THEN today ELSE @]
          /\ UNCHANGED <<deployed, tableVars, writes, faults, entry, hass_data, services,
                         token, data, call>>

\* The request is sent, after a login if there is no token yet.  The server
\* takes the token and goes on to its statements, or answers 401: then the
\* client logs in again, once.
_request(u) ==
    /\ step[u] \in {"send", "resend"} /\ At(u) \in Requests
    /\ \/ /\ token[u] = "none" /\ step' = [step EXCEPT ![u] = "login"]
          /\ UNCHANGED <<parcelVars, entry, hass_data, services, token, data, call>>
       \/ /\ token[u] # "none" /\ ~get_current_user(u) /\ step[u] = "send"
          /\ step' = [step EXCEPT ![u] = "again"]
          /\ UNCHANGED <<parcelVars, entry, hass_data, services, token, data, call>>
       \/ /\ token[u] # "none" /\ ~get_current_user(u) /\ step[u] = "resend"
          /\ UpdateFailed(u) /\ UNCHANGED faults
       \/ /\ get_current_user(u)
          /\ step' = [step EXCEPT ![u] = "run"]
          /\ read' = [read EXCEPT ![u].at = @ + 1,
                                    ![u].day = IF At(u) = "get_dashboard" THEN today ELSE @]
          /\ UNCHANGED <<deployed, tableVars, writes, faults, entry, hass_data, services,
                         token, data, call>>

async_login(u) ==
    /\ step[u] \in {"login", "again"}
    /\ token' = [token EXCEPT ![u] = "valid"]
    /\ step' = [step EXCEPT ![u] = IF @ = "login" THEN "send" ELSE "resend"]
    /\ UNCHANGED <<parcelVars, entry, hass_data, services, data, call>>

\* The server is down, answers with an error, or rejects the login.
RequestFails(u) ==
    /\ step[u] # "idle"
    /\ faults < deployed.faults /\ faults' = faults + 1
    /\ UpdateFailed(u)

\* access_token_expire_minutes have passed.
TokenExpires(u) ==
    /\ token[u] = "valid"
    /\ faults < deployed.faults /\ faults' = faults + 1
    /\ token' = [token EXCEPT ![u] = "expired"]
    /\ UNCHANGED <<deployed, tableVars, read, writes, entry, hass_data, services, step, data, call>>

\* The server runs the next statement of the request, or sends its answer.
Serve(u) ==
    /\ step[u] = "run"
    /\ \/ /\ At(u) \in Requests
          /\ step' = [step EXCEPT ![u] = "send"]
          /\ UNCHANGED parcelVars
       \/ /\ At(u) \in DashboardStatements /\ UNCHANGED step
          /\ Count(u, At(u), DashboardSummary(u, At(u), read[u].day))
       \/ /\ At(u) \in StatisticsStatements /\ UNCHANGED step
          /\ Count(u, At(u), StatisticsSummary(u, At(u)))
       \/ /\ At(u) = "page" /\ ListOrders(u) /\ UNCHANGED step
       \/ /\ At(u) = "load" /\ UNCHANGED step
          /\ \E o \in Orders : LoadShipments(u, o)
    /\ UNCHANGED <<entry, hass_data, services, token, data, call>>

-----------------------------------------------------------------------------
(* Coordinator and sensors.                                                *)

\* ParcelServerActiveParcelsSensor.native_value
active_parcels(R) ==
    Cardinality(R["in_transit"]) + Cardinality(R["out_for_delivery"])
        + Cardinality(R["delayed"]) + Cardinality(R["label_created"])

\* What the five sensors are computed from.
Summary(r) == [active |-> active_parcels(r.rows), total |-> Cardinality(r.rows["total"]),
               next |-> r.next, last |-> r.last]

\* async_update_data every 60 seconds.
StartPoll(u) ==
    /\ entry[u] = "loaded" /\ step[u] = "idle"
    /\ BeginPoll(u)
    /\ UNCHANGED <<deployed, tableVars, writes, faults, entry, hass_data, services,
                   token, data, call>>

\* All answers are in: the sensors are updated.  After the first refresh
\* async_setup_entry goes on and registers entry and services.
Updated(u) ==
    /\ step[u] = "run" /\ At(u) = "load" /\ read[u].page = {}
    /\ data' = [data EXCEPT ![u] = Summary(read[u])]
    /\ step' = [step EXCEPT ![u] = "idle"]
    /\ read' = [read EXCEPT ![u] = Idle]
    /\ \/ /\ entry[u] = "setup"
          /\ entry' = [entry EXCEPT ![u] = "forward"]
          /\ hass_data' = Append(hass_data, u)
          /\ services' = TRUE
       \/ /\ entry[u] # "setup"
          /\ UNCHANGED <<entry, hass_data, services>>
    /\ UNCHANGED <<deployed, tableVars, writes, faults, token, call>>

\* The config flow: the login succeeded, and the account has no entry yet.
async_step_user(u) ==
    /\ entry[u] = "none" /\ u \in deployed.entries
    /\ entry' = [entry EXCEPT ![u] = "retry"]
    /\ UNCHANGED <<parcelVars, hass_data, services, token, step, data, call>>

\* async_setup_entry makes a client and awaits the first refresh.
async_setup_entry(u) ==
    /\ entry[u] = "retry"
    /\ entry' = [entry EXCEPT ![u] = "setup"]
    /\ token' = [token EXCEPT ![u] = "none"]
    /\ BeginPoll(u)
    /\ UNCHANGED <<deployed, tableVars, writes, faults, hass_data, services, data, call>>

\* The sensors are added: async_forward_entry_setups returns.
Forwarded(u) ==
    /\ entry[u] = "forward"
    /\ entry' = [entry EXCEPT ![u] = "loaded"]
    /\ UNCHANGED <<parcelVars, hass_data, services, token, step, data, call>>

\* async_unload_entry awaits the removal of the sensors ...
async_unload_entry(u) ==
    /\ entry[u] = "loaded"
    /\ entry' = [entry EXCEPT ![u] = "unload"]
    /\ UNCHANGED <<parcelVars, hass_data, services, token, step, data, call>>

\* hass.data[DOMAIN].pop: the others keep their order.
hass_data_pop(u) ==
    \E i \in DOMAIN hass_data :
        /\ hass_data[i] = u
        /\ hass_data' = [j \in 1 .. (Len(hass_data) - 1) |->
                           hass_data[IF j < i THEN j ELSE j + 1]]

\* Mutant: the services stay with another entry's coordinator or none.
UnloadedKeepingServices(u) ==
    /\ entry[u] = "unload"
    /\ \E e \in {"none", "retry"} : entry' = [entry EXCEPT ![u] = e]
    /\ hass_data_pop(u)
    /\ token' = [token EXCEPT ![u] = "none"]
    /\ step' = [step EXCEPT ![u] = "idle"]
    /\ read' = [read EXCEPT ![u] = Idle]
    /\ data' = [data EXCEPT ![u] = None]
    /\ UNCHANGED <<deployed, tableVars, writes, faults, services, call>>

\* ... and drops the coordinator, and the services with the last of them.  A
\* poll that is under way is not seen by anybody any more.  The entry is
\* removed, or set up again.
Unloaded(u) ==
    /\ entry[u] = "unload"
    /\ \E e \in {"none", "retry"} : entry' = [entry EXCEPT ![u] = e]
    /\ hass_data_pop(u)
    /\ services' = (services /\ hass_data' # <<>>)
    /\ token' = [token EXCEPT ![u] = "none"]
    /\ step' = [step EXCEPT ![u] = "idle"]
    /\ read' = [read EXCEPT ![u] = Idle]
    /\ data' = [data EXCEPT ![u] = None]
    /\ UNCHANGED <<deployed, tableVars, writes, faults, call>>

\* ... or async_unload_platforms is False: the entry stays in hass.data, and Home
\* Assistant does nothing with it until it is restarted itself.
UnloadFails(u) ==
    /\ entry[u] = "unload"
    /\ Fault(FALSE)
    /\ entry' = [entry EXCEPT ![u] = "failed"]
    /\ UNCHANGED <<deployed, tableVars, read, writes, hass_data, services, token, step, data, call>>

-----------------------------------------------------------------------------
(* Services: refresh_tracking, archive_parcel and send_notification.       *)

\* A handler takes the client of the first entry and sends its request.
CallService(svc, o) ==
    /\ services /\ call = None
    /\ ByUser
    /\ call' = [svc |-> svc, who |-> Head(hass_data), order |-> o]
    /\ UNCHANGED <<tableVars, read, entry, hass_data, services, token, step, data>>

\* The server does it, for the orders of the client's account only.  The client
\* has a valid token then, if it is still that of an entry.
CallServed ==
    /\ call # None
    /\ call' = None
    /\ \/ /\ call.svc = "archive_parcel"
          /\ \E b \in BOOLEAN : set_archived(call.who, call.order, b)
       \/ /\ call.svc = "refresh_tracking"
          /\ OwnerOf[call.order] = call.who
          /\ \E s \in Shipments \ deployed.unsortable :
                OrderOf[s] = call.order /\ sync_shipment(s)
       \/ /\ call.svc = "send_notification"
          /\ UNCHANGED <<tableVars, read>>
    /\ \E t \in {token[call.who], "valid"} :
         token' = IF entry[call.who] \in Loaded THEN [token EXCEPT ![call.who] = t] ELSE token
    /\ UNCHANGED <<deployed, writes, faults, entry, hass_data, services, step, data>>

\* 404, 502 or no connection: HomeAssistantError.
CallFails ==
    /\ call # None
    /\ call' = None
    /\ UNCHANGED <<parcelVars, entry, hass_data, services, token, step, data>>

-----------------------------------------------------------------------------
PollStep(u) == _request(u) \/ async_login(u) \/ Serve(u) \/ Updated(u) \/ StartPoll(u)
SetupStep(u) == async_setup_entry(u) \/ Forwarded(u) \/ Unloaded(u)

HomeAssistantNext ==
    \/ \E u \in Users : \/ PollStep(u) \/ SetupStep(u)
                        \/ RequestFails(u) \/ TokenExpires(u)
                        \/ async_step_user(u) \/ async_unload_entry(u) \/ UnloadFails(u)
    \/ \E svc \in Services, o \in Orders : CallService(svc, o)
    \/ CallServed \/ CallFails

=============================================================================
