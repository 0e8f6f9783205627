---------------------------- MODULE ParcelServer ----------------------------
(***************************************************************************)
(* The household's installation: the API that users write through, the     *)
(* tracking worker with the MQTT sensors, the import worker, and the Home  *)
(* Assistant integration, all over the same tables.                        *)
(***************************************************************************)
EXTENDS HomeAssistant, TrackingWorker, ImportWorker

vars == <<parcelVars, haVars, workerVars, importVars>>

Init == TablesInit /\ HomeAssistantInit /\ TrackingWorkerInit /\ ImportWorkerInit

Api(A) == A /\ UNCHANGED <<haVars, workerVars, importVars>>
Ha(A) == A /\ UNCHANGED <<workerVars, importVars>>
Tracking(A) == A /\ UNCHANGED <<haVars, importVars>>
Import(A) == A /\ UNCHANGED <<haVars, workerVars>>

Next ==
    \/ Api(UserStep \/ Midnight)
    \/ Ha(HomeAssistantNext)
    \/ Tracking(TrackingWorkerNext)
    \/ Import(ImportWorkerNext)

Spec == Init /\ [][Next]_vars

(***************************************************************************)
(* The coordinator's timer and Home Assistant's retries of a setup run for *)
(* ever; the loops of the workers go on, since every call has a timeout    *)
(* and a dead process is restarted; time passes.  Nothing is assumed of    *)
(* the users.  A step may be one that fails: it does where it is certain   *)
(* to, and elsewhere only as often as the bound allows.                    *)
(***************************************************************************)
Fairness ==
    /\ \A u \in Users : WF_vars(Ha(PollStep(u))) /\ WF_vars(Ha(SetupStep(u)))
    /\ WF_vars(Tracking(WorkerStep))
    /\ WF_vars(Import(ImportStep)) /\ WF_vars(Import(SyncStep(Request)))
    /\ \A a \in Mailboxes : WF_vars(Import(Elapse(a)))

FairSpec == Spec /\ Fairness

-----------------------------------------------------------------------------
(* Properties.                                                             *)

\* The variables keep their types.
TypeOK == TablesTypeOK /\ HomeAssistantTypeOK /\ TrackingWorkerTypeOK /\ ImportWorkerTypeOK

\* Services can be called exactly while an entry is set up, whatever the order in
\* which entries are added, fail, reload and go: no handler is left that finds no
\* client (__init__.py), and an entry is in hass.data once.
ServicesHaveClient ==
    /\ services <=> hass_data # <<>>
    /\ \A u \in Users : entry[u] \in Loaded <=> \E i \in DOMAIN hass_data : hass_data[i] = u
    /\ \A i, j \in DOMAIN hass_data : hass_data[i] = hass_data[j] => i = j

\* A shipment is on its way, for the user's dashboard.
ActiveStatuses == {"in_transit", "out_for_delivery", "delayed", "label_created"}
Active(u) == {s \in rows : /\ OwnerOf[OrderOf[s]] = u /\ order[OrderOf[s]] = "open"
                           /\ ship[s].status \in ActiveStatuses}

\* Although the counts of a poll come from statements of different moments, a
\* shipment that nobody writes meanwhile is counted as it is: once among the
\* active parcels if it is on its way, once in the statistics' total, and never
\* in another user's.
PollCountsOnce ==
    \A u \in Users : At(u) = "load" =>
        \A s \in Shipments \ read[u].changed :
            /\ Cardinality({q \in ActiveStatuses : s \in read[u].rows[q]})
                 = IF s \in Active(u) THEN 1 ELSE 0
            /\ s \in read[u].rows["total"] <=> s \in rows /\ OwnerOf[OrderOf[s]] = u
            /\ s \in read[u].rows["delivered"] => s \in read[u].rows["total"]
            /\ s \in read[u].rows["ever_delayed"]
                 <=> s \in read[u].rows["total"] /\ (ship[s].status = "delayed" \/ ship[s].delayed)

\* What the sensors of u should show.
Orders200(u) == Cardinality({o \in Orders : OwnerOf[o] = u /\ order[o] \in Present}) <= Limit
OfUser(u) == {s \in rows : OwnerOf[OrderOf[s]] = u}
Shown(u) ==
    /\ data[u] # None
    /\ data[u].active = Cardinality(Active(u))
    /\ data[u].total = Cardinality(OfUser(u))
    /\ Orders200(u) =>
          /\ data[u].next = Sooner({ship[s].est : s \in Expected(OfUser(u))})
          /\ data[u].last = Later({ship[s].delivered : s \in Delivered(OfUser(u))})

\* Every entry gets set up, unless it is removed or could not be unloaded, and once
\* the users stop writing it comes to show what is in the tables, in spite of expired
\* tokens, failed requests and reloads; the dates only while the orders fit on one page.
SensorsConverge ==
    \A u \in Users : /\ []<>(entry[u] \in {"none", "loaded", "failed"})
                     /\ <>[](entry[u] \in Loaded \ {"failed"} => Shown(u))

\* No pass is stopped by a reply that cannot be sorted.
PassesEnd == list_non_terminal \cap deployed.unsortable = {}

\* Once the users stop writing, the retained messages come to be the counts of
\* the tables, in spite of crashes and lost messages; next_delivery only if there
\* is one.  That is so only if the tracking passes come to an end some day: one
\* shipment whose events never sort, as long as it is neither delivered nor deleted,
\* ends the process before it publishes, every time (tracking_worker.main).
MqttConverges ==
    <>[]PassesEnd => <>[](deployed.tracking =>
          /\ retained["total"] = Cardinality(rows)
          /\ retained["in_transit"] =
                Cardinality({s \in rows : ship[s].status \in {"in_transit", "out_for_delivery"}})
          /\ retained["delayed"] = Cardinality({s \in rows : ship[s].status = "delayed"})
          /\ retained["delivered_today"] = Cardinality({s \in rows : ship[s].delivered = today})
          /\ Expected(rows) # {} =>
                retained["next_delivery"] = Sooner({ship[s].est : s \in Expected(rows)}))

\* The stored token of a mailbox is one that the provider takes, or it was sent
\* for its successor, which is about to be stored.  It is lost only if the user
\* revokes it, if the provider has replaced it and the answer is lost or the process
\* is stopped before the commit, or if a commit overwrites what another sync or a
\* reconnect stored meanwhile (ensure_fresh_access_token).
StoredTokenLives ==
    \A a \in OAuth :
        \/ a \in lost \/ stored[a] \in live[a]
        \/ \E s \in Syncers : /\ sync[s].acct = a /\ sync[s].step = "commit"
                              /\ sync[s].shown = stored[a] /\ sync[s].got \in live[a]

Synced(a) ==
    \/ []<>(last_synced[a] = "recent")
    \/ <>[](a \notin deployed.polled \/ (a \in OAuth /\ stored[a] \notin live[a]))

\* A mail that can never be stored ends the worker in every pass that gets to it.
Obstructed ==
    \E b \in Mailboxes :
        []<>(/\ b \in deployed.polled \cap deployed.unstorable
             /\ b \in OAuth => stored[b] \in live[b])

\* On PostgreSQL the worker syncs every active account again and again, although
\* others have to be reconnected or hold mails that cannot be read, unless this one
\* does.  The exception is a mail whose flush fails every time: the process ends with
\* it (worker.run_once), and the accounts behind that one may never have their turn.
AccountSynced ==
    deployed.driver = "postgresql" =>
        Obstructed \/ \A a \in Mailboxes : Synced(a) \/ a \in deployed.unreadable

\* The same with either driver, as the documentation has it: docs/installation.md
\* "It polls every active mail account", README.md "SQLite by default".
AccountSyncedByDefault == \A a \in Mailboxes : Synced(a)

=============================================================================
