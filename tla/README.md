# A TLA+ model of ParcelTracker

ParcelTracker ("Parcel Server") imports shipping mails from IMAP mailboxes, keeps
orders and shipments in an SQL database, refreshes the shipments from a tracking
provider and shows them in a web frontend, in Home Assistant and over MQTT. This
directory holds TLA+ modules of its parts and of the installation they make up,
abstract specifications of what three of them promise, the TLC configurations that
check them on small instances, and TLAPS proofs of the safety properties and of the
refinements.

`PROJECT.json` maps every definition to the lines of `src/` it stands for.

## 1. The system

### Components

| Component | State it keeps | Operations | Status here |
| --- | --- | --- | --- |
| Mail import, `email_ingestion_service.py` | `mail_accounts.last_seen_uid`, `emails`, `orders`, `shipments`, `carriers` | `sync_account` | `EmailIngestion`, abstractly `ImportedMail` |
| Import worker, `worker.py` | a session with loaded accounts | `run_once` over the due accounts | `ImportWorker`; a syncer of `EmailIngestion` |
| IMAP client, `importer/imap_client.py` | a connection | `fetch_since`, `parse_raw_message` | part of `EmailIngestion` |
| Merchant parsers, `importer/parsers/` | none | `detect`, `find_tracking_numbers` | abstracted to what they find (`Content`) |
| Mail accounts, `mail_account_service.py` | `mail_accounts` | create, update, delete, sync now, OAuth | CRUD in `EmailIngestion`, finalize and reconnect in `OAuthSignIn`, token refresh in `ImportWorker` |
| Tracking refresh, `tracking_sync_service.py` | `shipments`, `tracking_events` | `sync_shipment`, `sync_due_shipments` | `TrackingSync`, abstractly `ShipmentHistory` |
| Tracking worker, `tracking_worker.py` | times of the last runs | tracking pass, MQTT publish | `TrackingWorker`; the pass in `TrackingSync` |
| Tracking providers, `tracking/providers/` | remote registrations; ship24 a cache of ids | `register`, `update` | as the sync sees them in `TrackingSync`, their words in `TrackingProviders` |
| Shipment and order services | `orders`, `shipments` | create, patch, delete, archive | `ParcelTables`; racing with a sync in `TrackingSync` |
| Dashboard and statistics | none | counts | `ParcelTables`, statement by statement |
| MQTT publisher, `mqtt/`, `mqtt_publish_service.py` | retained messages at the broker | `publish` | `TrackingWorker` |
| OAuth device flow, `oauth_google.py`, `oauth_microsoft.py` | pending and completed flows in memory | start, poll, take, refresh | `OAuthSignIn`, abstractly `TokenCustody`; refresh in `ImportWorker` |
| Mail accounts page, `MailAccountsPage.tsx` | dialog, sign-in status, flow | start, poll, save, reconnect | `OAuthSignIn` |
| Home Assistant integration, `custom_components/parcel_server/` | entries, coordinators, tokens, services | setup, unload, poll, services | `HomeAssistant` |
| Notifications, `notification/` | none | `dispatch` | an event of the callers |
| Users and JWT | `users` | login, `get_current_user` | a token that is taken or answered by 401, in `HomeAssistant` |
| Carrier detection, version check, configuration, other pages and card | a cached version | - | not modelled |

### How they interact, and what is hard

There are three processes: the API server with a pool of threads, the import
worker and the tracking worker. They share nothing but the database. None of them
takes a lock, and each holds one SQLAlchemy session across slow calls: a mail sync
waits for an IMAP server, a tracking refresh for a provider and for the
notification channels, with rows loaded before and written after. So:

* the same mailbox or shipment is synced by the worker and by a request at once;
* a column is written from a copy that other sessions have overtaken;
* a session that fails leaves changes that a later commit of the same session
  writes (`sync_due_shipments` goes on with it);
* a unique key is inserted by two sessions, one of which waits and then fails;
* a process dies between a notification and the commit;
* a row disappears (account or order deleted) between load and commit;
* a summary is a series of SELECTs, each of its own moment.

The web page is a fourth actor. It awaits its requests while the user goes on:
an answer is applied to whatever the page shows when it arrives, the polls of a
sign-in overlap, an answer may be lost after the backend has done the work, and
the backend forgets the sign-ins in a restart. Home Assistant is a fifth: one event
loop in which setups, unloads, polls and service calls interleave at every `await`,
and whose token may expire between two requests of one poll.

### What makes the parts correct

*Mail import*: no mail below the watermark is missing; the watermark does not go
back; a recorded mail has its order and shipments; an untruncated result means
caught up; every fetched mail is recorded in the end.

*Tracking refresh*: the status is explained by the history; delivered shipments
have a date unless a user took it out; delivered and delayed ones were announced; a
reply is recorded in full; the registration flag stands for a call that returned; every
event of a registered number is recorded in the end.

*Sign-in*: the tokens of a sign-in are used once and by a mailbox of the right
provider; a completed sign-in is not lost to a late poll; the page stops polling.

*Mailboxes*: every active mailbox is synced again and again; the stored refresh
token is one that the provider takes.

*Views*: a poll counts each untouched shipment once, for its owner; Home Assistant
and the MQTT broker come to show what is in the tables; a service always finds a
client.

The complete list of hazards, with the line where each bites and the property
that covers it, is `hazards` in `PROJECT.json`.

## 2. Modules

### EmailIngestion

One `sync_account` per *syncer* (the worker and any number of requests). Each
statement that reads or writes shared rows is an action, in the order of the code:

`Begin` (load the account) - `Fetch` / `FetchRaises` - per message `Check`, then
`FindOrder` or `AddOrder`, then `AddShipments` after `CarrierAbsent`, `AddCarrier`
if the carrier is new, then `AddEmail` - `Commit`.

| Variable | Code |
| --- | --- |
| `mail[f][u]` | the IMAP folders: UID to message |
| `exists`, `folder`, `lastSeen` | rows of `mail_accounts` |
| `emails`, `orders`, `shipments`, `carriers` | committed rows |
| `since`, `seen` | `account.last_seen_uid` as loaded, and as changed in memory |
| `batch`, `todo` | `raw_emails`, and the part the loop has not finished |
| `newEmails`, `rows` | rows the open transaction has flushed |
| `announced` | orders a `new_confirmation` notification was sent for |
| `created`, `switched`, `there`, `via` | history for the properties (`created` also keeps primary keys from being reused) |

Database: PostgreSQL at READ COMMITTED, the one of `docker-compose.yml`. A session
sees committed rows and its own. `emails.message_id` and `carriers.name` are
unique: an INSERT of a key that another session has flushed waits (`AddEmail` and
`AddCarrier` are not enabled), fails when the other commits (`EmailConflict`,
`CarrierConflict`), and a cycle of waits costs one session its transaction
(`DeadlockVictim`). Row locks of UPDATEs are not modelled: they only rule out
interleavings that the model allows. The commit writes `last_seen_uid` only if
the in-memory value differs from the loaded one (`StoredUid`).

Message bodies are abstracted to what the parsers find: an order mail with or
without a number, a carrier's own mail, or anything else. `Poison` messages are
those that `parse_raw_message` raises on (an unknown charset). A placeholder order of
a carrier's mail has the carrier's name as its merchant, and no merchant parser has
the name of a carrier, so that the numbers of the two never meet
(`PlaceholderAssumption`).

Left out: the poll interval and the token step, which are `ImportWorker` (here the
worker may sync any account at any time, and has to come back to each); edits and deletion of orders by users;
`emails.order_id`; mails without a Message-ID. A failed sync is a rollback. In the
worker the handler of `run_once` does not roll the session back: after a failed
flush, reading the expired `account.email_address` in line 57 raises again and ends
the process, which Docker restarts, with the same effect on the tables. After a
failure that happened before any flush (IMAP) the session holds nothing new.

### ImportedMail

What the import promises to somebody who reads the tables, with no word of mailboxes,
watermarks, sessions or failures. Its one action, `Import`, enters a set of mails for one
user: each mail once and wholly (`Entered`: its order and a shipment for each of its
tracking numbers), nothing that does not stem from these mails (`NewOrder`, `NewShipment`,
neither twice in one import), and no change of what was there except an order of
the same user that is moved to SHIPPED by a mail with one of its tracking numbers (`Advanced`).
`EmailIngestion!ImplementsImportedMail` is the refinement; the mapping takes the committed
`emails`, `orders` and `shipments` and drops everything else, so that only `Commit` is not a
stutter. The content is in what `Import` forbids: two syncs may hold the same mail in hand,
each with a flushed order for it, and see each other's commits between any two statements.

The specification also says what is *not* promised: two imports may each make an order of one
number (there is no unique constraint; line 140 of the service), and a mail that two
users received is entered for the one whose sync commits first, because
`emails.message_id` is unique over all users.

### TrackingSync

One session per *actor*: the tracking worker, whose pass goes over all shipments
that are not delivered or returned in one session, and refresh requests.
`StartPass`, `Take` (next shipment), `Register`, `Update`, `Apply` (the loop over
the events and the notification), `Commit`, `Refresh`, `EndPass`, and their
failures: `RegisterFails`, `UpdateFails` (an `httpx.HTTPError`: the pass goes on
with the same session), `UpdateRaises`, `TakeRaises`, `CommitRaises`,
`RefreshRaises` (any other exception: it ends pass and session) and `Fail` (a
crash).

| Variable | Code |
| --- | --- |
| `row`, `events`, `exists` | `shipments` and `tracking_events` |
| `loaded`, `copy`, `listed`, `known` | the session's copies; a commit expires them |
| `pending` | shipments with `tracking_registered = True` set but not committed |
| `reply`, `draft` | the provider's events; the new columns and events before the commit |
| `reported`, `enrolled` | what carriers reported; what is registered with which provider |
| `announced` | notifications sent |
| `initial`, `by`, `cleared`, `accepted` | history for the properties: the status at creation, who entered an event, dates a user took out, calls of `register` that returned |

`Register` is a call that returns, not a number that is registered: 17TRACK's answer says
item by item what it has accepted, Ship24's may come without a `trackerId`, and neither is
looked at before `tracking_registered` is set. `Refuses` are the providers with which that
may happen (`Registrations`); the other two answer a refusal with an HTTP error. A call that
fails may have registered the number all the same (`RegisterFails`, and with Ship24 also `UpdateFails`).
So `RegisteredIsAccepted` speaks of the call and not of the provider, and `EventIsRecorded`
assumes that the provider has taken the number: for one that was refused, the flag
keeps `register` from ever being called again.

A commit writes only the columns that differ from the loaded copy (`Written`) and
the pending flags of *all* shipments of the session. A row that is gone makes it
raise (`CommitRaises`). `Unsortable` is the TypeError of `sorted()` on times with
and without an offset: providers' times are taken as they are, a missing one
becomes "now" in UTC.

On PostgreSQL a loaded `last_update` has an offset and the new one has none, so that they always
differ: `Written` writes the column whenever there was a reply.

Each shipment has its own tracking number. The PATCH endpoint is one atomic step:
`UpdateStatus` with a status, `UpdateDeliveryDate` with a date or an explicit null,
which takes the date out of any shipment, a delivered one too (`cleared`, until a commit
writes a date again). A null status fails and changes nothing; `estimated_delivery_date` is left out.
`delivery_date` is a time rather than a day. `Datable` and `Deletable` bound which
shipments users touch, `DefaultStatuses` which statuses new ones are given. The history is
a set: two sessions that insert the same event add one element, so that of this race the properties
see what is left out, never what is entered twice. What a carrier reports is a word of the provider, which
`TrackingProviders` turns into a status.

### TrackingProviders

The status tables of AfterShip, TrackingMore and Ship24 and the keywords of 17TRACK, as
functions and one operator. Keywords are tried in order on a text that may contain
several: "undelivered" contains "delivered", so that the keyword `undelivered` is never
reached and an undelivered parcel of 17TRACK becomes a delivered one. No table
yields `delayed`.

### ShipmentHistory

What the tracking side promises to somebody who only reads shipments: a history
that grows, a status and a delivery date that change only to what the history or a
user says, and notifications before a delivered or delayed status becomes visible,
one shipment at a time. `TrackingSync!ImplementsShipmentHistory` is the refinement; the
mapping projects the rows and the notifications, and drops sessions, copies,
providers and flags. It is more than the invariants together: it says of every
step which shipment it may change and into what.

The same steps, as the rest of the installation sees them, are `TrackingSync!ImplementsParcelTables`:
each one that changes a table is a transaction of `ParcelTables`, with an order for each
shipment and the readers idle. This is what allows `ParcelServer` to have one action for a sync.
`sync_shipment` there writes a status and a date of the events it adds *or leaves the columns
alone*, independently of each other: that is what a commit from stale copies comes to.

### OAuthSignIn

The page (one user, one tab), its requests in flight and the threads that handle
them. A request carries what the callback of the page captured when it was sent
(flow, provider, mailbox to reconnect); `awaited` is FALSE once its connection broke
and only the thread is left.

| Variable | Code |
| --- | --- |
| `dialog`, `preset`, `target`, `status`, `flow`, `saving` | `dialogOpen`, `providerId`, `reconnectTarget`, `oauthStatus`, `oauthFlow`, `isSaving` |
| `req[r]` | a request: its step, and what it carries |
| `code`, `issuer` | what became of a device code, at which provider (external) |
| `pending`, `completed` | `_pending_flows`, `_completed_flows` of both modules |
| `lapsed` | entries whose `expires_at` has passed |
| `auth`, `token`, `deleted` | rows of `mail_accounts`; a token is named by its flow |

`poll_device_flow` is `LookUpCompleted`, then `PollRefused` or `AskProvider` /
`AskFails`, then `ApplyAnswer`; `take_completed_tokens` is `GetTokens` and
`DeleteTokens`, since `get` and `del` are separate uses of a shared dictionary;
`_create_oauth_account` or `_reconnect_oauth_account` follow. `AnswerArrives` is what
comes after an `await` of the page. The two provider modules have the same code, so
one set of actions stands for both and `OfProvider` for having dictionaries of
their own. Clocks are replaced by the events `CodeExpires` and `EntryLapses`. `AskFails` is a
provider that is not reached or whose answer is lost, and also one whose server's error comes as
JSON or whose tokens come without a refresh token: the last two take the flow
away, although the first of them says nothing about it. `LookUpCompleted` is the `in` and the
`[]` after it; an entry that is deleted between them is a KeyError there, which the page
cannot tell from a refused poll (`PollRefused`).

Left out: the checks of `user_id` (flow ids are random and the page uses its own),
`_require_..._configured` (configuration does not change while the server runs),
`slow_down` (treated like a pending answer by the code), the fields of the form, and
the edit dialog as a dialog of its own (it is the add dialog with a preset that
stays unset). A list or dictionary error from two threads purging at once
(`_purge_expired`) is not modelled.

### TokenCustody

What the sign-in promises of the tokens of a flow: they are obtained once, from the provider
that issued the flow (`Start`, `Obtain`); then the backend holds them until it loses them (`Lose`) or stores
them (`Store`), in one mailbox, once, which is new or of their provider and not deleted; and what
it does not hold any more never comes back. `OAuthSignIn!ImplementsTokenCustody` is the
refinement: obtained are the flows whose code is redeemed (`Redeemed`), held are those in
`completed` or with a thread between the provider's answer and the dictionary, or between
the dictionary and the commit (`Held`). The page, its polls and the dictionaries disappear.

### ParcelTables, HomeAssistant, TrackingWorker, ImportWorker, ParcelServer

`ParcelServer` composes the whole installation over one set of tables. What the
detailed modules show step by step is here one committed transaction
(`sync_shipment`; `import_mail`, for all mails of a batch), so that the other actors can be seen.

*ParcelTables* has the writers (create, patch, archive, delete, import, sync) and the
SELECTs of the dashboard, the statistics, the order list and the MQTT service. A
*reader* runs a program of statements, each on the tables of its moment; `rows` keeps
the set that each statement selected, of which the code takes the count. `changed` is
history: what was committed since the reader began.

*HomeAssistant* has one config entry per account: `async_setup_entry` makes a client and
awaits the first poll, `Updated` registers entry and services, `Forwarded` ends the setup;
`async_unload_entry` and `Unloaded`, or `UnloadFails` when `async_unload_platforms` returns False, are
the two halves of an unload. An entry whose unload failed stays in `hass.data` and is not touched
again. That `async_forward_entry_setups` raises is left out: the platform only creates the sensors
of the coordinator's data, and Home Assistant catches what an entity's setup raises. `_request` sends, logs
in, or logs in again once after a 401. `hass_data` is a dictionary in order of insertion,
because services take the client of its first entry.

*TrackingWorker* is the loop of `tracking_worker.main`: `Tick`, `TrackingJob` (which reads
the shipments `due`), the pass with at most one commit for each of them, whatever became of it
meanwhile, `MqttJob`, the statements of `publish`, `Publish`. An
exception other than `httpx.HTTPError` or `OSError` ends the process, and Docker restarts it with no times
(`Restart`): one of the pass itself, for a shipment that was deleted meanwhile or a reply that cannot be sorted
(`PassRaises`), or any other (`WorkerDies`). `deployed.unsortable` are shipments whose replies
never sort: as long as one of them is in the pass, the pass ends only if its request fails with an
`httpx.HTTPError`.

*ImportWorker* is `worker.run_once` (`list_active`, `NextAccount`, the sync) and
`ensure_fresh_access_token`: `refresh_access_token` or `RefreshRefused`, then `StoreToken`, in the
worker and in a "sync now" request, with `_reconnect_oauth_account` and a user who
revokes the sign-in. The provider may replace the token with every use: `refresh_access_token` is its step, after
which the answer is on its way, and `SyncFails` or `Killed` loses it (`Forgets`). A commit
expires what the worker's session has loaded, so that its later accounts are read
again; `FlushFails` ends the process for the reason given above (line 57). `deployed.unreadable` and
`deployed.unstorable` are mailboxes with a mail that cannot be parsed, or whose flush fails (a sender
longer than its column), in every sync: the sync of such a mailbox can only fail. What is certain to fail
is not counted by the bound of the failures (`Fault`).

| Variable | Code |
| --- | --- |
| `order`, `rows`, `ship`, `today` | `orders`, `shipments` and their columns, the date |
| `read[r]` | a summary in the making: next statement, results so far |
| `entry`, `hass_data`, `services` | config entries, `hass.data[DOMAIN]`, registered services |
| `token`, `step`, `data`, `call` | `_access_token`, the request under way, `coordinator.data`, a service call |
| `job`, `due`, `last_tracking_sync`, `last_mqtt_publish`, `retained` | the tracking worker, the broker |
| `left`, `loaded`, `seen`, `sync` | accounts of the pass, the session's copies, the syncs under way |
| `last_synced`, `stored`, `live` | `last_synced_at`, the stored token, the tokens the provider takes |
| `deployed`, `writes`, `faults`, `lost` | which parts are in use and the bounds; `lost` is history |

Left out: `update_order` (texts of an order), `recent_shipments`, monthly counts, top
merchant and top carrier; shipments without an order; the discovery messages of MQTT,
which are constants; config flow forms; deletion of a mail account under a token refresh
(`EmailIngestion` has deletion under a sync).

### Proof and MC modules

`EmailIngestionProofs`, `TrackingSyncProofs`, `OAuthSignInProofs` and `ParcelServerProofs` extend
the components' modules; `ImportedMailProofs` and `TokenCustodyProofs` extend the first and the third of them
with the proofs of two refinements. `MCEmailIngestion`, `MCTrackingSync`, `MCOAuthSignIn` and
`MCParcelServer` define the instances for TLC.

## 3. Runs

| Run | Checks | Instance |
| --- | --- | --- |
| `ImportRace` | `TypeOK`, `WatermarkSafe`, `ImportedIsAnnounced`, `WatermarkMonotone`, `CaughtUp` | 1 account, 2 folders, worker and request, batches of 1, one message that cannot be parsed, 1 crash |
| `ImportShared` | `WatermarkSafe`, `RecordedIsPersisted`, `ImplementsImportedMail` | 2 accounts of a user, some mails in both mailboxes, one carrier |
| `ImportProgress` | `BatchProgress` | 2 accounts of 2 users, the same mails in both, fairness |
| `TrackingRace` | `TypeOK`, `StatusHasEvent`, `DeliveredIsDated`, `StatusIsAnnounced`, `ReplyIsRecorded`, `ImplementsShipmentHistory` | 1 shipment, worker, request, user edits and deletion, 1 failure |
| `TrackingPass` | `RegisteredIsAccepted`, `DelayIsSetByUser`, `ImplementsParcelTables` | 2 shipments, 17TRACK and Ship24 (which enrols by itself), refused numbers, a switch, a deletion, undated events, 1 failure |
| `TrackingProgress` | `EventIsRecorded` | 1 shipment, worker and request, either provider, deletion, 1 failure, fairness |
| `SignIn` | `TypeOK`, `TokenOnce`, `TokenFitsMailbox`, `CompletedIsKept`, `ImplementsTokenCustody`, `SignInEnds` | 1 sign-in, 2 providers, 2 requests in flight, 1 mailbox to reconnect, 2 to create, 1 failure or restart, fairness |
| `ParcelServer` | `TypeOK`, `ServicesHaveClient`, `PollCountsOnce`, `StoredTokenLives`, `SensorsConverge`, `MqttConverges`, `AccountSynced` | the deployments of `MCParcelServer`, fairness |

The deployments of `ParcelServer` are initial states of one run, each with the parts
in use and its own bounds, so that no part pays for the others' states: Home Assistant
with one account while users write (`OneEntry`), with a failing request or an expired
token (`OneEntryFails`), with two accounts (`TwoEntries`), with two faults over midnight
(`Flaky`); the tracking worker with MQTT (`Publishing`), with a crash or lost messages
(`PublishingFails`) and with a shipment whose replies never sort (`Unsorted`); the import worker with one OAuth mailbox, a sync now and a reconnect
(`OneMailbox`), with an OAuth and a password mailbox (`TwoMailboxes`), with a mail in one of them that can never be
read (`Unreadable`) or stored (`Unstorable`), and on SQLite (`Sqlite`).

`MqttConverges` has a premise, that tracking passes are not obstructed for ever (`PassesEnd`), and
`AccountSynced` an exception, a mail that can never be stored in a mailbox that is reached (`Obstructed`). Neither is
there for the sake of the model: with a reply that never sorts nothing is ever published
again, and with such a mail the accounts behind it may never have their turn.

Four runs refute what the repository says of this code; `findings` quotes it.

| Run | Refuted | How |
| --- | --- | --- |
| `SteadyProgress` | repeated syncs make steady progress | a batch of known messages never moves the watermark (line 98: `continue`), so that the messages behind it are never fetched |
| `FolderChange` | a changed folder looks like a first-ever sync | `last_seen_uid` of the old folder stays |
| `LostStatus` | the status is from the latest event | a session that asked the provider earlier commits last; later passes see no new event and never repair it |
| `SqliteWorker` | the worker polls every active account, on the default database too | `last_synced_at` comes back naive from SQLite and is subtracted from an aware time (line 32), outside the `try`: the process ends in every pass after the first sync |

`CaughtUp` and `BatchProgress` are the parts of the refuted claims that the code
keeps, as `AccountSynced` (PostgreSQL) is for the worker. Neighbouring deviations that follow from the same code and have no run: an
older event that the provider learns of late overwrites the status even without a
race; two sessions insert the same event, or the same order, twice; `register` is
repeated when `update` fails for the last shipment of a pass; an undated event
among times without offset aborts a pass as a deleted order does (`UpdateRaises`);
`tracking_registered` survives a switch of provider, and is set for a number that the provider has refused;
a reply that never sorts ends the tracking worker in every pass, before MQTT is published (against
"Two independent periodic jobs", `tracking_worker.py:3`, and "the worker also wraps the whole pass
defensively", `docs/architecture.md:248`); a mail that can never be stored ends the import worker in every pass and
starves the accounts behind it; a PATCH with `delivery_date: null` leaves a delivered shipment undated; the second of two overlapping
polls is refused by the provider and the page shows a failed sign-in although it
has completed; a poll of an abandoned sign-in that is answered late marks the new
one as complete; two overlapping token refreshes, or one that overlaps a reconnect,
can leave a dead token in the row, as an answer that is lost after the provider has replaced the token
does (the cases that `StoredTokenLives` names); the
retained `next_delivery` stays when no delivery is expected any more; beyond a page of
orders the next and last delivery are those of any page; no provider ever reports a
delay, although delays are among the announced statuses (`DelayIsSetByUser`).

### Bounds

Two concurrent sessions: every race in the code is between a read and a write of
two sessions; more are covered by the proofs. UIDs up to 2 with batches of 1 or 2 give
a batch that is cut, a gap and a message that arrives during a sync. Two events per
shipment give an order to be wrong about; times up to 2 are the times of the two
events. One crash or failed call at any step of any session. One switch of provider.
Two requests in flight are what one page makes overlap. An abandoned sign-in and its
successor need two flows: `TokenOnce`, `TokenFitsMailbox`, `CompletedIsKept` and
`ImplementsTokenCustody` are proved for any number, `SignInEnds` is checked for one. Two orders of one user and a page of one
(`Limit`) give a list that does not fit; two days give a midnight between two statements;
five tokens are as many as can be held at once. `MaxUid`, `MaxTime`, `MaxFailures`,
`MaxFaults`, `MaxSwitches`, `MaxDay`, `Flows`, `Reqs`, `Tokens` and the `days`, `writes` and `faults` of a
deployment are the names of the bounds. TLC looks for deadlocks in `SignIn` only: in the
others the world may stop sending mail and events, and a deployment may lack the
part that would go on.

### Fairness

`EmailIngestion`: strong fairness of a started sync, because an INSERT waiting for a
key is served by the lock queue of the database even when the key is taken again,
and of the worker's next sync of each account, because its loop comes back to
every account (a dead process is restarted: `restart: unless-stopped`).
`TrackingSync`: weak fairness of the worker's loop and of every started sync; all
calls have timeouts. `OAuthSignIn`: weak fairness of the page's timer, of every
handler, of the arrival of every answer and of the expiry of device codes, which is
the provider's clock. `ParcelServer`: weak fairness of the coordinator's timer and of Home
Assistant's retries of a failed setup, of the loops of both workers, of a sync that
a request has started, and of the passing of the poll interval. A step of these may be one that fails;
it fails every time only where the deployment says so. Nothing obliges a user to press a button, a mail to arrive or
a provider to report.

## 4. Proofs

Checked by TLAPS for every value of the constants under the `ASSUME`s of the
modules (any number of sessions, accounts, messages, shipments, providers; any
batch limit).

*EmailIngestionProofs*: `TypeCorrect`, `WatermarkCorrect` (`WatermarkSafe`),
`WatermarkNeverGoesBack` (`WatermarkMonotone`), `UntruncatedIsCaughtUp` (`CaughtUp`),
`ImportsAnnounced` (`ImportedIsAnnounced`) and `RecordsPersist` (`RecordedIsPersisted`).
`WatermarkSafe` is not inductive: a
commit raises the watermark to `seen`, a local value of a sync. The invariant
`IndInv` adds, for every sync in progress:

* `BatchInv`, `NoGap`: the batch is a prefix, without gaps, of what is above `since`
  - messages that arrive later have larger UIDs;
* `Done`, `Moved`: what the loop has finished is recorded, in the table or in this
  transaction, and `seen` is `since` or the UID of a finished message;
* `Anchored`, `Reached`: what lies at or below `since` is recorded already, and the row's
  watermark is not below it while the account and its folder last;
* `Exclusive`, `Fresh`: a message is flushed by one transaction only and not in the
  table, which is what the unique index gives. This is the key to monotonicity: a
  sync that has moved its watermark owns the message it moved to, so no other sync
  can have committed a higher one.

On top of it, `Fetched` (the batch is the oldest of what was there) gives `CaughtUp`: a cut
list has exactly `Limit` elements (`OldestCut`, by cardinalities), what was not cut is in the
batch, and what lies below is recorded. `FlushedIsAnnounced` gives `ImportedIsAnnounced`. `PersistInv`
gives `RecordedIsPersisted`: the order in hand stands for the message (`InHand`), every
email row not yet committed has its order and shipments in the tables or in the same
transaction (`Promised`), for the owner of the mailbox, placeholder orders are SHIPPED from
the start (`Placeholders`), a transaction that has not started has flushed nothing
(`Unstarted`), and what a sync has seen outlasts the commits of the others (`Lasts`).

*ImportedMailProofs*: `ImportedMailImplemented` (`ImplementsImportedMail`). That a commit enters its mails
wholly is `PersistInv`. That it enters nothing else is `OriginInv`: every row and every change of status
that a transaction has flushed stems from a mail that it has recorded or is working on
(`Stems`), and belongs to the owner of the mailbox. One transaction alone does not give it: two of
them may have flushed an order for the same mail, and it is the unique index on
`emails.message_id` that lets only one commit. Hence `Once`: a committed order stems from a
recorded mail, and no two from the same.

*TrackingSyncProofs*: `TypeCorrect`, `RegistrationCorrect`, `StatusExplained`,
`StatusAnnounced`, `DeliveryDated`, `RepliesRecorded`. The invariant adds what holds of
the drafts before they are committed (`PendingIsAccepted`, `DraftHasEvent`,
`DraftIsAnnounced`, `DraftIsDated`), that a session's reads stay true because
events are never removed except with their shipment (`ReadsHold`), that a deleted
shipment never comes back (`OnlyCreated`), and that the reply is covered by the draft and the
known events (`ReplyIsCovered`). `ShipmentHistoryImplemented` proves the refinement: with
this invariant, and with the delivered event behind the date of a draft
(`DraftDateHasEvent`), every step is one of `ShipmentHistory` or a stutter. `DelaysAreUsers`
proves `DelayIsSetByUser` from the tables of the providers: `SyncsReport` says that replies and drafts of a
sync have statuses that some provider's word stands for, and `ReportsNeverDelay` that none is a delay.
`ParcelTablesImplemented` (`ImplementsParcelTables`) needs `SyncsReport` as well, `DraftHasEvent` and `DraftDateHasEvent` for what a
commit may write, and that a shipment that is gone has no events (`NoRowNoEvents`).

*OAuthSignInProofs*: `TypeCorrect`, `TokensUsedOnce` (`TokenOnce`), `TokensFit`
(`TokenFitsMailbox`) and `SignInKept` (`CompletedIsKept`). The invariant follows the tokens:
they are in the dictionary, with one thread, or in one mailbox (`OnePlace`); wherever
they are, their code has been redeemed, so that no later poll brings a second copy
(`TokensIssued`); and what a request captured is still true when it is used, because
a flow keeps its issuer and a mailbox its provider (`RequestsOK`).

*TokenCustodyProofs*: `TokenCustodyImplemented` (`ImplementsTokenCustody`). With the same invariant and `Issued` (a code
has an issuer exactly when it was given out), most steps give no thread tokens it did not have (`NoneGained`)
and so are a `Lose` or a stutter; the rest move the tokens of one flow, and `OnePlace`
says that what they take is nowhere else.

*ParcelServerProofs*: `TypeCorrect`, `ServicesAreServed` (`ServicesHaveClient`, which is inductive
with the types), `StoredTokensLive` (`StoredTokenLives`) and `PollsCountOnce` (`PollCountsOnce`), for any
number of users, orders, shipments, mailboxes and tokens. The token invariant `TokenInv`
says that a sync with an answer holds it (`GotToken`), alone (`OnlyHolder`: no other sync
and no row has a token that is not stored yet), and that the provider still accepts such a
token while the mailbox has the one it replaces and is not lost (`HeldIsTaken`). An answer that does not
arrive, or a process that is stopped, is the lemma `TokenGone`. The poll invariant `PollInv` says that shipments have a present order
(`RowsHaveOrder`) and, for every user polled, that each statement run so far selected,
among the shipments not changed since, exactly those it would select now (`Exact`).

Only model-checked: the liveness properties `BatchProgress`, `EventIsRecorded`, `SignInEnds`,
`SensorsConverge`, `MqttConverges` and `AccountSynced`, which are out of the prover's reach. Every
safety property of a passing run is proved.

## 5. What could follow

1. Orders that users edit, and mail accounts that are deleted, while a sync is under way.
2. Mails without a Message-ID, with UIDs shared between folders.
3. Carrier detection as an operator over classes of tracking numbers.
4. The commits of `EmailIngestion` as steps of `ParcelTables!import_mail`, as it is done for `TrackingSync`.

## 6. Not modelled

Presentation (the other pages of the frontend, the Lovelace card), schemas,
migrations, configuration files, logging; registration, password hashing and the
encoding of JWTs, which are library calls; the notification channels' I/O; the version
check, a cached number that is only displayed; the regular expressions of the
parsers and of the carrier detection, which are about characters and keep no state;
IMAP IDLE, which nothing calls; and `remove()` of the providers, which nothing calls.
