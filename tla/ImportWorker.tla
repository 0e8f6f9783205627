---------------------------- MODULE ImportWorker ----------------------------
(***************************************************************************)
(* The loop of the import worker process (worker.main) and the sign-in     *)
(* tokens that every sync of an OAuth mailbox redeems, in the worker or in *)
(* a "sync now" request.  What a sync does with the mails is module        *)
(* EmailIngestion; here it is one commit to the tables.                    *)
(***************************************************************************)
EXTENDS ParcelTables

CONSTANTS
    Worker, Request,  \* who syncs: the process, and a request of the API
    AuthType,         \* how each mail account signs in
    Tokens            \* refresh tokens, reused once nobody has them any more

Syncers == {Worker, Request}
OAuth == {a \in Mailboxes : AuthType[a] # "password"}

ASSUME SyncersAssumption == Worker # Request /\ None \notin Mailboxes
ASSUME AuthAssumption == AuthType \in [Mailboxes -> {"password", "oauth_microsoft", "oauth_google"}]
ASSUME TokensAssumption == Tokens \subseteq Nat /\ Tokens # {}

VARIABLES
    left,             \* accounts of this pass of run_once still to look at
    loaded,           \* tokens in the worker's session, None: not loaded or expired
    seen,             \* last_synced_at in the worker's session, or "expired"
    sync,             \* where the sync of each syncer is
    last_synced,      \* last_synced_at: None, "recent" or "due"
    stored,           \* encrypted_oauth_refresh_token
    live,             \* the tokens that the provider takes
    lost              \* mailboxes whose sign-in was revoked or lost (history)

importVars == <<left, loaded, seen, sync, last_synced, stored, live, lost>>

\* acct: the mailbox; shown: the token sent to the provider; got: the one in its
\* answer, which is on its way or has come.
Sync == [step : {"idle", "redeem", "commit", "fetch", "save"},
         acct : Mailboxes \cup {None}, shown : Tokens \cup {None}, got : Tokens \cup {None}]
NoSync == [step |-> "idle", acct |-> None, shown |-> None, got |-> None]

First == CHOOSE t \in Tokens : \A u \in Tokens : t <= u

ImportWorkerTypeOK ==
    /\ left \subseteq Mailboxes
    /\ loaded \in [Mailboxes -> Tokens \cup {None}]
    /\ seen \in [Mailboxes -> {"recent", "due", "expired", None}]
    /\ sync \in [Syncers -> Sync]
    /\ \A s \in Syncers : sync[s].acct = None <=> sync[s].step = "idle"
    /\ last_synced \in [Mailboxes -> {"recent", "due", None}]
    /\ stored \in [Mailboxes -> Tokens \cup {None}]
    /\ live \in [Mailboxes -> SUBSET Tokens]
    /\ lost \subseteq Mailboxes

ImportWorkerInit ==
    /\ left = {}
    /\ loaded = [a \in Mailboxes |-> None]
    /\ seen = [a \in Mailboxes |-> "expired"]
    /\ sync = [s \in Syncers |-> NoSync]
    /\ last_synced = [a \in Mailboxes |-> None]
    /\ stored = [a \in Mailboxes |-> IF a \in OAuth THEN First ELSE None]
    /\ live = [a \in Mailboxes |-> IF a \in OAuth THEN {First} ELSE {}]
    /\ lost = {}

-----------------------------------------------------------------------------
(* The provider.                                                           *)

InUse(a) == live[a] \cup {stored[a], loaded[a]}
                \cup UNION {{sync[s].shown, sync[s].got} : s \in {s \in Syncers : sync[s].acct = a}}

\* A token that was never issued before, as far as anybody can tell.
Fresh(a, t) == t \in Tokens \ InUse(a) /\ \A u \in Tokens \ InUse(a) : t <= u

\* The user signs out at the provider: no token is taken any more.
Revoke(a) ==
    /\ a \in OAuth \cap deployed.polled
    /\ faults < deployed.faults /\ faults' = faults + 1
    /\ live' = [live EXCEPT ![a] = {}]
    /\ lost' = lost \cup {a}
    /\ UNCHANGED <<deployed, tableVars, read, writes, left, loaded, seen, sync, last_synced, stored>>

\* _reconnect_oauth_account with the token of a new sign-in.  A sync that holds
\* an older one may still store it.
_reconnect_oauth_account(a) ==
    /\ a \in OAuth \cap deployed.polled
    /\ ByUser
    /\ \E t \in Tokens : /\ Fresh(a, t)
                         /\ stored' = [stored EXCEPT ![a] = t]
                         /\ live' = [live EXCEPT ![a] = @ \cup {t}]
    /\ lost' = lost \ {a}
    /\ UNCHANGED <<tableVars, read, left, loaded, seen, sync, last_synced>>

-----------------------------------------------------------------------------
(* sync_account.                                                           *)

\* The sync of s is over, with or without success.
End(s) == sync' = [sync EXCEPT ![s] = NoSync]

\* The process ends by an exception of run_once and is started again.
Die ==
    /\ left' = {}
    /\ loaded' = [a \in Mailboxes |-> None]
    /\ seen' = [a \in Mailboxes |-> "expired"]
    /\ End(Worker)

\* A commit of the worker's session expires everything it has loaded.
Expires(s) ==
    \/ /\ s = Worker
       /\ loaded' = [a \in Mailboxes |-> None]
       /\ seen' = [a \in Mailboxes |-> "expired"]
    \/ s # Worker /\ UNCHANGED <<loaded, seen>>

\* ensure_fresh_access_token up to its request; a password account needs none.
BeginSync(s, a, token) ==
    sync' = [sync EXCEPT ![s] =
               IF a \in OAuth THEN [step |-> "redeem", acct |-> a, shown |-> token, got |-> None]
               ELSE [NoSync EXCEPT !.step = "fetch", !.acct = a]]

\* A "sync now" request.
sync_mail_account(a) ==
    /\ sync[Request] = NoSync /\ a \in deployed.polled
    /\ ByUser
    /\ BeginSync(Request, a, stored[a])
    /\ UNCHANGED <<tableVars, read, left, loaded, seen, last_synced, stored, live, lost>>

\* Mutant: the token of the answer is overlooked.
redeem_keeping_old(s) ==
    LET a == sync[s].acct IN
    /\ sync[s].step = "redeem" /\ sync[s].shown \in live[a]
    /\ \E t \in Tokens :
         /\ t = sync[s].shown \/ Fresh(a, t)
         /\ live' = [live EXCEPT ![a] = (@ \ {sync[s].shown}) \cup {t}]
         /\ sync' = [sync EXCEPT ![s].step = "commit", ![s].got = sync[s].shown]
    /\ UNCHANGED <<parcelVars, left, loaded, seen, last_synced, stored, lost>>

\* refresh_access_token: the provider takes the token and replaces it (then the
\* old one is dead), or leaves it out of the answer and keeps it.
refresh_access_token(s) ==
    LET a == sync[s].acct IN
    /\ sync[s].step = "redeem" /\ sync[s].shown \in live[a]
    /\ \E t \in Tokens :
         /\ t = sync[s].shown \/ Fresh(a, t)
         /\ live' = [live EXCEPT ![a] = (@ \ {sync[s].shown}) \cup {t}]
         /\ sync' = [sync EXCEPT ![s].step = "commit", ![s].got = t]
    /\ UNCHANGED <<parcelVars, left, loaded, seen, last_synced, stored, lost>>

\* The provider refuses: ConnectionError, and the sync ends.
RefreshRefused(s) ==
    /\ sync[s].step = "redeem" /\ sync[s].shown \notin live[sync[s].acct]
    /\ End(s)
    /\ UNCHANGED <<parcelVars, left, loaded, seen, last_synced, stored, live, lost>>

\* ensure_fresh_access_token stores the token it got, whatever is stored by now.
StoreToken(s) ==
    LET a == sync[s].acct IN
    /\ sync[s].step = "commit"
    /\ stored' = [stored EXCEPT ![a] = sync[s].got]
    /\ lost' = IF stored[a] # sync[s].shown THEN lost \cup {a} ELSE lost
    /\ sync' = [sync EXCEPT ![s] = [NoSync EXCEPT !.step = "fetch", !.acct = a]]
    /\ Expires(s)
    /\ UNCHANGED <<parcelVars, left, last_synced, live>>

\* The mails are fetched.
Fetch(s) ==
    /\ sync[s].step = "fetch" /\ sync[s].acct \notin deployed.unreadable
    /\ sync' = [sync EXCEPT ![s].step = "save"]
    /\ UNCHANGED <<parcelVars, left, loaded, seen, last_synced, stored, live, lost>>

\* The commit: what the mails tell of, if anything, and last_synced_at.
Save(s) ==
    /\ sync[s].step = "save" /\ sync[s].acct \notin deployed.unstorable
    /\ \/ /\ ByUser
          /\ \E u \in Users, O \in SUBSET Orders, S \in SUBSET Shipments : import_mail(u, O, S)
       \/ UNCHANGED parcelVars
    /\ last_synced' = [last_synced EXCEPT ![sync[s].acct] = "recent"]
    /\ End(s) /\ Expires(s)
    /\ UNCHANGED <<left, stored, live, lost>>

\* The sign-in is lost when s is over before it stores the token by which the
\* provider has replaced the stored one.
Forgets(s) ==
    LET r == sync[s] IN
    lost' = IF r.step = "commit" /\ r.got # r.shown /\ r.shown = stored[r.acct]
            THEN lost \cup {r.acct} ELSE lost

\* The provider cannot be reached or its answer is lost (a timeout, a reset, no
\* JSON), after it has acted on the request or before; or the mailbox cannot be
\* reached, or a mail cannot be read.  The worker logs it and goes on with the
\* next account.
SyncFails(s) ==
    /\ sync[s].step \in {"redeem", "commit", "fetch"}
    /\ Fault(sync[s].step = "fetch" /\ sync[s].acct \in deployed.unreadable)
    /\ Forgets(s)
    /\ End(s)
    /\ UNCHANGED <<deployed, tableVars, read, writes, left, loaded, seen, last_synced, stored, live>>

\* The flush of a mail fails.  The request is a 500.  The worker's handler reads
\* account.email_address, which the session cannot load any more, and the
\* process ends.
FlushFails(s) ==
    /\ sync[s].step = "save"
    /\ Fault(sync[s].acct \in deployed.unstorable)
    /\ \/ s = Worker /\ Die
       \/ s # Worker /\ End(s) /\ UNCHANGED <<left, loaded, seen>>
    /\ UNCHANGED <<deployed, tableVars, read, writes, last_synced, stored, live, lost>>

\* The process of s is stopped at any point.  A token got and not yet stored is
\* gone.
Killed(s) ==
    /\ sync[s] # NoSync \/ (s = Worker /\ left # {})
    /\ Fault(FALSE)
    /\ Forgets(s)
    /\ \/ s = Worker /\ Die
       \/ s # Worker /\ End(s) /\ UNCHANGED <<left, loaded, seen>>
    /\ UNCHANGED <<deployed, tableVars, read, writes, last_synced, stored, live>>

-----------------------------------------------------------------------------
(* run_once.                                                               *)

\* list_active loads the accounts.
list_active ==
    /\ deployed.polled # {} /\ left = {} /\ sync[Worker] = NoSync
    /\ left' = deployed.polled
    /\ loaded' = stored
    /\ seen' = last_synced
    /\ UNCHANGED <<parcelVars, sync, last_synced, stored, live, lost>>

\* account.last_synced_at, read from the tables again once it is expired.
LastSyncedAt(a) == IF seen[a] = "expired" THEN last_synced[a] ELSE seen[a]

\* Mutant: an account that was never synced is not due.
_due_for_another_sync(a) == LastSyncedAt(a) = "due"

_due_for_sync(a) == LastSyncedAt(a) \in {None, "due"}

\* SQLite gives back last_synced_at without its time zone.
Naive(a) == deployed.driver = "sqlite" /\ LastSyncedAt(a) # None

\* The next account of the loop (a statement without ORDER BY: any of them).
\* To subtract a naive time from now is a TypeError, outside the try.
NextAccount(a) ==
    /\ sync[Worker] = NoSync /\ a \in left
    /\ \/ /\ Naive(a)
          /\ Die
       \/ /\ ~Naive(a) /\ _due_for_sync(a)
          /\ BeginSync(Worker, a, IF loaded[a] = None THEN stored[a] ELSE loaded[a])
          /\ left' = left \ {a}
          /\ UNCHANGED <<loaded, seen>>
       \/ /\ ~Naive(a) /\ ~_due_for_sync(a)
          /\ left' = left \ {a}
          /\ UNCHANGED <<loaded, seen, sync>>
    /\ UNCHANGED <<parcelVars, last_synced, stored, live, lost>>

\* poll_interval_seconds have passed.
Elapse(a) ==
    /\ last_synced[a] = "recent"
    /\ last_synced' = [last_synced EXCEPT ![a] = "due"]
    /\ UNCHANGED <<parcelVars, left, loaded, seen, sync, stored, live, lost>>

-----------------------------------------------------------------------------
SyncStep(s) ==
    \/ refresh_access_token(s) \/ RefreshRefused(s) \/ StoreToken(s) \/ Fetch(s) \/ Save(s)
    \/ SyncFails(s) \/ FlushFails(s)

ImportStep == list_active \/ SyncStep(Worker) \/ \E a \in Mailboxes : NextAccount(a)

ImportWorkerNext ==
    \/ ImportStep \/ SyncStep(Request)
    \/ \E s \in Syncers : Killed(s)
    \/ \E a \in Mailboxes : sync_mail_account(a) \/ Elapse(a) \/ Revoke(a)
                            \/ _reconnect_oauth_account(a)

=============================================================================
