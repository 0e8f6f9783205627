---------------------------- MODULE OAuthSignIn ----------------------------
(***************************************************************************)
(* Signing a mailbox in with Microsoft or Google: the device-code flow of  *)
(* oauth_microsoft.py and oauth_google.py, the endpoints that drive it and *)
(* the mail accounts page of the browser that polls for its completion.    *)
(*                                                                         *)
(* The page awaits each request while the user goes on using it: closing a *)
(* dialog does not cancel a request, and what its answer does to the page  *)
(* was fixed when it was sent.  The timer of the page polls on whether or  *)
(* not the poll before has been answered.  The endpoints are plain         *)
(* functions that FastAPI runs in a pool of threads, so requests           *)
(* interleave at their calls and at their uses of the two dictionaries of  *)
(* flows, which live in memory and are lost in a restart.                  *)
(*                                                                         *)
(* The two providers have the same code and dictionaries of their own: the *)
(* dictionaries of provider p are the flows of pending and completed that  *)
(* p issued.  The tokens of a sign-in are named by its flow.  One user and *)
(* one page; flow ids are random (uuid4), so the page polls its own flows. *)
(***************************************************************************)
EXTENDS Integers, FiniteSets

CONSTANTS
    Providers,        \* the OAuth providers (microsoft, google)
    Flows,            \* flow ids, each given out once: bounds the sign-ins
    Accounts,         \* primary keys of mailboxes with OAuth sign-in
    InitialAuth,      \* auth_type of the mailboxes there are at first, or None
    Reqs,             \* bound: requests in flight at once
    None,
    MaxFaults         \* bound: failed requests, lost replies and restarts

ASSUME NoneAssumption ==
    None \notin Providers /\ None \notin Flows /\ None \notin Accounts
ASSUME AuthAssumption == InitialAuth \in [Accounts -> Providers \cup {None}]
ASSUME BoundsAssumption == MaxFaults \in Nat

VARIABLES
    \* the page (MailAccountsPage)
    dialog,           \* dialogOpen
    preset,           \* the OAuth provider of the chosen preset, or None
    target,           \* reconnectTarget
    status,           \* oauthStatus
    flow,             \* oauthFlow
    saving,           \* isSaving
    \* requests in flight: where they are, and what they carry
    req,
    \* the providers
    code,             \* code[f]: what became of the device code of flow f
    issuer,           \* issuer[f]: the provider that issued it
    \* the backend's memory
    pending,          \* _pending_flows
    completed,        \* _completed_flows
    lapsed,           \* flows whose entry is past its expires_at
    \* the mail_accounts table
    auth,             \* auth_type, None before the mailbox is created
    token,            \* the sign-in whose refresh token is stored, or None
    deleted,          \* mailboxes that were deleted
    failures, restarts

pageVars == <<dialog, preset, target, status, flow, saving>>
flowVars == <<pending, completed, lapsed>>
providerVars == <<code, issuer>>
tableVars == <<auth, token, deleted>>
boundVars == <<failures, restarts>>
vars == <<pageVars, req, providerVars, flowVars, tableVars, boundVars>>

\* The steps of a request.  "lookup" and "ask" are poll_device_flow up to the
\* provider's answer, "apply" the rest of it; "take" and "del" are the two
\* halves of take_completed_tokens, "store" what follows it.
Steps == {"idle", "start", "lookup", "ask", "apply", "take", "del", "store",
          "save", "answered"}
FirstSteps == {"start", "lookup", "take", "save"}
Kinds == {"start", "poll", "finalize", "reconnect", "save"}
Answers == {"none", "tokens", "pending", "expired", "failed", "ok", "error"}

\* awaited: the page still waits for the answer.
Request == [step : Steps, kind : Kinds, flow : Flows \cup {None},
            provider : Providers \cup {None}, target : Accounts \cup {None},
            answer : Answers, awaited : BOOLEAN]

NoRequest == [step |-> "idle", kind |-> "save", flow |-> None, provider |-> None,
              target |-> None, answer |-> "none", awaited |-> FALSE]

Init ==
    /\ dialog = FALSE /\ preset = None /\ target = None
    /\ status = "idle" /\ flow = None /\ saving = FALSE
    /\ req = [r \in Reqs |-> NoRequest]
    /\ code = [f \in Flows |-> "none"]
    /\ issuer = [f \in Flows |-> None]
    /\ pending = {} /\ completed = {} /\ lapsed = {}
    /\ auth = InitialAuth
    /\ token = [a \in Accounts |-> None]
    /\ deleted = {}
    /\ failures = 0 /\ restarts = 0

----------------------------------------------------------------------------
\* The page.

Send(r, step, kind, f, p, a) ==
    /\ req[r].step = "idle"
    /\ req' = [req EXCEPT ![r] =
                 [step |-> step, kind |-> kind, flow |-> f, provider |-> p,
                  target |-> a, answer |-> "none", awaited |-> TRUE]]

resetOAuthSignIn == status' = "idle" /\ flow' = None

\* Dialogs are modal: one opens only when none is open.
NoDialog == ~dialog /\ target = None

\* openEditDialog too: it is the add dialog with a preset that stays None.
openAddDialog ==
    /\ NoDialog
    /\ dialog' = TRUE /\ preset' = None
    /\ resetOAuthSignIn
    /\ UNCHANGED <<target, saving, req, providerVars, flowVars, tableVars, boundVars>>

\* The chosen preset outlives the dialog.
closeDialog ==
    /\ dialog
    /\ dialog' = FALSE
    /\ resetOAuthSignIn
    /\ UNCHANGED <<preset, target, saving, req, providerVars, flowVars, tableVars, boundVars>>

\* The list of mailboxes may be older than a deletion.
openReconnectDialog(a) ==
    /\ NoDialog
    /\ auth[a] # None
    /\ target' = a
    /\ resetOAuthSignIn
    /\ UNCHANGED <<dialog, preset, saving, req, providerVars, flowVars, tableVars, boundVars>>

closeReconnectDialog ==
    /\ target # None
    /\ target' = None
    /\ resetOAuthSignIn
    /\ UNCHANGED <<dialog, preset, saving, req, providerVars, flowVars, tableVars, boundVars>>

\* p is None for the presets that sign in with a password, of which there are
\* several.
handleProviderChange(p) ==
    /\ dialog
    /\ p # preset \/ p = None
    /\ preset' = p
    /\ resetOAuthSignIn
    /\ UNCHANGED <<dialog, target, saving, req, providerVars, flowVars, tableVars, boundVars>>

activeOAuthProvider == IF target # None THEN auth[target] ELSE preset

\* The panel is shown in the add dialog of a preset with OAuth, and in the
\* reconnect dialog; it has a button to start in two of its states.
startOAuthSignIn(r) ==
    /\ target # None \/ dialog
    /\ activeOAuthProvider # None
    /\ status \in {"idle", "error"}
    /\ status' = "starting"
    /\ Send(r, "start", "start", None, activeOAuthProvider, None)
    /\ UNCHANGED <<dialog, preset, target, flow, saving, providerVars, flowVars, tableVars,
                   boundVars>>

Polling == status = "waiting" /\ flow # None /\ activeOAuthProvider # None

\* The interval's callback, up to its first await.
PollTick(r) ==
    /\ Polling
    /\ Send(r, "lookup", "poll", flow, activeOAuthProvider, target)
    /\ UNCHANGED <<pageVars, providerVars, flowVars, tableVars, boundVars>>

\* Up to the await: finalize of an OAuth mailbox, or create or patch of any
\* other, which touch nothing that is modelled here.
handleSave(r) ==
    /\ dialog /\ ~saving
    /\ \/ /\ preset # None
          /\ status = "complete" /\ flow # None
          /\ Send(r, "take", "finalize", flow, preset, None)
       \/ /\ preset = None
          /\ Send(r, "save", "save", None, None, None)
    /\ saving' = TRUE
    /\ UNCHANGED <<dialog, preset, target, status, flow, providerVars, flowVars, tableVars,
                   boundVars>>

\* What the page does with the answer to request r, whatever it shows by then.
StartAnswered(r, ok) ==
    /\ req[r].kind = "start"
    /\ IF ok THEN flow' = req[r].flow /\ status' = "waiting"
             ELSE status' = "error" /\ UNCHANGED flow
    /\ UNCHANGED <<dialog, preset, target, saving>>

\* Mutant: an error of a poll is ignored, since the next may succeed.
PollAnsweredIgnoringErrors(r, ok) ==
    /\ req[r].kind = "poll"
    /\ status' = IF ok THEN "complete" ELSE status
    /\ UNCHANGED <<dialog, preset, target, flow, saving>>

\* The poll of a create-flow, and the reconnect of the other kind.
PollAnswered(r, ok) ==
    /\ req[r].kind = "poll"
    /\ status' = IF ok THEN "complete" ELSE "error"
    /\ UNCHANGED <<dialog, preset, target, flow, saving>>

ReconnectAnswered(r, ok) ==
    /\ req[r].kind = "reconnect"
    /\ IF ok THEN target' = None /\ resetOAuthSignIn
             ELSE status' = "error" /\ UNCHANGED <<target, flow>>
    /\ UNCHANGED <<dialog, preset, saving>>

SaveAnswered(r, ok) ==
    /\ req[r].kind \in {"finalize", "save"}
    /\ saving' = FALSE
    /\ IF ok THEN dialog' = FALSE /\ resetOAuthSignIn
             ELSE UNCHANGED <<dialog, status, flow>>
    /\ UNCHANGED <<preset, target>>

\* Every call is awaited in a try block of its own.
PageContinues(r, ok) ==
    \/ StartAnswered(r, ok)
    \/ PollAnswered(r, ok)
    \/ ReconnectAnswered(r, ok)
    \/ SaveAnswered(r, ok)

\* A pending poll does nothing; the completed poll of a reconnect dialog
\* posts the reconnect of the mailbox it was sent for.
StillPending(q) == q.kind = "poll" /\ q.answer = "pending"
PostsReconnect(q) == q.kind = "poll" /\ q.answer = "ok" /\ q.target # None

AnswerArrives(r) ==
    /\ req[r].step = "answered"
    /\ \/ /\ StillPending(req[r])
          /\ req' = [req EXCEPT ![r] = NoRequest]
          /\ UNCHANGED pageVars
       \/ /\ PostsReconnect(req[r])
          /\ req' = [req EXCEPT ![r].step = "take", ![r].kind = "reconnect",
                                ![r].answer = "none"]
          /\ UNCHANGED pageVars
       \/ /\ ~StillPending(req[r]) /\ ~PostsReconnect(req[r])
          /\ req' = [req EXCEPT ![r] = NoRequest]
          /\ PageContinues(r, req[r].answer = "ok")
    /\ UNCHANGED <<providerVars, flowVars, tableVars, boundVars>>

\* The connection of a request breaks: the page sees an error.  The request
\* has not reached the backend, or its thread runs on, or has finished.
ConnectionBreaks(r) ==
    /\ failures + restarts < MaxFaults
    /\ req[r].awaited
    /\ PageContinues(r, FALSE)
    /\ \/ /\ req[r].step \in FirstSteps \cup {"answered"}
          /\ req' = [req EXCEPT ![r] = NoRequest]
       \/ /\ req[r].step # "answered"
          /\ req' = [req EXCEPT ![r].awaited = FALSE]
    /\ failures' = failures + 1
    /\ UNCHANGED <<providerVars, flowVars, tableVars, restarts>>

----------------------------------------------------------------------------
\* The backend.

\* The handler of request r returns or raises.
Answer(r, a, f) ==
    req' = [req EXCEPT ![r] =
              IF req[r].awaited
                THEN [req[r] EXCEPT !.step = "answered", !.answer = a, !.flow = f]
                ELSE NoRequest]

GoTo(r, s, a) == req' = [req EXCEPT ![r].step = s, ![r].answer = a]

\* Mutant: the providers share their dictionaries.
OfAnyProvider(p) == {f \in Flows : issuer[f] \in Providers}

OfProvider(p) == {f \in Flows : issuer[f] = p}

\* What _purge_expired leaves of a dictionary.
Unexpired(flows, p) == flows \ (lapsed \cap OfProvider(p))

start_device_flow(r) ==
    /\ req[r].step = "start"
    /\ \E f \in Flows :
         /\ code[f] = "none"
         /\ code' = [code EXCEPT ![f] = "open"]
         /\ issuer' = [issuer EXCEPT ![f] = req[r].provider]
         /\ pending' = Unexpired(pending, req[r].provider) \cup {f}
         /\ Answer(r, "ok", f)
    /\ completed' = Unexpired(completed, req[r].provider)
    /\ lapsed' = lapsed \ OfProvider(req[r].provider)
    /\ UNCHANGED <<pageVars, tableVars, boundVars>>

\* poll_device_flow: flow_id in _completed_flows, and its entry.
LookUpCompleted(r) ==
    /\ req[r].step = "lookup"
    /\ IF req[r].flow \in completed \cap OfProvider(req[r].provider)
         THEN Answer(r, "ok", req[r].flow)
         ELSE GoTo(r, "ask", "none")
    /\ UNCHANGED <<pageVars, providerVars, flowVars, tableVars, boundVars>>

\* The rest of the checks fail: no pending flow, or one that has expired.
PollRefused(r) ==
    /\ req[r].step = "ask"
    /\ LET f == req[r].flow
           known == pending \cap OfProvider(req[r].provider)
       IN  /\ f \notin known \/ f \in lapsed
           /\ pending' = IF f \in known THEN pending \ {f} ELSE pending
           /\ lapsed' = IF f \in known THEN lapsed \ {f} ELSE lapsed
    /\ Answer(r, "error", req[r].flow)
    /\ UNCHANGED <<pageVars, providerVars, completed, tableVars, boundVars>>

\* What the provider answers to a device code; it gives tokens once.
ProviderAnswer(c) ==
    CASE c = "open" -> "pending"
      [] c = "granted" -> "tokens"
      [] c = "expired" -> "expired"
      [] OTHER -> "failed"

Redeem(f) == code' = [code EXCEPT ![f] = IF code[f] = "granted" THEN "redeemed" ELSE code[f]]

\* The checks that pass and the provider's work are one step: until another
\* poll is applied nothing that was checked changes, and after it the provider
\* answers as it would have before.
AskProvider(r) ==
    /\ req[r].step = "ask"
    /\ req[r].flow \in (pending \cap OfProvider(req[r].provider)) \ lapsed
    /\ Redeem(req[r].flow)
    /\ GoTo(r, "apply", ProviderAnswer(code[req[r].flow]))
    /\ UNCHANGED <<pageVars, issuer, flowVars, tableVars, boundVars>>

\* The provider is not reached, or its answer is lost: the endpoint raises and
\* the flow stays pending.  An error of its server that comes as JSON, or tokens
\* without a refresh token, take the flow away as well.
AskFails(r) ==
    /\ failures + restarts < MaxFaults
    /\ req[r].step = "ask"
    /\ req[r].flow \in (pending \cap OfProvider(req[r].provider)) \ lapsed
    /\ Redeem(req[r].flow) \/ UNCHANGED code
    /\ pending' \in {pending, pending \ {req[r].flow}}
    /\ Answer(r, "error", req[r].flow)
    /\ failures' = failures + 1
    /\ UNCHANGED <<pageVars, issuer, completed, lapsed, tableVars, restarts>>

\* The entry of a completed flow gets a new expires_at.
ApplyTokens(r) ==
    /\ pending' = pending \ {req[r].flow}
    /\ completed' = completed \cup {req[r].flow}
    /\ lapsed' = lapsed \ {req[r].flow}
    /\ Answer(r, "ok", req[r].flow)

ApplyPending(r) ==
    /\ Answer(r, "pending", req[r].flow)
    /\ UNCHANGED flowVars

\* Mutant: a refused poll removes the flow from both dictionaries.
ApplyErrorToBoth(r) ==
    /\ pending' = pending \ {req[r].flow}
    /\ completed' = completed \ {req[r].flow}
    /\ lapsed' = lapsed \ {req[r].flow}
    /\ Answer(r, "error", req[r].flow)

ApplyError(r) ==
    /\ pending' = pending \ {req[r].flow}
    /\ lapsed' = lapsed \ (pending \cap {req[r].flow})
    /\ Answer(r, "error", req[r].flow)
    /\ UNCHANGED completed

ApplyAnswer(r) ==
    /\ req[r].step = "apply"
    /\ \/ req[r].answer = "tokens" /\ ApplyTokens(r)
       \/ req[r].answer = "pending" /\ ApplyPending(r)
       \/ req[r].answer \in {"expired", "failed"} /\ ApplyError(r)
    /\ UNCHANGED <<pageVars, providerVars, tableVars, boundVars>>

\* take_completed_tokens: purge and get.
GetTokens(r) ==
    /\ req[r].step = "take"
    /\ pending' = Unexpired(pending, req[r].provider)
    /\ completed' = Unexpired(completed, req[r].provider)
    /\ lapsed' = lapsed \ OfProvider(req[r].provider)
    /\ IF req[r].flow \in completed' \cap OfProvider(req[r].provider)
         THEN GoTo(r, "del", "none")
         ELSE Answer(r, "error", req[r].flow)
    /\ UNCHANGED <<pageVars, providerVars, tableVars, boundVars>>

\* Mutant: pop(flow_id, None), which does not raise, instead of del.
PopTokens(r) ==
    /\ req[r].step = "del"
    /\ completed' = completed \ {req[r].flow}
    /\ lapsed' = lapsed \ (completed \cap {req[r].flow})
    /\ GoTo(r, "store", "none")
    /\ UNCHANGED <<pageVars, providerVars, pending, tableVars, boundVars>>

\* del raises KeyError when another thread has deleted the entry since.
DeleteTokens(r) ==
    /\ req[r].step = "del"
    /\ completed' = completed \ {req[r].flow}
    /\ lapsed' = lapsed \ (completed \cap {req[r].flow})
    /\ IF req[r].flow \in completed
         THEN GoTo(r, "store", "none")
         ELSE Answer(r, "error", req[r].flow)
    /\ UNCHANGED <<pageVars, providerVars, pending, tableVars, boundVars>>

\* Mutant: the arguments for auth_type and refresh_token are swapped.
CreateSwapped(r) ==
    /\ req[r].step = "store" /\ req[r].kind = "finalize"
    /\ \E a \in Accounts :
         /\ auth[a] = None
         /\ auth' = [auth EXCEPT ![a] = req[r].flow]
         /\ token' = [token EXCEPT ![a] = req[r].provider]
    /\ Answer(r, "ok", req[r].flow)
    /\ UNCHANGED <<pageVars, providerVars, flowVars, deleted, boundVars>>

_create_oauth_account(r) ==
    /\ req[r].step = "store" /\ req[r].kind = "finalize"
    /\ \E a \in Accounts :
         /\ auth[a] = None
         /\ auth' = [auth EXCEPT ![a] = req[r].provider]
         /\ token' = [token EXCEPT ![a] = req[r].flow]
    /\ Answer(r, "ok", req[r].flow)
    /\ UNCHANGED <<pageVars, providerVars, flowVars, deleted, boundVars>>

\* Mutant: the mailbox is written as it was read before the tokens were taken.
ReconnectUnchecked(r) ==
    /\ req[r].step = "store" /\ req[r].kind = "reconnect"
    /\ token' = [token EXCEPT ![req[r].target] = req[r].flow]
    /\ Answer(r, "ok", req[r].flow)
    /\ UNCHANGED <<pageVars, providerVars, flowVars, auth, deleted, boundVars>>

_reconnect_oauth_account(r) ==
    /\ req[r].step = "store" /\ req[r].kind = "reconnect"
    /\ IF req[r].target \in deleted
         THEN Answer(r, "error", req[r].flow) /\ UNCHANGED token
         ELSE /\ token' = [token EXCEPT ![req[r].target] = req[r].flow]
              /\ Answer(r, "ok", req[r].flow)
    /\ UNCHANGED <<pageVars, providerVars, flowVars, auth, deleted, boundVars>>

SaveOther(r) ==
    /\ req[r].step = "save"
    /\ Answer(r, "ok", None)
    /\ UNCHANGED <<pageVars, providerVars, flowVars, tableVars, boundVars>>

\* The provider refuses to start, or the database fails: the handler raises.
\* Tokens that were taken are lost.
HandlerRaises(r) ==
    /\ failures + restarts < MaxFaults
    /\ req[r].step \in {"start", "store", "save"}
    /\ Answer(r, "error", req[r].flow)
    /\ failures' = failures + 1
    /\ UNCHANGED <<pageVars, providerVars, flowVars, tableVars, restarts>>

\* No flow id or no key of a mailbox is left to give out: the request fails.
BoundReached(r) ==
    /\ \/ req[r].step = "start" /\ \A f \in Flows : code[f] # "none"
       \/ /\ req[r].step = "store" /\ req[r].kind = "finalize"
          /\ \A a \in Accounts : auth[a] # None
    /\ Answer(r, "error", req[r].flow)
    /\ UNCHANGED <<pageVars, providerVars, flowVars, tableVars, boundVars>>

\* DELETE /mail-accounts/{id}, from this page or another client.
delete_account(a) ==
    /\ auth[a] # None /\ a \notin deleted
    /\ deleted' = deleted \cup {a}
    /\ UNCHANGED <<pageVars, req, providerVars, flowVars, auth, token, boundVars>>

\* The backend restarts: the dictionaries are lost and so are its threads;
\* the page gets an error for every request it awaits.
Restart ==
    /\ failures + restarts < MaxFaults
    /\ restarts' = restarts + 1
    /\ pending' = {} /\ completed' = {} /\ lapsed' = {}
    /\ req' = [r \in Reqs |->
                 IF req[r].awaited /\ req[r].step # "answered"
                   THEN [req[r] EXCEPT !.step = "answered", !.answer = "error"]
                   ELSE IF req[r].awaited THEN req[r] ELSE NoRequest]
    /\ UNCHANGED <<pageVars, providerVars, tableVars, failures>>

----------------------------------------------------------------------------
\* The user at the provider's page, and time.

\* Only the polls of a pending flow see what becomes of its code.
UserDecides(f) ==
    /\ f \in pending /\ code[f] = "open"
    /\ \E d \in {"granted", "declined"} : code' = [code EXCEPT ![f] = d]
    /\ UNCHANGED <<pageVars, req, issuer, flowVars, tableVars, boundVars>>

CodeExpires(f) ==
    /\ f \in pending /\ code[f] \in {"open", "granted"}
    /\ code' = [code EXCEPT ![f] = "expired"]
    /\ UNCHANGED <<pageVars, req, issuer, flowVars, tableVars, boundVars>>

\* The entry of f passes its expires_at: that of a pending flow after the
\* provider's own deadline, that of a completed one after 600 seconds.
EntryLapses(f) ==
    /\ f \in pending \cup completed
    /\ f \notin lapsed
    /\ f \in pending => code[f] \notin {"open", "granted"}
    /\ lapsed' = lapsed \cup {f}
    /\ UNCHANGED <<pageVars, req, providerVars, pending, completed, tableVars, boundVars>>

----------------------------------------------------------------------------

UserStep ==
    \/ openAddDialog
    \/ closeDialog
    \/ closeReconnectDialog
    \/ \E a \in Accounts : openReconnectDialog(a) \/ delete_account(a)
    \/ \E p \in Providers \cup {None} : handleProviderChange(p)
    \/ \E r \in Reqs : startOAuthSignIn(r) \/ handleSave(r)

\* A step of the thread that handles request r.
Handle(r) ==
    \/ start_device_flow(r)
    \/ LookUpCompleted(r)
    \/ PollRefused(r)
    \/ AskProvider(r)
    \/ ApplyAnswer(r)
    \/ GetTokens(r)
    \/ DeleteTokens(r)
    \/ _create_oauth_account(r)
    \/ _reconnect_oauth_account(r)
    \/ SaveOther(r)
    \/ BoundReached(r)

Fails(r) == AskFails(r) \/ HandlerRaises(r) \/ ConnectionBreaks(r)

Next ==
    \/ UserStep
    \/ \E r \in Reqs : PollTick(r) \/ Handle(r) \/ AnswerArrives(r) \/ Fails(r)
    \/ \E f \in Flows : UserDecides(f) \/ CodeExpires(f) \/ EntryLapses(f)
    \/ Restart

Spec == Init /\ [][Next]_vars

\* The timer fires, threads run, answers arrive and device codes expire; the
\* user need not do anything.
Fairness ==
    /\ WF_vars(\E r \in Reqs : PollTick(r))
    /\ \A r \in Reqs : WF_vars(Handle(r)) /\ WF_vars(AnswerArrives(r))
    /\ \A f \in Flows : WF_vars(CodeExpires(f))

FairSpec == Spec /\ Fairness

----------------------------------------------------------------------------
\* Properties.

\* Every variable has its type.
TypeOK ==
    /\ dialog \in BOOLEAN
    /\ preset \in Providers \cup {None}
    /\ target \in Accounts \cup {None}
    /\ status \in {"idle", "starting", "waiting", "complete", "error"}
    /\ flow \in Flows \cup {None}
    /\ saving \in BOOLEAN
    /\ req \in [Reqs -> Request]
    /\ code \in [Flows -> {"none", "open", "granted", "declined", "expired", "redeemed"}]
    /\ issuer \in [Flows -> Providers \cup {None}]
    /\ pending \subseteq Flows /\ completed \subseteq Flows /\ lapsed \subseteq Flows
    /\ auth \in [Accounts -> Providers \cup {None}]
    /\ token \in [Accounts -> Flows \cup {None}]
    /\ deleted \subseteq Accounts
    /\ failures \in 0 .. MaxFaults /\ restarts \in 0 .. MaxFaults

\* The tokens of one sign-in end up in at most one mailbox, however the
\* finalize and reconnect requests of a flow overlap or are repeated after a
\* lost answer: take_completed_tokens "consumes" them.
TokenOnce ==
    \A a, b \in Accounts : token[a] = token[b] /\ token[a] # None => a = b

\* A mailbox holds tokens of its own provider: no sequence of dialogs and late
\* answers stores a Google sign-in in a Microsoft mailbox or the reverse, since
\* reconnect does not look at the mailbox's auth_type.
TokenFitsMailbox ==
    \A a \in Accounts : token[a] # None => issuer[token[a]] = auth[a]

\* A completed sign-in is kept until a request takes it, its ten minutes pass
\* or the backend restarts: a poll that overlaps the one that completed it, and
\* that the provider refuses because the code is used up, does not discard it.
CompletedIsKept ==
    [][\A f \in completed \ completed' :
         \/ f \in lapsed
         \/ restarts' # restarts
         \/ \E r \in Reqs : req[r].step = "del" /\ req[r].flow = f]_vars

\* The thread of request q has tokens that are in no dictionary and no mailbox.
HoldsTokens(q) == q.step = "store" \/ (q.step = "apply" /\ q.answer = "tokens")

\* The flows whose tokens the provider has given out, and those whose tokens the
\* backend has, in a dictionary or with a thread.
Redeemed == {f \in Flows : code[f] = "redeemed"}
Held == completed \cup {req[r].flow : r \in {s \in Reqs : HoldsTokens(req[s])}}

\* Where the tokens of the sign-ins are.
Custody == INSTANCE TokenCustody WITH obtained <- Redeemed, held <- Held

\* The backend keeps the promise of TokenCustody: of the overlapping polls and
\* requests of a flow, restarts and lost answers included, at most one stores its
\* tokens, in a mailbox of its provider that is there, and nothing brings them
\* back after they were stored or lost.
ImplementsTokenCustody == Custody!Spec

\* The page does not poll for ever: a sign-in that is polled for completes,
\* fails, expires or is given up.
SignInEnds == Polling ~> ~Polling
============================================================================
