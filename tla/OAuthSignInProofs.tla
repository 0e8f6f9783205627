------------------------- MODULE OAuthSignInProofs -------------------------
(***************************************************************************)
(* Proofs about OAuthSignIn, for any number of providers, flows, mailboxes *)
(* and requests in flight and any number of failures and restarts.         *)
(*                                                                         *)
(* IndInv follows the tokens of a sign-in.  OnePlace: they are in the      *)
(* dictionary, or with the one thread that holds them, or in one mailbox;  *)
(* a thread that has only seen them there ("del") holds nothing yet.       *)
(* TokensIssued: wherever they are, their code has been redeemed, so a     *)
(* later poll cannot bring a second copy.  RequestsOK: what a request      *)
(* carries is still true when its answer is used - the flow is one of its  *)
(* provider, and so is the mailbox it is to reconnect.  The steps that     *)
(* move no tokens are reduced to the lemma Quiet.                          *)
(***************************************************************************)
EXTENDS OAuthSignIn, TLAPS

----------------------------------------------------------------------------
\* What the steps do to a request.

\* Request r becomes q, and the others stay.
Becomes(r, q) == q \in Request /\ req' = [req EXCEPT ![r] = q]

\* q is no request, or req[r] at another step.
Follows(r, q) ==
    \/ q = NoRequest
    \/ q.kind = req[r].kind /\ q.target = req[r].target /\ q.provider = req[r].provider

\* The closed request is well typed.
LEMMA NoRequestType == NoRequest \in Request
BY DEF NoRequest, Request, Steps, Kinds, Answers

\* Changing the step, the answer and the flow of a request leaves a request.
LEMMA AnsweredType ==
    ASSUME NEW q \in Request, NEW s \in Steps, NEW a \in Answers,
           NEW f \in Flows \cup {None}
    PROVE  /\ [q EXCEPT !.step = s, !.answer = a, !.flow = f] \in Request
           /\ [q EXCEPT !.step = s, !.answer = a] \in Request
BY DEF Request

\* A handler that returns leaves an answered request, or none.
LEMMA AnswerShape ==
    ASSUME TypeOK, NEW r \in Reqs, NEW a \in Answers, NEW f \in Flows \cup {None},
           Answer(r, a, f)
    PROVE  \E q : Becomes(r, q) /\ Follows(r, q) /\ q.step \in {"idle", "answered"}
<1>1. CASE req[r].awaited
  <2> DEFINE q == [req[r] EXCEPT !.step = "answered", !.answer = a, !.flow = f]
  <2>a. req[r] \in Request /\ "answered" \in Steps
    BY DEF TypeOK, Steps
  <2>b. q \in Request
    BY <2>a, AnsweredType
  <2>1. q \in Request /\ q.kind = req[r].kind /\ q.target = req[r].target
        /\ q.provider = req[r].provider /\ q.step = "answered"
    BY <2>a, <2>b DEF Request
  <2>2. req' = [req EXCEPT ![r] = q]
    BY <1>1 DEF Answer
  <2> HIDE DEF q
  <2> QED
    BY <2>1, <2>2 DEF Becomes, Follows
<1>2. CASE ~req[r].awaited
  <2>1. req' = [req EXCEPT ![r] = NoRequest] /\ NoRequest.step = "idle"
    BY <1>2 DEF Answer, NoRequest
  <2> QED
    BY <2>1, NoRequestType DEF Becomes, Follows
<1> QED
  BY <1>1, <1>2

\* A handler that goes on changes the step and the answer of its request.
LEMMA GoToShape ==
    ASSUME TypeOK, NEW r \in Reqs, NEW s \in Steps, NEW a \in Answers, GoTo(r, s, a)
    PROVE  \E q : /\ Becomes(r, q) /\ Follows(r, q)
                  /\ q.step = s /\ q.answer = a /\ q.flow = req[r].flow
                  /\ q.provider = req[r].provider
<1> DEFINE q == [req[r] EXCEPT !.step = s, !.answer = a]
<1>1. q \in Request /\ q.kind = req[r].kind /\ q.target = req[r].target
      /\ q.provider = req[r].provider /\ q.step = s /\ q.answer = a /\ q.flow = req[r].flow
  BY DEF TypeOK, Request
<1>2. req' = [req EXCEPT ![r] = q]
  BY DEF GoTo
<1> HIDE DEF q
<1> QED
  BY <1>1, <1>2 DEF Becomes, Follows

\* A request that is sent carries what the page put in it.
LEMMA SendShape ==
    ASSUME TypeOK, NEW r \in Reqs, NEW s \in Steps, NEW k \in Kinds,
           NEW f \in Flows \cup {None}, NEW p \in Providers \cup {None},
           NEW a \in Accounts \cup {None}, Send(r, s, k, f, p, a)
    PROVE  \E q : Becomes(r, q) /\ q.step = s /\ q.kind = k /\ q.provider = p
                  /\ q.target = a /\ q.answer = "none"
<1> DEFINE q == [step |-> s, kind |-> k, flow |-> f, provider |-> p,
                 target |-> a, answer |-> "none", awaited |-> TRUE]
<1>1. q \in Request /\ q.step = s /\ q.kind = k /\ q.provider = p
      /\ q.target = a /\ q.answer = "none"
  BY DEF Request, Answers
<1>2. req' = [req EXCEPT ![r] = q]
  BY DEF Send
<1> HIDE DEF q
<1> QED
  BY <1>1, <1>2 DEF Becomes

----------------------------------------------------------------------------
\* Type correctness.

\* A request that becomes another one leaves req well typed.
LEMMA BecomesTypes ==
    ASSUME TypeOK, NEW r \in Reqs, NEW q, Becomes(r, q)
    PROVE  /\ req' \in [Reqs -> Request]
           /\ req'[r] = q
           /\ \A s \in Reqs \ {r} : req'[s] = req[s]
BY DEF TypeOK, Becomes

\* The provider of the visible panel is a provider.
LEMMA ActiveType ==
    ASSUME TypeOK
    PROVE  activeOAuthProvider \in Providers \cup {None}
BY DEF TypeOK, activeOAuthProvider

\* Each answer leaves the page well typed.
LEMMA PageTypes ==
    ASSUME TypeOK, NEW r \in Reqs, NEW ok \in BOOLEAN, PageContinues(r, ok)
    PROVE  /\ dialog' \in BOOLEAN /\ saving' \in BOOLEAN
           /\ preset' = preset
           /\ target' \in {target, None}
           /\ status' \in {"idle", "starting", "waiting", "complete", "error"}
           /\ flow' \in Flows \cup {None}
<1>1. req[r].flow \in Flows \cup {None}
  BY DEF TypeOK, Request
<1> QED
  BY <1>1 DEF TypeOK, PageContinues, StartAnswered, PollAnswered, ReconnectAnswered,
              SaveAnswered, resetOAuthSignIn

\* What the page does of its own accord keeps every type.
LEMMA UserTypes ==
    ASSUME TypeOK, UserStep \/ \E r \in Reqs : PollTick(r)
    PROVE  TypeOK'
<1> USE DEF resetOAuthSignIn, pageVars, providerVars, flowVars, tableVars, boundVars
<1>1. CASE openAddDialog
  BY <1>1 DEF TypeOK, openAddDialog
<1>2. CASE closeDialog
  BY <1>2 DEF TypeOK, closeDialog
<1>3. CASE closeReconnectDialog
  BY <1>3 DEF TypeOK, closeReconnectDialog
<1>4. CASE \E a \in Accounts : openReconnectDialog(a)
  BY <1>4 DEF TypeOK, openReconnectDialog
<1>5. CASE \E a \in Accounts : delete_account(a)
  BY <1>5 DEF TypeOK, delete_account
<1>6. CASE \E p \in Providers \cup {None} : handleProviderChange(p)
  BY <1>6 DEF TypeOK, handleProviderChange
<1>7. ASSUME NEW r \in Reqs, startOAuthSignIn(r)
      PROVE  TypeOK'
  <2>1. Send(r, "start", "start", None, activeOAuthProvider, None)
    BY <1>7 DEF startOAuthSignIn
  <2>2. req' \in [Reqs -> Request]
    <3>1. "start" \in Steps /\ "start" \in Kinds
      BY DEF Steps, Kinds
    <3>2. \E q : Becomes(r, q)
      BY <2>1, <3>1, ActiveType, SendShape
    <3> QED
      BY <3>2, BecomesTypes
  <2> QED
    BY <1>7, <2>2 DEF TypeOK, startOAuthSignIn
<1>8. ASSUME NEW r \in Reqs, handleSave(r)
      PROVE  TypeOK'
  <2>1. \/ Send(r, "take", "finalize", flow, preset, None)
        \/ Send(r, "save", "save", None, None, None)
    BY <1>8 DEF handleSave
  <2>2. req' \in [Reqs -> Request]
    <3>1. {"take", "save"} \subseteq Steps /\ {"finalize", "save"} \subseteq Kinds
      BY DEF Steps, Kinds
    <3>2. flow \in Flows \cup {None} /\ preset \in Providers \cup {None}
      BY DEF TypeOK
    <3>3. \E q : Becomes(r, q)
      BY <2>1, <3>1, <3>2, SendShape
    <3> QED
      BY <3>3, BecomesTypes
  <2> QED
    BY <1>8, <2>2 DEF TypeOK, handleSave
<1>9. ASSUME NEW r \in Reqs, PollTick(r)
      PROVE  TypeOK'
  <2>1. Send(r, "lookup", "poll", flow, activeOAuthProvider, target)
    BY <1>9 DEF PollTick
  <2>2. req' \in [Reqs -> Request]
    <3>1. "lookup" \in Steps /\ "poll" \in Kinds
      BY DEF Steps, Kinds
    <3>2. flow \in Flows \cup {None} /\ target \in Accounts \cup {None}
      BY DEF TypeOK
    <3>3. \E q : Becomes(r, q)
      BY <2>1, <3>1, <3>2, ActiveType, SendShape
    <3> QED
      BY <3>3, BecomesTypes
  <2> QED
    BY <1>9, <2>2 DEF TypeOK, PollTick
<1> QED
  BY <1>1, <1>2, <1>3, <1>4, <1>5, <1>6, <1>7, <1>8, <1>9 DEF UserStep

\* The steps of a handler, the failures of requests included, keep every type.
LEMMA HandlerTypes ==
    ASSUME TypeOK, NEW r \in Reqs, Handle(r) \/ AskFails(r) \/ HandlerRaises(r),
           req[r].step = "apply" => req[r].flow \in Flows
    PROVE  TypeOK'
<1> USE DEF pageVars, providerVars, flowVars, tableVars, boundVars
<1>1. /\ req[r].flow \in Flows \cup {None} /\ req[r].provider \in Providers \cup {None}
      /\ req[r].target \in Accounts \cup {None}
  BY DEF TypeOK, Request
<1>2. {"ok", "error", "pending", "none"} \subseteq Answers
  BY DEF Answers
<1>3. ASSUME NEW a \in {"ok", "error", "pending"}, NEW f \in Flows \cup {None},
             Answer(r, a, f)
      PROVE  req' \in [Reqs -> Request]
  <2>1. \E p : Becomes(r, p)
    BY <1>2, <1>3, AnswerShape
  <2> QED
    BY <2>1, BecomesTypes
<1>4. ASSUME NEW s \in Steps, NEW a \in Answers, GoTo(r, s, a)
      PROVE  req' \in [Reqs -> Request]
  <2>1. \E p : Becomes(r, p)
    BY <1>4, GoToShape
  <2> QED
    BY <2>1, BecomesTypes
<1>5. {"ask", "apply", "del", "store"} \subseteq Steps
  BY DEF Steps
<1>6. \A p : OfProvider(p) \subseteq Flows
  BY DEF OfProvider
<1>a. CASE start_device_flow(r)
  <2>1. PICK f \in Flows : /\ code' = [code EXCEPT ![f] = "open"]
                           /\ issuer' = [issuer EXCEPT ![f] = req[r].provider]
                           /\ pending' = Unexpired(pending, req[r].provider) \cup {f}
                           /\ Answer(r, "ok", f)
    BY <1>a DEF start_device_flow
  <2>2. req' \in [Reqs -> Request]
    BY <2>1, <1>3
  <2> QED
    BY <1>a, <1>1, <2>1, <2>2 DEF TypeOK, start_device_flow, Unexpired
<1>b. CASE LookUpCompleted(r)
  <2>1. req' \in [Reqs -> Request]
    BY <1>b, <1>1, <1>2, <1>3, <1>4, <1>5 DEF LookUpCompleted
  <2> QED
    BY <1>b, <2>1 DEF TypeOK, LookUpCompleted
<1>c. CASE PollRefused(r)
  <2>1. req' \in [Reqs -> Request]
    BY <1>c, <1>1, <1>3 DEF PollRefused
  <2> QED
    BY <1>c, <2>1 DEF TypeOK, PollRefused
<1>d. CASE AskProvider(r)
  <2>1. ProviderAnswer(code[req[r].flow]) \in Answers
    BY DEF ProviderAnswer, Answers
  <2>2. req' \in [Reqs -> Request]
    BY <1>d, <2>1, <1>4, <1>5 DEF AskProvider
  <2> QED
    BY <1>d, <2>2 DEF TypeOK, AskProvider, Redeem
<1>e. CASE AskFails(r)
  <2>1. req' \in [Reqs -> Request]
    BY <1>e, <1>1, <1>3 DEF AskFails
  <2> QED
    BY <1>e, <2>1, BoundsAssumption DEF TypeOK, AskFails, Redeem
<1>f. CASE ApplyAnswer(r)
  <2>1. req' \in [Reqs -> Request]
    BY <1>f, <1>1, <1>3 DEF ApplyAnswer, ApplyTokens, ApplyPending, ApplyError
  <2>2. req[r].flow \in Flows
    BY <1>f DEF ApplyAnswer
  <2> QED
    BY <1>f, <2>1, <2>2 DEF TypeOK, ApplyAnswer, ApplyTokens, ApplyPending, ApplyError
<1>g. CASE GetTokens(r)
  <2>1. req' \in [Reqs -> Request]
    BY <1>g, <1>1, <1>2, <1>3, <1>4, <1>5 DEF GetTokens
  <2> QED
    BY <1>g, <2>1 DEF TypeOK, GetTokens, Unexpired
<1>h. CASE DeleteTokens(r)
  <2>1. req' \in [Reqs -> Request]
    BY <1>h, <1>1, <1>2, <1>3, <1>4, <1>5 DEF DeleteTokens
  <2> QED
    BY <1>h, <2>1 DEF TypeOK, DeleteTokens
<1>i. CASE _create_oauth_account(r)
  <2>1. req' \in [Reqs -> Request]
    BY <1>i, <1>1, <1>3 DEF _create_oauth_account
  <2> QED
    BY <1>i, <1>1, <2>1 DEF TypeOK, _create_oauth_account
<1>j. CASE _reconnect_oauth_account(r)
  <2>1. req' \in [Reqs -> Request]
    BY <1>j, <1>1, <1>3 DEF _reconnect_oauth_account
  <2> QED
    BY <1>j, <1>1, <2>1 DEF TypeOK, _reconnect_oauth_account
<1>k. CASE SaveOther(r) \/ BoundReached(r) \/ HandlerRaises(r)
  <2>1. req' \in [Reqs -> Request]
    BY <1>k, <1>1, <1>3 DEF SaveOther, BoundReached, HandlerRaises
  <2> QED
    BY <1>k, <2>1, BoundsAssumption DEF TypeOK, SaveOther, BoundReached, HandlerRaises
<1> QED
  BY <1>a, <1>b, <1>c, <1>d, <1>e, <1>f, <1>g, <1>h, <1>i, <1>j, <1>k DEF Handle

\* The poll of a reconnect goes on as a request to store the tokens.
LEMMA TakeType ==
    ASSUME NEW q \in Request
    PROVE  [q EXCEPT !.step = "take", !.kind = "reconnect", !.answer = "none"] \in Request
<1>1. "take" \in Steps /\ "reconnect" \in Kinds /\ "none" \in Answers
  BY DEF Steps, Kinds, Answers
<1> QED
  BY <1>1 DEF Request

\* Answers that reach the page, broken connections, restarts and what happens
\* outside keep every type.
LEMMA OtherTypes ==
    ASSUME TypeOK,
           \/ \E r \in Reqs : AnswerArrives(r) \/ ConnectionBreaks(r)
           \/ \E f \in Flows : UserDecides(f) \/ CodeExpires(f) \/ EntryLapses(f)
           \/ Restart
    PROVE  TypeOK'
<1> USE DEF pageVars, providerVars, flowVars, tableVars, boundVars
<1>1. ASSUME NEW r \in Reqs, AnswerArrives(r)
      PROVE  TypeOK'
  <2>0. req[r] \in Request
    BY DEF TypeOK
  <2>1. [req[r] EXCEPT !.step = "take", !.kind = "reconnect", !.answer = "none"] \in Request
    BY <2>0, TakeType
  <2>2. req' \in [Reqs -> Request]
    BY <1>1, <2>1, NoRequestType DEF AnswerArrives, TypeOK
  <2>3. UNCHANGED pageVars \/ PageContinues(r, req[r].answer = "ok")
    BY <1>1 DEF AnswerArrives
  <2> QED
    BY <1>1, <2>2, <2>3, PageTypes DEF AnswerArrives, TypeOK
<1>2. ASSUME NEW r \in Reqs, ConnectionBreaks(r)
      PROVE  TypeOK'
  <2>0. req[r] \in Request
    BY DEF TypeOK
  <2>1. [req[r] EXCEPT !.awaited = FALSE] \in Request
    BY ONLY <2>0 DEF Request
  <2>2. req' \in [Reqs -> Request]
    BY <1>2, <2>1, NoRequestType DEF ConnectionBreaks, TypeOK
  <2>3. PageContinues(r, FALSE)
    BY <1>2 DEF ConnectionBreaks
  <2> QED
    <3>1. failures' \in 0 .. MaxFaults
      BY <1>2, BoundsAssumption DEF ConnectionBreaks, TypeOK
    <3>2. UNCHANGED <<code, issuer, pending, completed, lapsed, auth, token, deleted, restarts>>
      BY <1>2 DEF ConnectionBreaks
    <3>3. FALSE \in BOOLEAN
      OBVIOUS
    <3> QED
      BY <2>2, <2>3, <3>1, <3>2, <3>3, PageTypes DEF TypeOK
<1>3. CASE \E f \in Flows : UserDecides(f) \/ CodeExpires(f) \/ EntryLapses(f)
  BY <1>3 DEF TypeOK, UserDecides, CodeExpires, EntryLapses
<1>4. CASE Restart
  <2>1. ASSUME NEW r \in Reqs
        PROVE  [req[r] EXCEPT !.step = "answered", !.answer = "error"] \in Request
    <3>1. req[r] \in Request /\ "answered" \in Steps /\ "error" \in Answers
      BY DEF TypeOK, Steps, Answers
    <3> QED
      BY <3>1, AnsweredType
  <2>2. req' \in [Reqs -> Request]
    <3> DEFINE died(r) == [req[r] EXCEPT !.step = "answered", !.answer = "error"]
    <3>1. \A r \in Reqs : req[r] \in Request /\ died(r) \in Request
      BY <2>1 DEF TypeOK
    <3>2. req' = [r \in Reqs |->
                    IF req[r].awaited /\ req[r].step # "answered" THEN died(r)
                      ELSE IF req[r].awaited THEN req[r] ELSE NoRequest]
      BY <1>4 DEF Restart
    <3> HIDE DEF died
    <3> QED
      BY <3>1, <3>2, NoRequestType
  <2>3. restarts' \in 0 .. MaxFaults
    <3>1. failures + restarts < MaxFaults /\ restarts' = restarts + 1
      BY <1>4 DEF Restart
    <3> QED
      BY <3>1, BoundsAssumption DEF TypeOK
  <2>4. /\ UNCHANGED <<dialog, preset, target, status, flow, saving, code, issuer, auth,
                        token, deleted, failures>>
        /\ pending' = {} /\ completed' = {} /\ lapsed' = {}
    BY <1>4 DEF Restart
  <2> QED
    BY <2>2, <2>3, <2>4 DEF TypeOK
<1> QED
  BY <1>1, <1>2, <1>3, <1>4

----------------------------------------------------------------------------
\* The inductive invariant.

\* What a request knows, in terms of code, issuer and auth: its flow was issued
\* by its provider, its tokens were given out, and the mailbox it is to
\* reconnect is one of its provider.
RequestOK(q, co, is, au) ==
    /\ q.step \in {"apply", "del", "store"} =>
         q.flow \in Flows /\ is[q.flow] = q.provider /\ co[q.flow] # "none"
    /\ HoldsTokens(q) => co[q.flow] = "redeemed"
    /\ q.kind # "save" => q.provider # None
    /\ q.kind = "reconnect" \/ (q.kind = "poll" /\ q.target # None) =>
         q.target \in Accounts /\ au[q.target] = q.provider

RequestsOK == \A r \in Reqs : RequestOK(req[r], code, issuer, auth)

\* A pending flow was issued; tokens in a dictionary or in a mailbox were given
\* out by the provider, and those in a mailbox by the mailbox's own.
TokensIssued ==
    /\ \A f \in pending : code[f] # "none"
    /\ \A f \in completed : code[f] = "redeemed"
    /\ \A a \in Accounts : token[a] # None =>
         code[token[a]] = "redeemed" /\ issuer[token[a]] = auth[a] /\ auth[a] # None

\* The tokens of a flow are in one place.
OnePlace ==
    /\ \A r \in Reqs : HoldsTokens(req[r]) =>
         /\ req[r].flow \notin completed
         /\ \A a \in Accounts : token[a] # req[r].flow
         /\ \A s \in Reqs : HoldsTokens(req[s]) /\ req[s].flow = req[r].flow => s = r
    /\ \A a \in Accounts : token[a] \notin completed
    /\ TokenOnce

IndInv == TypeOK /\ RequestsOK /\ TokensIssued /\ OnePlace

\* What is never undone: a code is issued once and redeemed once, and a mailbox
\* keeps its provider.
Grows ==
    /\ \A f \in Flows : /\ code[f] # "none" => code'[f] # "none" /\ issuer'[f] = issuer[f]
                        /\ code[f] = "redeemed" => code'[f] = "redeemed"
    /\ \A a \in Accounts : auth[a] # None => auth'[a] = auth[a]

\* No step takes back what a provider has issued or changes a mailbox's provider.
LEMMA NextGrows ==
    ASSUME TypeOK, Next
    PROVE  Grows
<1> USE DEF Grows, providerVars, tableVars
<1>1. CASE \E r \in Reqs : start_device_flow(r)
  BY <1>1 DEF TypeOK, start_device_flow
<1>2. CASE \E r \in Reqs : AskProvider(r) \/ AskFails(r)
  BY <1>2 DEF TypeOK, AskProvider, AskFails, Redeem
<1>3. CASE \E r \in Reqs : _create_oauth_account(r)
  BY <1>3 DEF TypeOK, _create_oauth_account
<1>4. CASE \E f \in Flows : UserDecides(f) \/ CodeExpires(f)
  BY <1>4 DEF TypeOK, UserDecides, CodeExpires
<1>5. CASE UNCHANGED <<code, issuer, auth>>
  BY <1>5
<1>6. CASE UserStep
  BY <1>6, <1>5 DEF UserStep, openAddDialog, closeDialog, closeReconnectDialog,
     openReconnectDialog, delete_account, handleProviderChange, startOAuthSignIn, handleSave
<1>7. CASE \E r \in Reqs : PollTick(r) \/ AnswerArrives(r) \/ Fails(r)
  BY <1>7, <1>5, <1>2 DEF PollTick, AnswerArrives, Fails, HandlerRaises, ConnectionBreaks
<1>8. ASSUME NEW r \in Reqs, Handle(r)
      PROVE  Grows
  BY <1>8, <1>1, <1>2, <1>3, <1>5 DEF Handle, LookUpCompleted, PollRefused, ApplyAnswer,
     GetTokens, DeleteTokens, _reconnect_oauth_account, SaveOther, BoundReached
<1>9. CASE Restart \/ \E f \in Flows : EntryLapses(f)
  BY <1>9, <1>5 DEF Restart, EntryLapses
<1> QED
  BY <1>4, <1>6, <1>7, <1>8, <1>9 DEF Next

\* A request stays as it should be while it is not touched.
LEMMA RequestStable ==
    ASSUME TypeOK, TypeOK', Grows, NEW q \in Request, RequestOK(q, code, issuer, auth)
    PROVE  RequestOK(q, code', issuer', auth')
BY NoneAssumption DEF TypeOK, Grows, RequestOK, HoldsTokens

\* A step that moves no tokens, except to forget them, keeps the invariant.
LEMMA Quiet ==
    ASSUME IndInv, TypeOK', Grows,
           \A s \in Reqs : \/ req'[s] = req[s]
                           \/ /\ RequestOK(req'[s], code', issuer', auth')
                              /\ ~HoldsTokens(req'[s]),
           completed' \subseteq completed, token' = token,
           \A f \in pending' : code'[f] # "none"
    PROVE  IndInv'
<1>1. RequestsOK'
  <2> SUFFICES ASSUME NEW s \in Reqs
               PROVE  RequestOK(req'[s], code', issuer', auth')
    BY DEF RequestsOK
  <2>1. req[s] \in Request
    BY DEF IndInv, TypeOK
  <2> QED
    BY <2>1, RequestStable DEF IndInv, RequestsOK
<1>2. TokensIssued'
  <2>1. \A f \in completed' : code'[f] = "redeemed"
    BY DEF IndInv, TypeOK, TokensIssued, Grows
  <2>2. ASSUME NEW a \in Accounts, token[a] # None
        PROVE  /\ code'[token[a]] = "redeemed"
               /\ issuer'[token[a]] = auth'[a] /\ auth'[a] # None
    <3>1. /\ token[a] \in Flows /\ code[token[a]] = "redeemed"
          /\ issuer[token[a]] = auth[a] /\ auth[a] # None
      BY <2>2 DEF IndInv, TypeOK, TokensIssued
    <3> QED
      BY <3>1 DEF Grows
  <2> QED
    BY <2>1, <2>2 DEF TokensIssued
<1>3. OnePlace'
  BY DEF IndInv, OnePlace, TokenOnce
<1> QED
  BY <1>1, <1>2, <1>3 DEF IndInv

\* A request that is over, or answered, holds nothing.
LEMMA Finished ==
    ASSUME IndInv, TypeOK', Grows, NEW r \in Reqs, NEW q \in Request, Follows(r, q),
           q.step \in {"idle", "answered", "ask"}
    PROVE  RequestOK(q, code', issuer', auth') /\ ~HoldsTokens(q)
<1>1. req[r] \in Request /\ RequestOK(req[r], code, issuer, auth)
  BY DEF IndInv, TypeOK, RequestsOK
<1>2. RequestOK(req[r], code', issuer', auth')
  BY <1>1, RequestStable DEF IndInv
<1> QED
  BY <1>2 DEF Follows, NoRequest, RequestOK, HoldsTokens

\* A handler that answers and moves no tokens keeps the invariant.
LEMMA QuietAnswer ==
    ASSUME IndInv, TypeOK', Grows, NEW r \in Reqs, NEW a \in Answers,
           NEW f \in Flows \cup {None}, Answer(r, a, f),
           completed' \subseteq completed, token' = token,
           \A g \in pending' : code'[g] # "none"
    PROVE  IndInv'
<1>1. TypeOK
  BY DEF IndInv
<1>2. PICK q : Becomes(r, q) /\ Follows(r, q) /\ q.step \in {"idle", "answered"}
  BY <1>1, AnswerShape
<1>3. RequestOK(q, code', issuer', auth') /\ ~HoldsTokens(q)
  BY <1>2, Finished DEF Becomes
<1>4. req'[r] = q /\ \A s \in Reqs \ {r} : req'[s] = req[s]
  BY <1>1, <1>2, BecomesTypes
<1> QED
  BY <1>3, <1>4, Quiet

\* Sending a request keeps the invariant.
LEMMA QuietSend ==
    ASSUME IndInv, TypeOK', Grows, NEW r \in Reqs, NEW s \in {"start", "lookup", "take", "save"},
           NEW k \in Kinds \ {"reconnect"}, NEW f \in Flows \cup {None},
           NEW p \in Providers \cup {None}, NEW a \in Accounts \cup {None},
           Send(r, s, k, f, p, a), k # "save" => p # None,
           a # None => auth[a] = p /\ k = "poll",
           UNCHANGED <<completed, token, pending>>
    PROVE  IndInv'
<1>1. TypeOK
  BY DEF IndInv
<1>2. s \in Steps
  BY DEF Steps
<1>3. PICK q : Becomes(r, q) /\ q.step = s /\ q.kind = k /\ q.provider = p
               /\ q.target = a /\ q.answer = "none"
  BY <1>1, <1>2, SendShape
<1>4. RequestOK(q, code', issuer', auth') /\ ~HoldsTokens(q)
  BY <1>3 DEF RequestOK, HoldsTokens, Grows
<1>5. req'[r] = q /\ \A t \in Reqs \ {r} : req'[t] = req[t]
  BY <1>1, <1>3, BecomesTypes
<1>6. \A g \in pending' : code'[g] # "none"
  BY <1>1 DEF IndInv, TokensIssued, Grows, TypeOK
<1> QED
  BY <1>4, <1>5, <1>6, Quiet

\* What the page does of its own accord keeps the invariant.
LEMMA UserInv ==
    ASSUME IndInv, Grows, UserStep \/ \E r \in Reqs : PollTick(r)
    PROVE  IndInv'
<1>1. TypeOK /\ TypeOK'
  BY UserTypes DEF IndInv
<1>2. \A g \in pending : code'[g] # "none"
  BY <1>1 DEF IndInv, TokensIssued, Grows, TypeOK
<1>3. CASE UNCHANGED <<req, pending, completed, token>>
  BY <1>1, <1>2, <1>3, Quiet
<1>4. ASSUME NEW r \in Reqs, startOAuthSignIn(r)
      PROVE  IndInv'
  <2>1. /\ Send(r, "start", "start", None, activeOAuthProvider, None)
        /\ activeOAuthProvider # None
        /\ UNCHANGED <<completed, token, pending>>
    BY <1>4 DEF startOAuthSignIn, flowVars, tableVars
  <2>2. "start" \in Kinds
    BY DEF Kinds
  <2> QED
    BY <1>1, <2>1, <2>2, ActiveType, QuietSend
<1>5. ASSUME NEW r \in Reqs, handleSave(r)
      PROVE  IndInv'
  <2>1. /\ \/ preset # None /\ Send(r, "take", "finalize", flow, preset, None)
           \/ Send(r, "save", "save", None, None, None)
        /\ UNCHANGED <<completed, token, pending>>
    BY <1>5 DEF handleSave, flowVars, tableVars
  <2>2. {"finalize", "save"} \subseteq Kinds
    BY DEF Kinds
  <2>3. flow \in Flows \cup {None} /\ preset \in Providers \cup {None}
    BY <1>1 DEF TypeOK
  <2> QED
    BY <1>1, <2>1, <2>2, <2>3, QuietSend
<1>6. ASSUME NEW r \in Reqs, PollTick(r)
      PROVE  IndInv'
  <2>1. /\ Send(r, "lookup", "poll", flow, activeOAuthProvider, target)
        /\ activeOAuthProvider # None
        /\ UNCHANGED <<completed, token, pending>>
    BY <1>6 DEF PollTick, Polling, flowVars, tableVars
  <2>2. "poll" \in Kinds
    BY DEF Kinds
  <2>3. flow \in Flows \cup {None} /\ target \in Accounts \cup {None}
    BY <1>1 DEF TypeOK
  <2>4. target # None => auth[target] = activeOAuthProvider
    BY DEF activeOAuthProvider
  <2> QED
    BY <1>1, <2>1, <2>2, <2>3, <2>4, ActiveType, QuietSend
<1> QED
  BY <1>3, <1>4, <1>5, <1>6 DEF UserStep, openAddDialog, closeDialog, closeReconnectDialog,
     openReconnectDialog, delete_account, handleProviderChange, flowVars, tableVars

\* A poll that asks the provider keeps the invariant: tokens are given out for a
\* code that was not redeemed, so they are nowhere else.
LEMMA AskInv ==
    ASSUME IndInv, Grows, NEW r \in Reqs, AskProvider(r)
    PROVE  IndInv'
<1>1. TypeOK /\ req[r] \in Request /\ RequestOK(req[r], code, issuer, auth)
  BY DEF IndInv, TypeOK, RequestsOK
<1>2. TypeOK'
  <2>1. Handle(r) /\ req[r].step # "apply"
    BY DEF Handle, AskProvider
  <2> QED
    BY <1>1, <2>1, HandlerTypes
<1> DEFINE f == req[r].flow
<1>3. /\ f \in Flows /\ f \in pending /\ issuer[f] = req[r].provider
      /\ req[r].step = "ask"
      /\ GoTo(r, "apply", ProviderAnswer(code[f]))
      /\ code' = [code EXCEPT ![f] = IF code[f] = "granted" THEN "redeemed" ELSE code[f]]
      /\ UNCHANGED <<issuer, pending, completed, token, auth>>
  BY <1>1 DEF AskProvider, Redeem, OfProvider, TypeOK, flowVars, tableVars
<1>4. ProviderAnswer(code[f]) \in Answers /\ "apply" \in Steps
      /\ (ProviderAnswer(code[f]) = "tokens" => code[f] = "granted")
  BY DEF ProviderAnswer, Answers, Steps
<1>5. PICK q : /\ Becomes(r, q) /\ Follows(r, q)
               /\ q.step = "apply" /\ q.answer = ProviderAnswer(code[f]) /\ q.flow = f
               /\ q.provider = req[r].provider
  BY <1>1, <1>3, <1>4, GoToShape
<1> HIDE DEF f
<1>6. req'[r] = q /\ q \in Request /\ \A s \in Reqs \ {r} : req'[s] = req[s]
  BY <1>1, <1>5, BecomesTypes DEF Becomes
<1>7. HoldsTokens(q) => code[f] = "granted" /\ code'[f] = "redeemed"
  BY <1>1, <1>3, <1>4, <1>5 DEF HoldsTokens, TypeOK
<1>8. code[f] # "none" /\ code'[f] # "none"
  BY <1>3 DEF IndInv, TokensIssued, Grows
<1>9. RequestOK(req[r], code', issuer', auth')
  BY <1>1, <1>2, RequestStable
<1>10. RequestOK(q, code', issuer', auth')
  BY <1>3, <1>5, <1>7, <1>8, <1>9, NoneAssumption DEF RequestOK, Follows, NoRequest
<1>11. RequestsOK'
  <2> SUFFICES ASSUME NEW s \in Reqs
               PROVE  RequestOK(req'[s], code', issuer', auth')
    BY DEF RequestsOK
  <2>1. req[s] \in Request /\ RequestOK(req[s], code, issuer, auth)
    BY DEF IndInv, TypeOK, RequestsOK
  <2> QED
    BY <1>1, <1>2, <1>6, <1>10, <2>1, RequestStable
<1>12. TokensIssued'
  BY <1>1, <1>3 DEF IndInv, TokensIssued, TypeOK, Grows
<1>13. CASE ~HoldsTokens(q)
  BY <1>2, <1>3, <1>6, <1>10, <1>12, <1>13, Quiet DEF TokensIssued
<1>14. CASE HoldsTokens(q)
  <2>1. f \notin completed /\ \A a \in Accounts : token[a] # f
    BY <1>3, <1>7, <1>14, NoneAssumption DEF IndInv, TokensIssued
  <2>2. \A s \in Reqs : HoldsTokens(req[s]) => req[s].flow # f
    BY <1>7, <1>14 DEF IndInv, RequestsOK, RequestOK
  <2>3. OnePlace'
    BY <1>3, <1>5, <1>6, <2>1, <2>2 DEF IndInv, OnePlace, TokenOnce
  <2> QED
    BY <1>2, <1>11, <1>12, <2>3 DEF IndInv
<1> QED
  BY <1>13, <1>14

\* A thread that hands its tokens over, to the dictionary or to a mailbox, and
\* answers.
LEMMA HandOver ==
    ASSUME IndInv, TypeOK', Grows, NEW r \in Reqs, NEW a \in Answers,
           NEW f \in Flows \cup {None}, Answer(r, a, f)
    PROVE  /\ RequestsOK'
           /\ ~HoldsTokens(req'[r])
           /\ \A s \in Reqs \ {r} : req'[s] = req[s]
<1>1. TypeOK
  BY DEF IndInv
<1>2. PICK q : Becomes(r, q) /\ Follows(r, q) /\ q.step \in {"idle", "answered"}
  BY <1>1, AnswerShape
<1>3. RequestOK(q, code', issuer', auth') /\ ~HoldsTokens(q)
  BY <1>2, Finished DEF Becomes
<1>4. req'[r] = q /\ \A s \in Reqs \ {r} : req'[s] = req[s]
  BY <1>1, <1>2, BecomesTypes
<1>5. ASSUME NEW s \in Reqs
      PROVE  RequestOK(req'[s], code', issuer', auth')
  <2>1. req[s] \in Request /\ RequestOK(req[s], code, issuer, auth)
    BY DEF IndInv, TypeOK, RequestsOK
  <2> QED
    BY <1>1, <1>3, <1>4, <2>1, RequestStable
<1> QED
  BY <1>3, <1>4, <1>5 DEF RequestsOK

\* A poll that records its answer keeps the invariant.
LEMMA ApplyInv ==
    ASSUME IndInv, Grows, NEW r \in Reqs, ApplyAnswer(r)
    PROVE  IndInv'
<1> DEFINE f == req[r].flow
<1>1. TypeOK /\ req[r] \in Request /\ RequestOK(req[r], code, issuer, auth)
  BY DEF IndInv, TypeOK, RequestsOK
<1>2. req[r].step = "apply" /\ f \in Flows
  BY <1>1 DEF ApplyAnswer, RequestOK
<1>3. TypeOK'
  BY <1>1, <1>2, HandlerTypes DEF Handle
<1>4. {"ok", "pending", "error"} \subseteq Answers
  BY DEF Answers
<1>5. UNCHANGED <<code, issuer, auth, token>>
  BY DEF ApplyAnswer, providerVars, tableVars
<1>6. CASE ApplyPending(r) \/ ApplyError(r)
  <2>1. completed' = completed /\ pending' \subseteq pending
    BY <1>6 DEF ApplyPending, ApplyError, flowVars
  <2>2. \A g \in pending' : code'[g] # "none"
    BY <1>5, <2>1 DEF IndInv, TokensIssued
  <2>3. Answer(r, "pending", f) \/ Answer(r, "error", f)
    BY <1>6 DEF ApplyPending, ApplyError
  <2> QED
    BY <1>2, <1>3, <1>4, <1>5, <2>1, <2>2, <2>3, QuietAnswer
<1>7. CASE req[r].answer = "tokens" /\ ApplyTokens(r)
  <2>1. Answer(r, "ok", f) /\ pending' = pending \ {f} /\ completed' = completed \cup {f}
    BY <1>7 DEF ApplyTokens
  <2>2. /\ RequestsOK' /\ ~HoldsTokens(req'[r])
        /\ \A s \in Reqs \ {r} : req'[s] = req[s]
    BY <1>2, <1>3, <1>4, <2>1, HandOver
  <2>3. HoldsTokens(req[r])
    BY <1>2, <1>7 DEF HoldsTokens
  <2>4. code[f] = "redeemed"
    BY <1>1, <2>3 DEF RequestOK
  <2> HIDE DEF f
  <2>5. TokensIssued'
    BY <1>5, <2>1, <2>4 DEF IndInv, TokensIssued
  <2>6. OnePlace'
    BY <1>5, <2>1, <2>2, <2>3 DEF IndInv, OnePlace, TokenOnce, f
  <2> QED
    BY <1>3, <2>2, <2>5, <2>6 DEF IndInv
<1> QED
  BY <1>6, <1>7 DEF ApplyAnswer

\* Taking tokens out of the dictionary keeps the invariant: of several threads
\* that have seen an entry, the one that deletes it goes on.
LEMMA DeleteInv ==
    ASSUME IndInv, Grows, NEW r \in Reqs, DeleteTokens(r)
    PROVE  IndInv'
<1> DEFINE f == req[r].flow
<1>1. TypeOK /\ req[r] \in Request /\ RequestOK(req[r], code, issuer, auth)
  BY DEF IndInv, TypeOK, RequestsOK
<1>2. req[r].step = "del" /\ f \in Flows /\ completed' = completed \ {f}
      /\ UNCHANGED <<code, issuer, auth, token, pending>>
  BY <1>1 DEF DeleteTokens, RequestOK, providerVars, tableVars
<1>3. TypeOK'
  BY <1>1, <1>2, HandlerTypes DEF Handle
<1>4. TokensIssued'
  BY <1>2 DEF IndInv, TokensIssued
<1>5. CASE f \notin completed
  <2>1. Answer(r, "error", f) /\ "error" \in Answers
    BY <1>5 DEF DeleteTokens, Answers
  <2> QED
    BY <1>2, <1>3, <1>4, <2>1, QuietAnswer DEF TokensIssued
<1>6. CASE f \in completed
  <2>1. GoTo(r, "store", "none") /\ "store" \in Steps /\ "none" \in Answers
    BY <1>6 DEF DeleteTokens, Steps, Answers
  <2>2. PICK q : /\ Becomes(r, q) /\ Follows(r, q)
                 /\ q.step = "store" /\ q.flow = f /\ q.provider = req[r].provider
    BY <1>1, <2>1, GoToShape
  <2>3. req'[r] = q /\ \A s \in Reqs \ {r} : req'[s] = req[s]
    BY <1>1, <2>2, BecomesTypes
  <2>4. code[f] = "redeemed"
    BY <1>6 DEF IndInv, TokensIssued
  <2>5. RequestOK(q, code', issuer', auth')
    BY <1>1, <1>2, <2>2, <2>4 DEF RequestOK, HoldsTokens, Follows, NoRequest
  <2>6. RequestsOK'
    BY <1>2, <2>3, <2>5 DEF IndInv, RequestsOK
  <2>7. OnePlace'
    BY <1>2, <1>6, <2>2, <2>3 DEF IndInv, OnePlace, TokenOnce, HoldsTokens
  <2> QED
    BY <1>3, <1>4, <2>6, <2>7 DEF IndInv
<1> QED
  BY <1>5, <1>6

\* Storing tokens in a mailbox keeps the invariant.
LEMMA StoreInv ==
    ASSUME IndInv, Grows, NEW r \in Reqs,
           _create_oauth_account(r) \/ _reconnect_oauth_account(r)
    PROVE  IndInv'
<1> DEFINE f == req[r].flow
<1>1. TypeOK /\ req[r] \in Request /\ RequestOK(req[r], code, issuer, auth)
  BY DEF IndInv, TypeOK, RequestsOK
<1>2. /\ req[r].step = "store" /\ req[r].kind \in {"finalize", "reconnect"}
      /\ UNCHANGED <<code, issuer, pending, completed>>
  BY DEF _create_oauth_account, _reconnect_oauth_account, providerVars, flowVars
<1>3. /\ HoldsTokens(req[r]) /\ f \in Flows /\ code[f] = "redeemed"
      /\ issuer[f] = req[r].provider /\ req[r].provider # None
  BY <1>1, <1>2 DEF HoldsTokens, RequestOK
<1>4. TypeOK'
  BY <1>1, <1>2, HandlerTypes DEF Handle
<1>5. {"ok", "error"} \subseteq Answers
  BY DEF Answers
<1>6. CASE token' = token /\ Answer(r, "error", f)
  BY <1>2, <1>3, <1>4, <1>5, <1>6, QuietAnswer DEF IndInv, TokensIssued
<1>7. ASSUME NEW a \in Accounts, Answer(r, "ok", f),
             token' = [token EXCEPT ![a] = f], auth'[a] = req[r].provider,
             \A b \in Accounts \ {a} : auth'[b] = auth[b]
      PROVE  IndInv'
  <2>1. /\ RequestsOK' /\ ~HoldsTokens(req'[r])
        /\ \A s \in Reqs \ {r} : req'[s] = req[s]
    BY <1>3, <1>4, <1>5, <1>7, HandOver
  <2> HIDE DEF f
  <2>2. \A b \in Accounts : token'[b] = IF b = a THEN f ELSE token[b]
    BY <1>1, <1>7 DEF TypeOK
  <2>3. TokensIssued'
    BY <1>2, <1>3, <1>7, <2>2 DEF IndInv, TokensIssued
  <2>4. OnePlace'
    BY <1>2, <1>3, <2>1, <2>2 DEF IndInv, OnePlace, TokenOnce, f
  <2> QED
    BY <1>4, <2>1, <2>3, <2>4 DEF IndInv
<1>8. CASE _create_oauth_account(r)
  BY <1>1, <1>7, <1>8 DEF _create_oauth_account, TypeOK
<1>9. CASE _reconnect_oauth_account(r)
  <2>1. req[r].target \in Accounts /\ auth[req[r].target] = req[r].provider
        /\ auth' = auth
    BY <1>1, <1>9 DEF _reconnect_oauth_account, RequestOK
  <2> QED
    BY <1>6, <1>7, <1>9, <2>1 DEF _reconnect_oauth_account
<1> QED
  BY <1>8, <1>9

\* The other steps of a handler, and its failures, keep the invariant.
LEMMA HandlerInv ==
    ASSUME IndInv, Grows, NEW r \in Reqs, Handle(r) \/ AskFails(r) \/ HandlerRaises(r)
    PROVE  IndInv'
<1>1. TypeOK /\ req[r] \in Request /\ RequestOK(req[r], code, issuer, auth)
  BY DEF IndInv, TypeOK, RequestsOK
<1>2. TypeOK'
  BY <1>1, HandlerTypes DEF RequestOK
<1>3. req[r].flow \in Flows \cup {None} /\ {"ok", "error", "none"} \subseteq Answers
  BY <1>1 DEF Request, Answers
<1>4. \A g \in pending : code'[g] # "none"
  BY <1>1 DEF IndInv, TokensIssued, Grows, TypeOK
<1>5. CASE start_device_flow(r)
  <2>1. PICK f \in Flows : /\ code' = [code EXCEPT ![f] = "open"]
                           /\ pending' = Unexpired(pending, req[r].provider) \cup {f}
                           /\ Answer(r, "ok", f)
    BY <1>5 DEF start_device_flow
  <2>2. completed' \subseteq completed /\ token' = token
    BY <1>5 DEF start_device_flow, Unexpired, tableVars
  <2>3. \A g \in pending' : code'[g] # "none"
    BY <1>1, <1>4, <2>1 DEF Unexpired, TypeOK
  <2> QED
    BY <1>2, <1>3, <2>1, <2>2, <2>3, QuietAnswer
<1>6. ASSUME GoTo(r, "ask", "none") \/ GoTo(r, "del", "none"),
             GoTo(r, "del", "none") => req[r].flow \in completed'
                                       /\ issuer[req[r].flow] = req[r].provider,
             completed' \subseteq completed, pending' \subseteq pending, token' = token
      PROVE  IndInv'
  <2>1. {"ask", "del"} \subseteq Steps
    BY DEF Steps
  <2>2. PICK q : /\ Becomes(r, q) /\ Follows(r, q)
                 /\ q.step = "ask" \/ (q.step = "del" /\ GoTo(r, "del", "none"))
                 /\ q.flow = req[r].flow /\ q.provider = req[r].provider
    BY <1>1, <1>3, <1>6, <2>1, GoToShape
  <2>3. req'[r] = q /\ \A s \in Reqs \ {r} : req'[s] = req[s]
    BY <1>1, <2>2, BecomesTypes
  <2>4. RequestOK(req[r], code', issuer', auth')
    BY <1>1, <1>2, RequestStable
  <2>5. q.step = "del" => /\ q.flow \in Flows /\ code'[q.flow] # "none"
                          /\ issuer'[q.flow] = q.provider
    BY <1>1, <1>2, <1>6, <2>2 DEF IndInv, TokensIssued, TypeOK, Grows
  <2>6. RequestOK(q, code', issuer', auth') /\ ~HoldsTokens(q)
    BY <2>2, <2>4, <2>5 DEF RequestOK, HoldsTokens, Follows, NoRequest
  <2> QED
    BY <1>2, <1>4, <1>6, <2>3, <2>6, Quiet
<1>7. CASE LookUpCompleted(r)
  <2>1. UNCHANGED <<completed, pending, token>>
    BY <1>7 DEF LookUpCompleted, flowVars, tableVars
  <2>2. CASE Answer(r, "ok", req[r].flow)
    BY <1>2, <1>3, <1>4, <2>1, <2>2, QuietAnswer
  <2>3. CASE GoTo(r, "ask", "none")
    <3>1. ~GoTo(r, "del", "none")
      BY <1>1, <2>3 DEF GoTo, TypeOK, Request
    <3> QED
      BY <1>6, <2>1, <2>3, <3>1
  <2> QED
    BY <1>7, <2>2, <2>3 DEF LookUpCompleted
<1>8. CASE GetTokens(r)
  <2>1. completed' \subseteq completed /\ pending' \subseteq pending /\ token' = token
    BY <1>8 DEF GetTokens, Unexpired, tableVars
  <2>2. CASE req[r].flow \in completed' \cap OfProvider(req[r].provider)
    <3>1. GoTo(r, "del", "none") /\ issuer[req[r].flow] = req[r].provider
      BY <1>8, <2>2 DEF GetTokens, OfProvider
    <3> QED
      BY <1>6, <2>1, <2>2, <3>1
  <2>3. CASE Answer(r, "error", req[r].flow)
    BY <1>2, <1>3, <1>4, <2>1, <2>3, QuietAnswer
  <2> QED
    BY <1>8, <2>2, <2>3 DEF GetTokens
<1>9. CASE PollRefused(r) \/ AskFails(r) \/ SaveOther(r) \/ BoundReached(r) \/ HandlerRaises(r)
  <2>1. completed' = completed /\ pending' \subseteq pending /\ token' = token
    BY <1>9 DEF PollRefused, AskFails, SaveOther, BoundReached, HandlerRaises,
                flowVars, tableVars
  <2>2. \E a \in {"ok", "error"}, f \in {req[r].flow, None} : Answer(r, a, f)
    BY <1>9 DEF PollRefused, AskFails, SaveOther, BoundReached, HandlerRaises
  <2> QED
    BY <1>2, <1>3, <1>4, <2>1, <2>2, QuietAnswer
<1> QED
  BY <1>5, <1>7, <1>8, <1>9, AskInv, ApplyInv, DeleteInv, StoreInv DEF Handle

\* Answers that reach the page, broken connections, restarts and what happens
\* outside keep the invariant.
LEMMA OtherInv ==
    ASSUME IndInv, Grows,
           \/ \E r \in Reqs : AnswerArrives(r) \/ ConnectionBreaks(r)
           \/ \E f \in Flows : UserDecides(f) \/ CodeExpires(f) \/ EntryLapses(f)
           \/ Restart
    PROVE  IndInv'
<1>1. TypeOK /\ TypeOK'
  BY OtherTypes DEF IndInv
<1>2. \A g \in pending : code'[g] # "none"
  BY <1>1 DEF IndInv, TokensIssued, Grows, TypeOK
<1>3. \A s \in Reqs : req[s] \in Request /\ RequestOK(req[s], code', issuer', auth')
  BY <1>1, RequestStable DEF IndInv, TypeOK, RequestsOK
<1>4. \A co, is, au : RequestOK(NoRequest, co, is, au) /\ ~HoldsTokens(NoRequest)
  BY DEF RequestOK, HoldsTokens, NoRequest
<1>5. ASSUME NEW r \in Reqs, AnswerArrives(r)
      PROVE  IndInv'
  <2>1. UNCHANGED <<pending, completed, token>> /\ req[r].step = "answered"
    BY <1>5 DEF AnswerArrives, flowVars, tableVars
  <2>2. CASE req' = [req EXCEPT ![r] = NoRequest]
    BY <1>1, <1>2, <1>4, <2>1, <2>2, Quiet DEF TypeOK
  <2>3. CASE PostsReconnect(req[r])
    <3> DEFINE q == [req[r] EXCEPT !.step = "take", !.kind = "reconnect", !.answer = "none"]
    <3>1. req[r].kind = "poll" /\ req[r].target # None
      BY <2>3 DEF PostsReconnect
    <3>2. /\ q.step = "take" /\ q.kind = "reconnect" /\ q.target = req[r].target
          /\ q.provider = req[r].provider
      BY <1>3 DEF Request
    <3>3. req' = [req EXCEPT ![r] = q] \/ req' = [req EXCEPT ![r] = NoRequest]
      BY <1>5 DEF AnswerArrives
    <3> HIDE DEF q
    <3>4. RequestOK(q, code', issuer', auth') /\ ~HoldsTokens(q)
      BY <1>3, <3>1, <3>2 DEF RequestOK, HoldsTokens
    <3> QED
      BY <1>1, <1>2, <2>1, <2>2, <3>3, <3>4, Quiet DEF TypeOK
  <2> QED
    BY <1>5, <2>2, <2>3 DEF AnswerArrives
<1>6. ASSUME NEW r \in Reqs, ConnectionBreaks(r)
      PROVE  IndInv'
  <2>1. UNCHANGED <<pending, completed, token, code, issuer, auth>>
    BY <1>6 DEF ConnectionBreaks, flowVars, tableVars, providerVars
  <2>2. CASE req' = [req EXCEPT ![r] = NoRequest]
    BY <1>1, <1>2, <1>4, <2>1, <2>2, Quiet DEF TypeOK
  <2>3. CASE req' = [req EXCEPT ![r].awaited = FALSE]
    <3>1. /\ req'[r].step = req[r].step /\ req'[r].kind = req[r].kind
          /\ req'[r].flow = req[r].flow /\ req'[r].provider = req[r].provider
          /\ req'[r].target = req[r].target /\ req'[r].answer = req[r].answer
          /\ \A s \in Reqs \ {r} : req'[s] = req[s]
      BY <1>1, <1>3, <2>3 DEF TypeOK, Request
    <3>2. \A s \in Reqs : /\ HoldsTokens(req'[s]) = HoldsTokens(req[s])
                           /\ req'[s].flow = req[s].flow
                           /\ RequestOK(req'[s], code', issuer', auth')
      BY <1>3, <3>1 DEF HoldsTokens, RequestOK
    <3>3. RequestsOK' /\ TokensIssued'
      BY <2>1, <3>2 DEF IndInv, RequestsOK, TokensIssued
    <3>4. OnePlace'
      BY <2>1, <3>2 DEF IndInv, OnePlace, TokenOnce
    <3> QED
      BY <1>1, <3>3, <3>4 DEF IndInv
  <2> QED
    BY <1>6, <2>2, <2>3 DEF ConnectionBreaks
<1>7. CASE \E f \in Flows : UserDecides(f) \/ CodeExpires(f) \/ EntryLapses(f)
  <2>1. UNCHANGED <<req, pending, completed, token>>
    BY <1>7 DEF UserDecides, CodeExpires, EntryLapses, flowVars, tableVars
  <2> QED
    BY <1>1, <1>2, <2>1, Quiet
<1>8. CASE Restart
  <2>1. pending' = {} /\ completed' = {} /\ token' = token
    BY <1>8 DEF Restart, tableVars
  <2>2. ASSUME NEW s \in Reqs
        PROVE  RequestOK(req'[s], code', issuer', auth') /\ ~HoldsTokens(req'[s])
    <3> DEFINE q == [req[s] EXCEPT !.step = "answered", !.answer = "error"]
    <3>1. /\ q.step = "answered" /\ q.kind = req[s].kind /\ q.target = req[s].target
          /\ q.provider = req[s].provider
      BY <1>3 DEF Request
    <3>2. \/ req'[s] = q \/ req'[s] = NoRequest
          \/ req'[s] = req[s] /\ req[s].step = "answered"
      BY <1>8 DEF Restart
    <3> HIDE DEF q
    <3> QED
      BY <1>3, <1>4, <3>1, <3>2 DEF RequestOK, HoldsTokens
  <2> QED
    BY <1>1, <2>1, <2>2, Quiet
<1> QED
  BY <1>5, <1>6, <1>7, <1>8

----------------------------------------------------------------------------
\* The theorems.

\* The invariant holds in every behaviour.
THEOREM Invariance == Spec => []IndInv
<1>1. Init => IndInv
  <2> SUFFICES ASSUME Init PROVE IndInv
    OBVIOUS
  <2>1. NoRequest \in Request /\ \A r \in Reqs : req[r] = NoRequest
    BY NoRequestType DEF Init
  <2>2. TypeOK
    <3>1. dialog \in BOOLEAN /\ saving \in BOOLEAN
      BY Zenon DEF Init
    <3>2. failures \in 0 .. MaxFaults /\ restarts \in 0 .. MaxFaults
      BY BoundsAssumption DEF Init
    <3>3. req \in [Reqs -> Request]
      BY <2>1 DEF Init
    <3>4. /\ preset = None /\ target = None /\ status = "idle" /\ flow = None
          /\ code = [f \in Flows |-> "none"] /\ issuer = [f \in Flows |-> None]
          /\ pending = {} /\ completed = {} /\ lapsed = {} /\ deleted = {}
          /\ auth = InitialAuth /\ token = [a \in Accounts |-> None]
      BY Zenon DEF Init
    <3> QED
      BY <3>1, <3>2, <3>3, <3>4, AuthAssumption DEF TypeOK
  <2>3. \A r \in Reqs : req[r].step = "idle" /\ req[r].kind = "save"
    BY <2>1 DEF NoRequest
  <2>4. RequestsOK /\ TokensIssued /\ OnePlace
    BY <2>3 DEF Init, RequestsOK, RequestOK, HoldsTokens, TokensIssued, OnePlace, TokenOnce
  <2> QED
    BY <2>2, <2>4 DEF IndInv
<1>2. IndInv /\ [Next]_vars => IndInv'
  <2> SUFFICES ASSUME IndInv, [Next]_vars PROVE IndInv'
    OBVIOUS
  <2>1. CASE UNCHANGED vars
    <3>1. UNCHANGED <<dialog, preset, target, status, flow, saving, req, code, issuer, pending,
                      completed, lapsed, auth, token, deleted, failures, restarts>>
      BY <2>1 DEF vars, pageVars, providerVars, flowVars, tableVars, boundVars
    <3>2. TypeOK'
      BY <3>1 DEF IndInv, TypeOK
    <3> QED
      BY <3>1, <3>2, Quiet DEF IndInv, TokensIssued, Grows
  <2>2. CASE Next
    <3>1. Grows
      BY <2>2, NextGrows DEF IndInv
    <3> QED
      BY <2>2, <3>1, UserInv, HandlerInv, OtherInv DEF Next, Fails
  <2> QED
    BY <2>1, <2>2
<1> QED
  BY <1>1, <1>2, PTL DEF Spec

\* Every variable keeps its type.
THEOREM TypeCorrect == Spec => []TypeOK
<1>1. IndInv => TypeOK
  BY DEF IndInv
<1> QED
  BY <1>1, Invariance, PTL

\* The tokens of a sign-in are stored in at most one mailbox, however many
\* requests try to take them and whatever fails.
THEOREM TokensUsedOnce == Spec => []TokenOnce
<1>1. IndInv => TokenOnce
  BY DEF IndInv, OnePlace
<1> QED
  BY <1>1, Invariance, PTL

\* A mailbox holds tokens of its own provider only, although reconnect does not
\* check the mailbox's auth_type.
THEOREM TokensFit == Spec => []TokenFitsMailbox
<1>1. IndInv => TokenFitsMailbox
  BY DEF IndInv, TokensIssued, TokenFitsMailbox
<1> QED
  BY <1>1, Invariance, PTL

\* A completed sign-in is discarded only by a request that takes it, by its
\* deadline or by a restart.
THEOREM SignInKept == Spec => CompletedIsKept
<1> DEFINE Kept == \A f \in completed \ completed' :
                     \/ f \in lapsed
                     \/ restarts' # restarts
                     \/ \E r \in Reqs : req[r].step = "del" /\ req[r].flow = f
<1>1. TypeOK /\ [Next]_vars => [Kept]_vars
  <2> SUFFICES ASSUME TypeOK, Next PROVE Kept
    OBVIOUS
  <2> USE DEF flowVars
  <2>1. CASE completed \subseteq completed'
    BY <2>1
  <2>2. CASE UserStep
    <3>1. completed' = completed
      BY <2>2 DEF UserStep, openAddDialog, closeDialog, closeReconnectDialog,
         openReconnectDialog, delete_account, handleProviderChange, startOAuthSignIn, handleSave
    <3> QED
      BY <2>1, <3>1
  <2>3. ASSUME NEW r \in Reqs, Handle(r)
        PROVE  Kept
    <3>1. CASE start_device_flow(r) \/ GetTokens(r)
      BY <3>1 DEF start_device_flow, GetTokens, Unexpired
    <3>2. CASE DeleteTokens(r)
      BY <3>2 DEF DeleteTokens
    <3> QED
      BY <2>1, <2>3, <3>1, <3>2 DEF Handle, LookUpCompleted, PollRefused, AskProvider,
         ApplyAnswer, ApplyTokens, ApplyPending, ApplyError, _create_oauth_account,
         _reconnect_oauth_account, SaveOther, BoundReached
  <2>4. CASE \E r \in Reqs : PollTick(r) \/ AnswerArrives(r) \/ Fails(r)
    <3>1. completed' = completed
      BY <2>4 DEF PollTick, AnswerArrives, Fails, AskFails, HandlerRaises, ConnectionBreaks
    <3> QED
      BY <2>1, <3>1
  <2>5. CASE \E f \in Flows : UserDecides(f) \/ CodeExpires(f) \/ EntryLapses(f)
    BY <2>1, <2>5 DEF UserDecides, CodeExpires, EntryLapses
  <2>6. CASE Restart
    <3>1. restarts' = restarts + 1
      BY <2>6 DEF Restart
    <3>2. restarts' # restarts
      BY <3>1 DEF TypeOK
    <3> QED
      BY <3>2
  <2> QED
    BY <2>2, <2>3, <2>4, <2>5, <2>6 DEF Next
<1> QED
  BY <1>1, TypeCorrect, PTL DEF Spec, CompletedIsKept
============================================================================
