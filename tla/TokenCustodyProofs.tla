------------------------- MODULE TokenCustodyProofs -------------------------
(***************************************************************************)
(* OAuthSignIn implements TokenCustody, for any number of providers,       *)
(* flows, mailboxes, requests, failures and restarts.                      *)
(*                                                                         *)
(* The invariant of OAuthSignInProofs says where tokens are; what is left  *)
(* is that a flow is issued once, by a provider (Issued), and what each    *)
(* step does to the set Held.  A step that gives no thread tokens and puts *)
(* none in the dictionary loses some or none (NoneGained).  The steps that *)
(* remain move the tokens of one flow: obtained by a poll, put into the    *)
(* dictionary, taken out of it, stored.                                    *)
(***************************************************************************)
EXTENDS OAuthSignInProofs

\* A code is issued by a provider, and what asks for one names the provider.
Issued ==
    /\ \A f \in Flows : code[f] = "none" <=> issuer[f] = None
    /\ \A r \in Reqs : req[r].step = "start" => req[r].provider # None

\* No thread gets tokens that it did not have.
NoneGained ==
    \A s \in Reqs : HoldsTokens(req'[s]) => HoldsTokens(req[s]) /\ req'[s].flow = req[s].flow

\* No request turns into one that starts a sign-in.
NoStart ==
    \A s \in Reqs : req'[s].step = "start" => req[s].step = "start" /\ req'[s].provider = req[s].provider

----------------------------------------------------------------------------
\* What the steps do to the requests.

LEMMA AnswerGains ==
    ASSUME TypeOK, NEW r \in Reqs, NEW a \in Answers, NEW f \in Flows \cup {None}, Answer(r, a, f)
    PROVE  /\ NoneGained /\ NoStart /\ ~HoldsTokens(req'[r])
           /\ \A s \in Reqs \ {r} : req'[s] = req[s]
<1>1. PICK q : Becomes(r, q) /\ q.step \in {"idle", "answered"}
  BY AnswerShape
<1>2. req'[r] = q /\ \A s \in Reqs \ {r} : req'[s] = req[s]
  BY <1>1, BecomesTypes
<1> QED
  BY <1>1, <1>2 DEF NoneGained, NoStart, HoldsTokens

LEMMA GoToGains ==
    ASSUME TypeOK, NEW r \in Reqs, NEW st \in Steps, NEW a \in Answers, GoTo(r, st, a), st # "start"
    PROVE  /\ NoStart /\ req'[r].step = st /\ req'[r].answer = a /\ req'[r].flow = req[r].flow
           /\ \A s \in Reqs \ {r} : req'[s] = req[s]
           /\ st # "store" /\ (st # "apply" \/ a # "tokens") => NoneGained
<1>1. PICK q : /\ Becomes(r, q)
               /\ q.step = st /\ q.answer = a /\ q.flow = req[r].flow
  BY GoToShape
<1>2. req'[r] = q /\ \A s \in Reqs \ {r} : req'[s] = req[s]
  BY <1>1, BecomesTypes
<1> QED
  BY <1>1, <1>2 DEF NoneGained, NoStart, HoldsTokens

LEMMA SendGains ==
    ASSUME TypeOK, NEW r \in Reqs, NEW st \in FirstSteps, NEW k \in Kinds,
           NEW f \in Flows \cup {None}, NEW p \in Providers \cup {None},
           NEW a \in Accounts \cup {None}, Send(r, st, k, f, p, a)
    PROVE  /\ NoneGained /\ (st # "start" => NoStart)
           /\ req'[r].provider = p /\ \A s \in Reqs \ {r} : req'[s] = req[s]
<1>1. st \in Steps /\ st # "store" /\ st # "apply"
  BY DEF FirstSteps, Steps
<1>2. PICK q : Becomes(r, q) /\ q.step = st /\ q.provider = p
  BY <1>1, SendShape
<1>3. req'[r] = q /\ \A s \in Reqs \ {r} : req'[s] = req[s]
  BY <1>2, BecomesTypes
<1> QED
  BY <1>1, <1>2, <1>3 DEF NoneGained, NoStart, HoldsTokens

\* What nobody gains is not held afterwards.
LEMMA HeldShrinks ==
    ASSUME NoneGained, completed' \subseteq completed
    PROVE  Held' \subseteq Held
BY DEF NoneGained, Held

\* The step of a handler that answers its request and moves no tokens is a loss, if
\* anything.
LEMMA LosesOrStays ==
    ASSUME NoneGained, completed' \subseteq completed, Redeemed' = Redeemed,
           UNCHANGED <<issuer, auth, token, deleted>>
    PROVE  Custody!Lose
BY HeldShrinks DEF Custody!Lose, Custody!mailboxVars

----------------------------------------------------------------------------
\* The steps of the page and of what is around.

LEMMA UserCustody ==
    ASSUME IndInv, Issued, UserStep \/ \E r \in Reqs : PollTick(r)
    PROVE  Issued' /\ [Custody!Next]_(Custody!vars)
<1> USE DEF flowVars, providerVars, tableVars
<1>1. TypeOK /\ flow \in Flows \cup {None} /\ preset \in Providers \cup {None}
      /\ target \in Accounts \cup {None} /\ activeOAuthProvider \in Providers \cup {None}
  BY ActiveType DEF IndInv, TypeOK
<1>2. {"start", "poll", "finalize", "save"} \subseteq Kinds
      /\ {"start", "lookup", "take", "save"} \subseteq FirstSteps
  BY DEF Kinds, FirstSteps
<1>3. ASSUME NEW a \in Accounts, delete_account(a)
      PROVE  Issued' /\ [Custody!Next]_(Custody!vars)
  <2>1. UNCHANGED <<req, issuer, code, completed, auth, token>>
    BY <1>3 DEF delete_account
  <2>2. Held' = Held /\ Redeemed' = Redeemed /\ Issued'
    BY <2>1 DEF Held, Redeemed, Issued
  <2>3. Custody!Delete(a)
    BY <1>3, <2>1, <2>2 DEF delete_account, Custody!Delete
  <2> QED
    BY <2>2, <2>3 DEF Custody!Next
<1>4. ASSUME UNCHANGED <<issuer, code, completed, auth, token, deleted>>, NoneGained,
             \A s \in Reqs : req'[s].step = "start" => req'[s].provider # None
      PROVE  Issued' /\ [Custody!Next]_(Custody!vars)
  <2>1. Redeemed' = Redeemed /\ Issued'
    BY <1>4 DEF Redeemed, Issued
  <2> QED
    BY <1>4, <2>1, LosesOrStays DEF Custody!Next
<1>5. ASSUME NEW r \in Reqs, startOAuthSignIn(r)
      PROVE  Issued' /\ [Custody!Next]_(Custody!vars)
  <2>1. /\ Send(r, "start", "start", None, activeOAuthProvider, None)
        /\ activeOAuthProvider # None
        /\ UNCHANGED <<issuer, code, completed, auth, token, deleted>>
    BY <1>5 DEF startOAuthSignIn
  <2>2. /\ NoneGained /\ req'[r].provider = activeOAuthProvider
        /\ \A s \in Reqs \ {r} : req'[s] = req[s]
    BY <1>1, <1>2, <2>1, SendGains
  <2> QED
    BY <1>4, <2>1, <2>2 DEF Issued
<1>6. ASSUME NEW r \in Reqs, handleSave(r) \/ PollTick(r)
      PROVE  Issued' /\ [Custody!Next]_(Custody!vars)
  <2>1. /\ \/ Send(r, "take", "finalize", flow, preset, None)
           \/ Send(r, "save", "save", None, None, None)
           \/ Send(r, "lookup", "poll", flow, activeOAuthProvider, target)
        /\ UNCHANGED <<issuer, code, completed, auth, token, deleted>>
    BY <1>6 DEF handleSave, PollTick
  <2>2. NoneGained /\ NoStart
    BY <1>1, <1>2, <2>1, SendGains
  <2> QED
    BY <1>4, <2>1, <2>2 DEF Issued, NoStart
<1>7. CASE UNCHANGED <<req, issuer, code, completed, auth, token, deleted>>
  BY <1>4, <1>7 DEF NoneGained, Issued
<1> QED
  BY <1>3, <1>5, <1>6, <1>7 DEF UserStep, openAddDialog, closeDialog, closeReconnectDialog,
     openReconnectDialog, handleProviderChange

LEMMA OtherCustody ==
    ASSUME IndInv, Issued,
           \/ \E r \in Reqs : AnswerArrives(r) \/ ConnectionBreaks(r)
           \/ \E f \in Flows : UserDecides(f) \/ CodeExpires(f) \/ EntryLapses(f)
           \/ Restart
    PROVE  Issued' /\ Custody!Lose
<1> USE DEF flowVars, providerVars, tableVars
<1>1. UNCHANGED <<issuer, auth, token, deleted>> /\ completed' \subseteq completed
  BY DEF AnswerArrives, ConnectionBreaks, UserDecides, CodeExpires, EntryLapses, Restart
<1>2. \A f \in Flows : /\ code[f] = "none" <=> code'[f] = "none"
                       /\ code[f] = "redeemed" <=> code'[f] = "redeemed"
  BY DEF IndInv, TypeOK, AnswerArrives, ConnectionBreaks, UserDecides, CodeExpires, EntryLapses,
         Restart
<1>3. \A s \in Reqs : /\ req[s] \in Request
                      /\ NoRequest.step = "idle"
  BY DEF IndInv, TypeOK, NoRequest
<1>4. NoneGained /\ NoStart
  <2>1. ASSUME NEW r \in Reqs, AnswerArrives(r) \/ ConnectionBreaks(r)
        PROVE  NoneGained /\ NoStart
    <3> DEFINE q == [req[r] EXCEPT !.step = "take", !.kind = "reconnect", !.answer = "none"]
               p == [req[r] EXCEPT !.awaited = FALSE]
    <3>1. /\ q.step = "take" /\ p.step = req[r].step /\ p.answer = req[r].answer
          /\ p.flow = req[r].flow /\ p.provider = req[r].provider
      BY <1>3 DEF Request
    <3>2. \E n \in {q, p, NoRequest} : req' = [req EXCEPT ![r] = n]
      BY <2>1 DEF AnswerArrives, ConnectionBreaks
    <3> HIDE DEF q, p
    <3>3. req'[r] \in {q, p, NoRequest} /\ \A s \in Reqs \ {r} : req'[s] = req[s]
      BY <3>2 DEF IndInv, TypeOK
    <3> QED
      BY <1>3, <3>1, <3>3 DEF NoneGained, NoStart, HoldsTokens
  <2>2. CASE \E f \in Flows : UserDecides(f) \/ CodeExpires(f) \/ EntryLapses(f)
    BY <2>2 DEF UserDecides, CodeExpires, EntryLapses, NoneGained, NoStart
  <2>3. CASE Restart
    <3>1. ASSUME NEW s \in Reqs PROVE req'[s].step \in {"answered", "idle"}
      <4> DEFINE q == [req[s] EXCEPT !.step = "answered", !.answer = "error"]
      <4>1. q.step = "answered"
        BY <1>3 DEF Request
      <4>2. \/ req'[s] = q \/ req'[s] = NoRequest
            \/ req'[s] = req[s] /\ req[s].step = "answered"
        BY <2>3 DEF Restart
      <4> QED
        BY <1>3, <4>1, <4>2
    <3> QED
      BY <3>1 DEF NoneGained, NoStart, HoldsTokens
  <2> QED
    BY <2>1, <2>2, <2>3
<1>5. Redeemed' = Redeemed /\ Issued'
  BY <1>1, <1>2, <1>4 DEF Redeemed, Issued, NoStart
<1> QED
  BY <1>1, <1>4, <1>5, LosesOrStays

----------------------------------------------------------------------------
\* The steps of a handler.

\* A flow is issued.
LEMMA StartCustody ==
    ASSUME IndInv, Issued, NEW r \in Reqs, start_device_flow(r)
    PROVE  Issued' /\ Custody!Next
<1>1. TypeOK /\ req[r] \in Request /\ "ok" \in Answers
  BY DEF IndInv, TypeOK, Answers
<1>2. PICK f \in Flows : /\ code[f] = "none"
                         /\ code' = [code EXCEPT ![f] = "open"]
                         /\ issuer' = [issuer EXCEPT ![f] = req[r].provider]
                         /\ Answer(r, "ok", f)
  BY DEF start_device_flow
<1>3. /\ completed' \subseteq completed /\ req[r].provider \in Providers
      /\ UNCHANGED <<auth, token, deleted>>
  BY <1>1 DEF start_device_flow, Unexpired, tableVars, Issued, Request
<1>4. NoneGained /\ NoStart
  BY <1>1, <1>2, AnswerGains
<1>5. Redeemed' = Redeemed
  BY <1>1, <1>2 DEF Redeemed, TypeOK
<1>6. Issued'
  BY <1>1, <1>2, <1>3, <1>4, NoneAssumption DEF Issued, NoStart, TypeOK
<1>7. Custody!Start(f, req[r].provider)
  BY <1>2, <1>3, <1>4, <1>5, HeldShrinks DEF Custody!Start, Custody!mailboxVars, Issued
<1> QED
  BY <1>3, <1>6, <1>7 DEF Custody!Next

\* A poll asks the provider: tokens that it gives out were not given out before,
\* whether or not the answer arrives.
LEMMA AskCustody ==
    ASSUME IndInv, Issued, NEW r \in Reqs, AskProvider(r) \/ AskFails(r)
    PROVE  Issued' /\ Custody!Next
<1> DEFINE f == req[r].flow
<1>1. TypeOK /\ req[r] \in Request /\ f \in Flows \cup {None}
  BY DEF IndInv, TypeOK, Request
<1>2. /\ f \in pending /\ f \in Flows
      /\ UNCHANGED <<issuer, completed, auth, token, deleted>>
      /\ Redeem(f) \/ code' = code
  BY <1>1 DEF AskProvider, AskFails, TypeOK, flowVars, tableVars
<1>3. issuer[f] # None
  BY <1>2 DEF IndInv, TokensIssued, Issued
<1>4. /\ AskProvider(r) /\ GoTo(r, "apply", ProviderAnswer(code[f])) /\ Redeem(f)
      \/ Answer(r, "error", f)
  BY DEF AskProvider, AskFails
<1>5. /\ ProviderAnswer(code[f]) \in Answers /\ "apply" \in Steps /\ "error" \in Answers
      /\ (ProviderAnswer(code[f]) = "tokens" => code[f] = "granted")
  BY DEF ProviderAnswer, Answers, Steps
<1>6. /\ NoStart /\ \A s \in Reqs \ {r} : req'[s] = req[s]
      /\ ~HoldsTokens(req'[r]) \/ (req'[r].flow = f /\ code[f] = "granted" /\ Redeem(f))
      /\ ~HoldsTokens(req[r])
  <2>1. req[r].step = "ask"
    BY DEF AskProvider, AskFails
  <2>2. CASE GoTo(r, "apply", ProviderAnswer(code[f])) /\ Redeem(f)
    BY <1>1, <1>5, <2>1, <2>2, GoToGains DEF HoldsTokens
  <2>3. CASE Answer(r, "error", f)
    BY <1>1, <1>5, <2>1, <2>3, AnswerGains DEF HoldsTokens
  <2> QED
    BY <1>4, <2>2, <2>3
<1> HIDE DEF f
<1>7. Issued'
  <2>1. \A g \in Flows : code[g] = "none" <=> code'[g] = "none"
    BY <1>1, <1>2 DEF Redeem, TypeOK
  <2> QED
    BY <1>2, <1>6, <2>1 DEF Issued, NoStart
<1>8. CASE code' = code \/ code[f] # "granted"
  <2>1. code' = code
    BY <1>1, <1>2, <1>8 DEF Redeem, TypeOK
  <2>2. ~HoldsTokens(req'[r])
    BY <1>1, <1>2, <1>6, <2>1 DEF Redeem, TypeOK
  <2>3. NoneGained /\ Redeemed' = Redeemed
    BY <1>6, <2>1, <2>2 DEF NoneGained, Redeemed
  <2> QED
    BY <1>2, <1>7, <2>3, LosesOrStays DEF Custody!Next
<1>9. CASE Redeem(f) /\ code[f] = "granted"
  <2>1. Redeemed' = Redeemed \cup {f} /\ f \notin Redeemed
    BY <1>1, <1>2, <1>9 DEF Redeem, Redeemed, TypeOK
  <2>2. Held' = Held \/ Held' = Held \cup {f}
    BY <1>2, <1>6 DEF Held
  <2>3. Custody!Obtain(f)
    BY <1>2, <1>3, <2>1, <2>2 DEF Custody!Obtain, Custody!mailboxVars
  <2> QED
    BY <1>2, <1>7, <2>3 DEF Custody!Next
<1> QED
  BY <1>2, <1>8, <1>9

\* Tokens go into the dictionary, or out of it to one thread: they stay held.
LEMMA MoveCustody ==
    ASSUME IndInv, Issued, NEW r \in Reqs, ApplyAnswer(r) \/ DeleteTokens(r)
    PROVE  Issued' /\ [Custody!Next]_(Custody!vars)
<1> DEFINE f == req[r].flow
<1>1. TypeOK /\ req[r] \in Request /\ f \in Flows
  BY DEF IndInv, TypeOK, RequestsOK, RequestOK, ApplyAnswer, DeleteTokens
<1>2. UNCHANGED <<code, issuer, auth, token, deleted>>
  BY DEF ApplyAnswer, DeleteTokens, providerVars, tableVars
<1>3. {"ok", "pending", "error", "none"} \subseteq Answers /\ "store" \in Steps
  BY DEF Answers, Steps
<1>4. ASSUME NoStart PROVE Issued'
  BY <1>2, <1>4 DEF Issued, NoStart
<1>5. Redeemed' = Redeemed
  BY <1>2 DEF Redeemed
<1>6. CASE /\ completed' \subseteq completed
           /\ Answer(r, "pending", f) \/ Answer(r, "error", f)
  <2>1. NoneGained /\ NoStart
    BY <1>1, <1>3, <1>6, AnswerGains
  <2> QED
    BY <1>2, <1>4, <1>5, <1>6, <2>1, LosesOrStays DEF Custody!Next
<1>7. ASSUME Held' = Held, NoStart PROVE Issued' /\ [Custody!Next]_(Custody!vars)
  BY <1>2, <1>4, <1>5, <1>7 DEF Custody!vars, Custody!mailboxVars
<1>8. CASE req[r].step = "apply" /\ req[r].answer = "tokens" /\ ApplyTokens(r)
  <2>1. Answer(r, "ok", f) /\ completed' = completed \cup {f} /\ HoldsTokens(req[r])
    BY <1>8 DEF ApplyTokens, HoldsTokens
  <2>2. NoStart /\ ~HoldsTokens(req'[r]) /\ \A s \in Reqs \ {r} : req'[s] = req[s]
    BY <1>1, <1>3, <2>1, AnswerGains
  <2>3. Held' = Held
    BY <2>1, <2>2 DEF Held
  <2> QED
    BY <1>7, <2>2, <2>3
<1>9. CASE req[r].step = "del" /\ f \in completed /\ DeleteTokens(r)
  <2>1. GoTo(r, "store", "none") /\ completed' = completed \ {f} /\ ~HoldsTokens(req[r])
    BY <1>9 DEF DeleteTokens, HoldsTokens
  <2>2. /\ NoStart /\ req'[r].step = "store" /\ req'[r].flow = f
        /\ \A s \in Reqs \ {r} : req'[s] = req[s]
    BY <1>1, <1>3, <2>1, GoToGains
  <2>3. Held' = Held
    BY <1>9, <2>1, <2>2 DEF Held, HoldsTokens
  <2> QED
    BY <1>7, <2>2, <2>3
<1> QED
  BY <1>6, <1>8, <1>9 DEF ApplyAnswer, ApplyPending, ApplyError, DeleteTokens, flowVars

\* Tokens go to a mailbox.
LEMMA StoreCustody ==
    ASSUME IndInv, Issued, NEW r \in Reqs, _create_oauth_account(r) \/ _reconnect_oauth_account(r)
    PROVE  Issued' /\ Custody!Next
<1> DEFINE f == req[r].flow
<1>1. TypeOK /\ req[r] \in Request /\ RequestOK(req[r], code, issuer, auth)
  BY DEF IndInv, TypeOK, RequestsOK
<1>2. /\ req[r].step = "store" /\ HoldsTokens(req[r])
      /\ UNCHANGED <<code, issuer, completed, deleted>>
  BY DEF _create_oauth_account, _reconnect_oauth_account, providerVars, flowVars, HoldsTokens
<1>3. f \in Flows /\ issuer[f] = req[r].provider /\ {"ok", "error"} \subseteq Answers
  BY <1>1, <1>2 DEF RequestOK, Answers
<1>4. Redeemed' = Redeemed /\ \E a \in {"ok", "error"} : Answer(r, a, f)
  BY <1>2 DEF Redeemed, _create_oauth_account, _reconnect_oauth_account
<1>5. /\ NoneGained /\ NoStart /\ ~HoldsTokens(req'[r])
      /\ \A s \in Reqs \ {r} : req'[s] = req[s]
  BY <1>1, <1>3, <1>4, AnswerGains
<1>6. Issued'
  BY <1>2, <1>5 DEF Issued, NoStart
<1>7. f \in Held /\ Held' = Held \ {f}
  BY <1>2, <1>5 DEF Held, IndInv, OnePlace
<1>8. CASE auth' = auth /\ token' = token
  BY <1>2, <1>4, <1>5, <1>6, <1>8, LosesOrStays DEF Custody!Next
<1>9. ASSUME NEW a \in Accounts, token' = [token EXCEPT ![a] = f],
             \/ auth[a] = None /\ auth' = [auth EXCEPT ![a] = issuer[f]]
             \/ auth[a] = issuer[f] /\ a \notin deleted /\ auth' = auth
      PROVE  Issued' /\ Custody!Next
  <2>1. Custody!Store(f, a)
    BY <1>2, <1>4, <1>7, <1>9 DEF Custody!Store
  <2> QED
    BY <1>3, <1>6, <2>1 DEF Custody!Next
<1>10. CASE _create_oauth_account(r)
  BY <1>3, <1>9, <1>10 DEF _create_oauth_account
<1>11. CASE _reconnect_oauth_account(r)
  <2>1. req[r].target \in Accounts /\ auth[req[r].target] = issuer[f] /\ auth' = auth
    BY <1>1, <1>3, <1>11 DEF _reconnect_oauth_account, RequestOK
  <2> QED
    BY <1>8, <1>9, <1>11, <2>1 DEF _reconnect_oauth_account
<1> QED
  BY <1>10, <1>11

\* The other steps of a handler give nobody tokens.
LEMMA HandlerCustody ==
    ASSUME IndInv, Issued, NEW r \in Reqs, Handle(r) \/ AskFails(r) \/ HandlerRaises(r)
    PROVE  Issued' /\ [Custody!Next]_(Custody!vars)
<1>1. TypeOK /\ req[r] \in Request
  BY DEF IndInv, TypeOK
<1>2. /\ req[r].flow \in Flows \cup {None} /\ {"ok", "error", "none"} \subseteq Answers
      /\ {"ask", "del"} \subseteq Steps
  BY <1>1 DEF Request, Answers, Steps
<1>3. CASE \/ LookUpCompleted(r) \/ PollRefused(r) \/ GetTokens(r) \/ SaveOther(r)
           \/ BoundReached(r) \/ HandlerRaises(r)
  <2>1. UNCHANGED <<code, issuer, auth, token, deleted>> /\ completed' \subseteq completed
    BY <1>3 DEF LookUpCompleted, PollRefused, GetTokens, SaveOther, BoundReached, HandlerRaises,
       Unexpired, providerVars, flowVars, tableVars
  <2>2. \/ \E a \in {"ok", "error"}, f \in {req[r].flow, None} : Answer(r, a, f)
        \/ \E st \in {"ask", "del"} : GoTo(r, st, "none")
    BY <1>3 DEF LookUpCompleted, PollRefused, GetTokens, SaveOther, BoundReached, HandlerRaises
  <2>3. NoneGained /\ NoStart
    BY <1>1, <1>2, <2>2, AnswerGains, GoToGains
  <2>4. Redeemed' = Redeemed /\ Issued'
    BY <2>1, <2>3 DEF Redeemed, Issued, NoStart
  <2> QED
    BY <2>1, <2>3, <2>4, LosesOrStays DEF Custody!Next
<1> QED
  BY <1>3, StartCustody, AskCustody, MoveCustody, StoreCustody DEF Handle

----------------------------------------------------------------------------
\* The tokens of a sign-in are obtained once, held until they are stored or lost,
\* and stored in one mailbox of their provider, whatever requests, polls and
\* restarts overlap.
THEOREM TokenCustodyImplemented == Spec => ImplementsTokenCustody
<1>1. Init => Issued /\ Custody!Init
  <2> SUFFICES ASSUME Init PROVE Issued /\ Custody!Init
    OBVIOUS
  <2>1. \A r \in Reqs : req[r].step = "idle"
    BY DEF Init, NoRequest
  <2>2. Redeemed = {} /\ Held = {}
    BY <2>1 DEF Init, Redeemed, Held, HoldsTokens
  <2> QED
    BY <2>1, <2>2 DEF Init, Issued, Custody!Init
<1>2. IndInv /\ Issued /\ [Next]_vars => Issued' /\ [Custody!Next]_(Custody!vars)
  <2> SUFFICES ASSUME IndInv, Issued, [Next]_vars
               PROVE  Issued' /\ [Custody!Next]_(Custody!vars)
    OBVIOUS
  <2>1. CASE UNCHANGED vars
    BY <2>1 DEF vars, providerVars, flowVars, tableVars, Issued, Held, Redeemed, Custody!vars,
                Custody!mailboxVars
  <2>2. CASE Next
    BY <2>2, UserCustody, HandlerCustody, OtherCustody DEF Next, Fails, Custody!Next
  <2> QED
    BY <2>1, <2>2
<1> QED
  BY <1>1, <1>2, Invariance, PTL DEF Spec, ImplementsTokenCustody, Custody!Spec
============================================================================
