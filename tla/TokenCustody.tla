---------------------------- MODULE TokenCustody ----------------------------
(***************************************************************************)
(* What the sign-in promises about the tokens that a provider gives out    *)
(* for a flow, with no word of dialogs, polls, threads or dictionaries:    *)
(*   - they are obtained once, for a flow that the provider has issued;    *)
(*   - from then on the backend holds them, until it stores them or loses  *)
(*     them, and what it does not hold any more never comes back;          *)
(*   - they are stored in one mailbox, once: a new one, which is of their  *)
(*     provider, or one of their provider that has not been deleted.       *)
(* OAuthSignIn implements this with threads that find the tokens in a      *)
(* dictionary, take them out and store them in three steps.                *)
(***************************************************************************)
CONSTANTS Providers, Flows, Accounts, InitialAuth, None

VARIABLES
    issuer,       \* issuer[f]: the provider of flow f, or None
    obtained,     \* flows whose tokens the provider has given out
    held,         \* flows whose tokens the backend has and has not stored
    auth,         \* auth[a]: the provider of mailbox a, None before it is created
    token,        \* token[a]: the flow whose tokens are stored in a, or None
    deleted       \* deleted mailboxes

mailboxVars == <<auth, token, deleted>>
vars == <<issuer, obtained, held, mailboxVars>>

Init ==
    /\ issuer = [f \in Flows |-> None]
    /\ obtained = {} /\ held = {}
    /\ auth = InitialAuth
    /\ token = [a \in Accounts |-> None]
    /\ deleted = {}

\* A flow is issued; a backend that starts one purges its dictionaries.
Start(f, p) ==
    /\ issuer[f] = None
    /\ issuer' = [issuer EXCEPT ![f] = p]
    /\ held' \subseteq held
    /\ UNCHANGED <<obtained, mailboxVars>>

\* The provider gives out the tokens of a flow; its answer may be lost.
Obtain(f) ==
    /\ issuer[f] # None /\ f \notin obtained
    /\ obtained' = obtained \cup {f}
    /\ held' = held \/ held' = held \cup {f}
    /\ UNCHANGED <<issuer, mailboxVars>>

\* Held tokens pass their deadline, or are gone with a process or an exception.
Lose ==
    /\ held' \subseteq held
    /\ UNCHANGED <<issuer, obtained, mailboxVars>>

\* The tokens go to a mailbox, and to no other ever after.
Store(f, a) ==
    /\ f \in held
    /\ held' = held \ {f}
    /\ token' = [token EXCEPT ![a] = f]
    /\ \/ auth[a] = None /\ auth' = [auth EXCEPT ![a] = issuer[f]]
       \/ auth[a] = issuer[f] /\ a \notin deleted /\ UNCHANGED auth
    /\ UNCHANGED <<issuer, obtained, deleted>>

Delete(a) ==
    /\ a \notin deleted
    /\ deleted' = deleted \cup {a}
    /\ UNCHANGED <<issuer, obtained, held, auth, token>>

Next ==
    \/ \E f \in Flows, p \in Providers : Start(f, p)
    \/ \E f \in Flows : Obtain(f)
    \/ Lose
    \/ \E f \in Flows, a \in Accounts : Store(f, a)
    \/ \E a \in Accounts : Delete(a)

Spec == Init /\ [][Next]_vars

=============================================================================
