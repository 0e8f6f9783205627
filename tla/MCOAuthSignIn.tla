--------------------------- MODULE MCOAuthSignIn ---------------------------
(* A small instance of OAuthSignIn for TLC. *)
EXTENDS OAuthSignIn, TLC

CONSTANTS microsoft, google, a1, a2, a3, f1, r1, r2

\* One Microsoft mailbox to reconnect; a2 and a3 are free for new ones.
OneMailbox == (a1 :> microsoft) @@ (a2 :> None) @@ (a3 :> None)
============================================================================
