---------------------------- MODULE ImportedMail ----------------------------
(***************************************************************************)
(* What the mail import promises to somebody who reads the tables, with no *)
(* word of mailboxes, watermarks, sessions or failures.  Mails are entered *)
(* by imports, each for one user:                                          *)
(*   - a mail is entered once, and wholly: with its email row come its     *)
(*     order and a shipment for each of its tracking numbers;              *)
(*   - nothing else is entered: an order or a shipment stems from a mail   *)
(*     of the same import, a mail is at most one order, and one import     *)
(*     makes neither two orders of one number nor two equal shipments;     *)
(*   - what is there stays, except that an order of the user is moved to   *)
(*     SHIPPED by a mail with a tracking number of it;                     *)
(*   - the rows of other users are not touched.                            *)
(* EmailIngestion implements this with concurrent syncs that see each      *)
(* other's commits between any two of their statements.                    *)
(***************************************************************************)
CONSTANTS Users, Content, None

VARIABLES emails, orders, shipments

vars == <<emails, orders, shipments>>

Init == emails = {} /\ orders = {} /\ shipments = {}

\* o is an order that mail m is about.
About(m, o) ==
    IF Content[m].number = None THEN o.id = m ELSE o.number = Content[m].number

\* Mail m is in the tables as an order of u with its shipments.
Entered(m, u) ==
    \E o \in orders :
        /\ o.user = u /\ About(m, o)
        /\ Content[m].trks # {} => o.status = "SHIPPED"
        /\ \A t \in Content[m].trks : \E r \in shipments : r.order = o.id /\ r.trk = t

\* An order of u before and after an import of the mails M.
Advanced(o, p, u, M) ==
    \/ p = o
    \/ /\ o.user = u /\ p = [o EXCEPT !.status = "SHIPPED"]
       /\ \E m \in M : Content[m].trks # {} /\ About(m, o)

\* An order that the mails M of u tell of for the first time.
NewOrder(p, u, M) ==
    /\ p.id \in M /\ Content[p.id].kind # "other"
    /\ p.user = u /\ p.number = Content[p.id].number

NewShipment(r, u, M) ==
    /\ r.by \in M /\ r.trk \in Content[r.by].trks
    /\ \E o \in orders' : o.id = r.order /\ o.user = u /\ About(r.by, o)

\* The mails M of user u are imported.
Import(u, M) ==
    /\ emails' = emails \cup M
    /\ \A m \in M : Content[m].kind # "other" => Entered(m, u)'
    /\ \A o \in orders : \E p \in orders' : Advanced(o, p, u, M)
    /\ \A p \in orders' : \/ \E o \in orders : Advanced(o, p, u, M)
                          \/ NewOrder(p, u, M)
    /\ \A p, q \in orders' :
         \/ p = q
         \/ /\ p.id # q.id
            /\ {p.id, q.id} \subseteq M => p.number = None \/ p.number # q.number
    /\ shipments \subseteq shipments'
    /\ \A r \in shipments' \ shipments : NewShipment(r, u, M)
    /\ \A q, r \in shipments' \ shipments : q.order = r.order /\ q.trk = r.trk => q = r

\* ... which were not imported before.
Next == \E u \in Users : Import(u, emails' \ emails)

Spec == Init /\ [][Next]_vars

=============================================================================
