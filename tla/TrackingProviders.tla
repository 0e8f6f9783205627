------------------------- MODULE TrackingProviders -------------------------
(***************************************************************************)
(* How the tracking providers' words become the status strings of the      *)
(* application: one table per provider, looked up without regard to case   *)
(* (the words here are in lower case), and for 17TRACK, which sends only   *)
(* prose, the first keyword the text contains.                             *)
(*                                                                         *)
(* A text is named by the keyword it was written around; a text around a   *)
(* keyword contains every keyword that is a part of that one.  The spaces  *)
(* of keywords are written as underscores.                                 *)
(***************************************************************************)
EXTENDS Integers, Sequences

\* aftership.py
_TAG_MAP ==
    [pending |-> "label_created", inforeceived |-> "label_created",
     intransit |-> "in_transit", outfordelivery |-> "out_for_delivery",
     attemptfail |-> "exception", delivered |-> "delivered",
     exception |-> "exception", expired |-> "exception"]

\* ship24.py
_MILESTONE_MAP ==
    [info_received |-> "label_created", in_transit |-> "in_transit",
     out_for_delivery |-> "out_for_delivery", failed_attempt |-> "exception",
     delivered |-> "delivered", exception |-> "exception", expired |-> "exception"]

\* trackingmore.py
_STATUS_MAP ==
    [pending |-> "label_created", notfound |-> "label_created",
     transit |-> "in_transit", pickup |-> "out_for_delivery",
     delivered |-> "delivered", undelivered |-> "exception",
     exception |-> "exception", expired |-> "exception"]

\* The table of a provider, with its default.
Get(map, word) == IF word \in DOMAIN map THEN map[word] ELSE "in_transit"

\* _status_mapping.py: keywords and statuses, in the order they are tried.
_KEYWORDS ==
    << <<"out_for_delivery", "out_for_delivery">>, <<"delivered", "delivered">>,
       <<"failed", "exception">>, <<"exception", "exception">>,
       <<"undelivered", "exception">>, <<"returned", "returned">>,
       <<"return_to_sender", "returned">>, <<"pickup", "label_created">>,
       <<"info_received", "label_created">>, <<"label_created", "label_created">> >>

\* "keyword in lowered"
Contains(word, keyword) ==
    word = keyword \/ (word = "undelivered" /\ keyword = "delivered")

\* The first keyword found decides; no text, or none of them, is in_transit.
infer_status_from_text(word) ==
    LET Hits == {i \in DOMAIN _KEYWORDS : Contains(word, _KEYWORDS[i][1])} IN
    IF Hits = {} THEN "in_transit"
    ELSE LET first == CHOOSE i \in Hits : \A j \in Hits : i <= j
         IN  _KEYWORDS[first][2]

\* Mutant: exceptions are taken for delays.
ProviderStatusDelayed(q, word) ==
    IF word = "exception" THEN "delayed" ELSE infer_status_from_text(word)

\* The status of a TrackingProviderEvent: factory.py's choice of a provider,
\* and the _events_from_response of that provider.
ProviderStatus(q, word) ==
    CASE q = "aftership" -> Get(_TAG_MAP, word)
      [] q = "ship24" -> Get(_MILESTONE_MAP, word)
      [] q = "trackingmore" -> Get(_STATUS_MAP, word)
      [] OTHER -> infer_status_from_text(word)

=============================================================================
