--------------------------- MODULE MCEventDetection ---------------------------
(***************************************************************************)
(* EventDetection for TLC, with the days around a threshold of seven: a    *)
(* registration that expires on day 7, 8 or 0 has that many days left on   *)
(* day 0, and one less on day 1.                                           *)
(* A behaviour looks at one of two things, so that they need not be        *)
(* multiplied: several lists that come and go, with thresholds and         *)
(* releases that change; or all parts of a check around one list, whose    *)
(* check may also error.                                                   *)
(***************************************************************************)
EXTENDS EventDetection

DaysToExpiry == {-1, 6, 7, 8}
ExpiryDates  == {0, 7, 8}

VARIABLE focus

Listings ==
    {[blacklist |-> b, server |-> None, ssl |-> None, domain |-> None] : b \in Blacklists}

MCInit ==
    /\ Init
    /\ focus \in {"lists", "parts"}
    /\ focus = "parts" => Cardinality(providers) = 1

MCNext ==
    /\ UNCHANGED focus
    /\ \/ focus = "lists" /\ \E r \in Listings : Record(r)
       \/ focus = "parts" /\ \E r \in Results : Record(r)
       \/ focus = "lists" /\ \E w \in [ssl: Warnings, domain: Warnings] : Adjust(w)
       \/ focus = "lists" /\ \E lists \in (SUBSET Lists) \ {{}} : Upgrade(lists)
       \/ focus = "parts" /\ NextDay

MCSpec == MCInit /\ [][MCNext]_<<vars, focus>>
=============================================================================
