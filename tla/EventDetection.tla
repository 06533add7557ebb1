---------------------------- MODULE EventDetection ----------------------------
(***************************************************************************)
(* Which changes between two checks of one asset become events:            *)
(* detect_events (backend/app/services/events.py) as record_check calls    *)
(* it, over a whole history of checks.  Monitoring has the concurrent      *)
(* callers; here the checks of one asset follow one another.               *)
(*                                                                         *)
(* A check result keeps what blacklist_state, server_state, ssl_state and  *)
(* domain_expiry_days (services/health.py) read from it: of a certificate  *)
(* the days it had left when it was checked, of a registration the date on *)
(* which it expires.  None stands for a part with no usable answer: its    *)
(* toggle was off, it raised, it timed out, or its answer holds no date.   *)
(*                                                                         *)
(* Definitions named Wrong... are faulty variants of the definition that   *)
(* follows them, used only to test the properties.                         *)
(***************************************************************************)
EXTENDS Integers, FiniteSets

CONSTANTS
    None,      \* a missing value
    Lists,     \* the blacklists some release checks
    TooMany,   \* so many failed lists make a run inconclusive
    Days,      \* the days to expiry a certificate may show
    Dates,     \* the days, as numbers, on which a registration may expire
    LastDay,   \* bound: days are 0..LastDay
    Warnings,  \* the thresholds an administrator may choose; 0 is "off"
    Watched,   \* the parts of a check that are switched on
    Missing,   \* the ways an answer may be missing
    MayAdjust, \* TRUE: the thresholds may be changed between two checks
    MayUpgrade \* TRUE: a new release may check other lists

Parts == {"blacklist", "server", "ssl", "domain"}

ASSUME EventAssumption ==
    /\ TooMany \in Nat \ {0} /\ Days \subseteq Int /\ Warnings \subseteq Nat
    /\ Dates \subseteq Int /\ LastDay \in Nat
    /\ Watched \subseteq Parts
    /\ Missing \subseteq Parts \cup {"answers", "inconclusive"}
    /\ MayAdjust \in BOOLEAN /\ MayUpgrade \in BOOLEAN
    /\ IsFiniteSet(Lists)

\* A certificate that fails verification comes without its days.
Certificates ==
    [valid: {TRUE}, days: Days \cap Nat] \cup [valid: {FALSE}, days: {None}]

\* What any release may have stored.
StoredBlacklists ==
    [listed: SUBSET Lists, failed: SUBSET Lists, providers: SUBSET Lists]
StoredResults ==
    [blacklist: StoredBlacklists \cup {None}, server: {"up", "down", None},
     ssl: Certificates \cup {None}, domain: Dates \cup {None}]

ASSUME NoneAssumption ==
    /\ None \notin Int /\ None \notin {"up", "down"}
    /\ None \notin StoredBlacklists /\ None \notin Certificates
    /\ None \notin StoredResults

VARIABLES
    providers,    \* BASE_PROVIDERS of the release that runs
    warning,      \* ssl_expiry_warning_days, domain_expiry_warning_days
    today,        \* the day
    judged,       \* the thresholds the last check was judged by
    checked,      \* the day of the last check
    previous,     \* the result of the asset's current check, or None
    isBlacklisted,\* hostnames.is_blacklisted
    events,       \* the events the last check added to the log
    said          \* what the log, read as a whole, says of the asset

vars == <<providers, warning, today, judged, checked, previous, isBlacklisted,
          events, said>>

EventTypes == {"blacklist.listed", "blacklist.delisted", "blacklist.changed",
               "server.down", "server.up", "ssl.expiring", "ssl.invalid",
               "ssl.renewed", "domain.expiring"}

Event(type) == [type |-> type, lists |-> {}]

\* lists: the details of a blacklist event name the lists the asset is on.
ListEvent(type, on) == [type |-> type, lists |-> on]

-----------------------------------------------------------------------------
(* Check results. *)

\* is_inconclusive (services/dnsbl.py).
Inconclusive(b) == Cardinality(b.failed) >= TooMany
Conclusive(b)   == b # None /\ ~Inconclusive(b)

Blacklists ==
    {b \in [listed: SUBSET providers, failed: SUBSET providers,
            providers: {providers}] :
        /\ b.listed \cap b.failed = {}
        /\ IF Inconclusive(b) THEN "inconclusive" \in Missing
           ELSE b.failed # {} => "answers" \in Missing}

\* The answers a part of a check may give.
Answers(part, usable) ==
    IF part \notin Watched THEN {None}
    ELSE IF part \in Missing THEN usable \cup {None} ELSE usable

Results ==
    [blacklist: Answers("blacklist", Blacklists),
     server:    Answers("server", {"up", "down"}),
     ssl:       Answers("ssl", Certificates),
     domain:    Answers("domain", Dates)]

\* A part of the previous result; None without one.
Old(part) == IF previous = None THEN None ELSE previous[part]

-----------------------------------------------------------------------------
(* detect_events, one operator per part of the result. *)

\* Without "ignore it on both sides": a dropped list counts as a removal.
WrongListingEvents(b, is) ==
    LET old == IF Old("blacklist") = None THEN {} ELSE Old("blacklist").listed
        was == IF Old("blacklist") = None THEN isBlacklisted ELSE old # {}
    IN  IF b = None THEN {}
        ELSE CASE is /\ ~was -> {ListEvent("blacklist.listed", b.listed)}
               [] was /\ ~is -> {ListEvent("blacklist.delisted", {})}
               [] OTHER      -> {}

\* Only the status is compared, not the lists behind it.
WrongListingDetails(b, is) ==
    IF b = None \/ is = isBlacklisted THEN {}
    ELSE {ListEvent(IF is THEN "blacklist.listed" ELSE "blacklist.delisted", b.listed)}

\* Every check that finds a listing reports it.
WrongListingRepeats(b, is) ==
    IF b = None \/ ~is THEN {} ELSE {ListEvent("blacklist.listed", b.listed)}

\* is: is_blacklisted after this check.  A list that is no longer checked is
\* ignored on both sides.
ListingEvents(b, is) ==
    LET hadOld  == Old("blacklist") # None
        old     == IF hadOld THEN Old("blacklist").listed \cap b.providers ELSE {}
        was     == IF hadOld THEN old # {} ELSE isBlacklisted
        changed == hadOld /\ b.listed # old
    IN  IF ~Conclusive(b) THEN {}
        ELSE CASE is /\ ~was           -> {ListEvent("blacklist.listed", b.listed)}
               [] was /\ ~is           -> {ListEvent("blacklist.delisted", {})}
               [] is /\ was /\ changed ->
                    {ListEvent(IF b.listed \subseteq old THEN "blacklist.changed"
                               ELSE "blacklist.listed", b.listed)}
               [] OTHER                -> {}

\* The last answer of an asset never checked counts as "down".
WrongServerEvents(s) ==
    CASE s = "down" /\ Old("server") = "up" -> {Event("server.down")}
      [] s = "up" /\ Old("server") = "down" -> {Event("server.up")}
      [] OTHER                              -> {}

\* Every check that finds the server down reports it.
WrongServerRepeats(s) ==
    CASE s = "down"                         -> {Event("server.down")}
      [] s = "up" /\ Old("server") = "down" -> {Event("server.up")}
      [] OTHER                              -> {}

\* Without an earlier answer the server counts as up until then.
ServerEvents(s) ==
    CASE s = "down" /\ Old("server") # "down" -> {Event("server.down")}
      [] s = "up" /\ Old("server") = "down"   -> {Event("server.up")}
      [] OTHER                                -> {}

ExpiringWithin(cert, days) ==
    /\ cert # None
    /\ cert.valid /\ days # 0 /\ cert.days <= days
Expiring(cert) == ExpiringWithin(cert, warning.ssl)

\* Only an invalid certificate can be renewed.
WrongCertificateEvents(cert) ==
    LET old == Old("ssl")
        wasValid == old # None => old.valid
    IN  IF cert = None THEN {}
        ELSE CASE ~cert.valid /\ wasValid          -> {Event("ssl.invalid")}
               [] Expiring(cert) /\ ~Expiring(old) -> {Event("ssl.expiring")}
               [] cert.valid /\ ~wasValid          -> {Event("ssl.renewed")}
               [] OTHER                            -> {}

CertificateEvents(cert) ==
    LET old      == Old("ssl")
        hadOld   == old # None
        wasValid == hadOld => old.valid
        wasPoor  == ~wasValid \/ Expiring(old)
    IN  IF cert = None THEN {}
        ELSE CASE ~cert.valid /\ wasValid            -> {Event("ssl.invalid")}
               [] Expiring(cert) /\ ~Expiring(old)   -> {Event("ssl.expiring")}
               [] cert.valid /\ ~Expiring(cert) /\ hadOld /\ wasPoor ->
                    {Event("ssl.renewed")}
               [] OTHER                              -> {}

\* domain_expiry_days, as detect_events calls it for both results: counted from
\* now, also for the earlier result.
DaysLeft(date) == date - today

DomainEvents(date) ==
    IF /\ date # None /\ warning.domain # 0
       /\ DaysLeft(date) <= warning.domain
       /\ Old("domain") # None => DaysLeft(Old("domain")) > warning.domain
    THEN {Event("domain.expiring")} ELSE {}

-----------------------------------------------------------------------------
(* What the log says. *)

NothingSaid == [lists |-> {}, down |-> FALSE, ssl |-> "fine", domain |-> FALSE]

TypesIn(evs) == {e.type : e \in evs}

\* The lists the log says the asset is on: those of the last blacklist event,
\* without the ones a later release no longer checked.
SaidLists(evs, b) ==
    LET news == {e \in evs : e.type \in {"blacklist.listed", "blacklist.delisted",
                                         "blacklist.changed"}}
        on == IF news = {} THEN said.lists ELSE UNION {e.lists : e \in news}
    IN  IF Conclusive(b) THEN on \cap b.providers ELSE on

SaidSsl(evs) ==
    CASE "ssl.invalid" \in TypesIn(evs)  -> "invalid"
      [] "ssl.expiring" \in TypesIn(evs) -> "expiring"
      [] "ssl.renewed" \in TypesIn(evs)  -> "fine"
      [] OTHER                           -> said.ssl

\* Nothing reports that a domain was renewed: a warning stands until a check
\* finds more days than the threshold.
SaidAfter(evs, r) ==
    [lists  |-> SaidLists(evs, r.blacklist),
     down   |-> (said.down /\ "server.up" \notin TypesIn(evs)) \/ "server.down" \in TypesIn(evs),
     ssl    |-> SaidSsl(evs),
     domain |-> \/ "domain.expiring" \in TypesIn(evs)
                \/ said.domain /\ (r.domain # None => DaysLeft(r.domain) <= warning.domain)]

-----------------------------------------------------------------------------

Init ==
    /\ providers \in (SUBSET Lists) \ {{}}
    /\ ~MayUpgrade => providers = Lists
    /\ warning \in [ssl: Warnings, domain: Warnings]
    /\ today = 0
    /\ judged = warning
    /\ checked = 0
    /\ previous = None
    /\ isBlacklisted = FALSE
    /\ events = {}
    /\ said = NothingSaid

\* record_check: errored or inconclusive runs keep the previous status.
Status(b) == IF Conclusive(b) THEN b.listed # {} ELSE isBlacklisted

\* One check of the asset is recorded.
Record(r) ==
    /\ isBlacklisted' = Status(r.blacklist)
    /\ events' = ListingEvents(r.blacklist, Status(r.blacklist))
                   \cup ServerEvents(r.server)
                   \cup CertificateEvents(r.ssl) \cup DomainEvents(r.domain)
    /\ said' = SaidAfter(events', r)
    /\ previous' = r
    /\ judged' = warning
    /\ checked' = today
    /\ UNCHANGED <<providers, warning, today>>

\* update_notification_settings.
Adjust(w) ==
    /\ MayAdjust
    /\ warning' = w
    /\ events' = {}
    /\ UNCHANGED <<providers, today, judged, checked, previous, isBlacklisted, said>>

\* A release with another DNSBL_LISTS is installed.
Upgrade(lists) ==
    /\ MayUpgrade
    /\ providers' = lists
    /\ events' = {}
    /\ UNCHANGED <<warning, today, judged, checked, previous, isBlacklisted, said>>

\* A day passes without a check.
NextDay ==
    /\ today < LastDay
    /\ today' = today + 1
    /\ events' = {}
    /\ UNCHANGED <<providers, warning, judged, checked, previous, isBlacklisted, said>>

Next ==
    \/ \E r \in Results : Record(r)
    \/ \E w \in [ssl: Warnings, domain: Warnings] : Adjust(w)
    \/ \E lists \in (SUBSET Lists) \ {{}} : Upgrade(lists)
    \/ NextDay

Spec == Init /\ [][Next]_vars

-----------------------------------------------------------------------------
(* Safety.  ...Reported: of each part of a check, that the log, read        *)
(* from its first entry to its last, says what the last check found.        *)

TypeOK ==
    /\ providers \in (SUBSET Lists) \ {{}}
    /\ warning \in [ssl: Warnings, domain: Warnings]
    /\ judged \in [ssl: Warnings, domain: Warnings]
    /\ today \in 0..LastDay /\ checked \in 0..LastDay
    /\ previous \in StoredResults \cup {None}
    /\ isBlacklisted \in BOOLEAN
    /\ \A e \in events : e.type \in EventTypes /\ e.lists \subseteq Lists
    /\ said.lists \subseteq Lists /\ said.down \in BOOLEAN /\ said.domain \in BOOLEAN
    /\ said.ssl \in {"fine", "expiring", "invalid"}

\* The lists the log names are the lists the asset was last found on, however
\* listings and delistings of several lists and changes of the lists checked
\* follow one another.
ListingsAreReported ==
    previous # None /\ "blacklist" \in Watched =>
        /\ previous.blacklist # None => said.lists = previous.blacklist.listed
        /\ isBlacklisted <=> said.lists # {}

\* The log says "down" exactly while the server does not respond.
OutagesAreReported ==
    previous # None /\ previous.server # None =>
        (said.down <=> previous.server = "down")

\* The log says of the certificate what is true of it: invalid, close to
\* expiry under the threshold in force at the last check, or neither.
CertificatesAreReported ==
    previous # None /\ previous.ssl # None =>
        said.ssl = CASE ~previous.ssl.valid   -> "invalid"
                     [] ExpiringWithin(previous.ssl, judged.ssl) -> "expiring"
                     [] OTHER                -> "fine"

\* A warning about the domain stands exactly while its registration, as the last
\* check found it, is within the threshold of expiry ("Domain registration is
\* close to expiry").  It does not hold: the code never sees a date come closer.
DomainsAreReported ==
    previous # None /\ previous.domain # None =>
        (said.domain <=> judged.domain # 0 /\ previous.domain - checked <= judged.domain)

\* A delisting is reported only when a list the log says the asset is on
\* answered that it no longer is ("A list AbuseBox no longer checks ... hasn't
\* delisted the asset").
DelistingsAreReal ==
    [][\A e \in events' : e.type = "blacklist.delisted" =>
         \E l \in said.lists : /\ l \in previous'.blacklist.providers
                               /\ l \notin previous'.blacklist.failed
                               /\ l \notin previous'.blacklist.listed]_vars

\* "Newly listed" is reported only for a listing the log does not tell of yet.
OnlyNewListingsAreReported ==
    [][\A e \in events' : e.type = "blacklist.listed" =>
         ~ (e.lists \subseteq said.lists)]_vars

\* A long outage, an invalid or expiring certificate or a domain about to expire
\* produces one event instead of one per check, whatever days pass and however
\* the certificate or the registration is renewed.  (A part that has no answer
\* in between is told again: README, section 5.)
ReportedOnce ==
    [][LET new == TypesIn(events')
       IN  /\ "server.down" \in new => ~said.down
           /\ "ssl.invalid" \in new => said.ssl # "invalid"
           /\ "ssl.expiring" \in new => said.ssl # "expiring"
           /\ "domain.expiring" \in new => ~said.domain]_vars
=============================================================================
