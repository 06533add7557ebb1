------------------------- MODULE EventDetectionProofs -------------------------
(***************************************************************************)
(* What is proved of EventDetection for any lists, days and thresholds and *)
(* histories of any length: that the log, read as a whole, says of lists,  *)
(* server and certificate what the last check found, and tells nothing     *)
(* twice.  Each theorem assumes only that the part it is about always has  *)
(* an answer, and where it matters that thresholds stay the same; without  *)
(* that it is false (README, section 5).                                   *)
(***************************************************************************)
EXTENDS EventDetection, TLAPS

-----------------------------------------------------------------------------
(* Which events a check adds.  The events of one part have types that no   *)
(* other part uses.                                                        *)

ListingTypes == {"blacklist.listed", "blacklist.delisted", "blacklist.changed"}
ServerTypes  == {"server.down", "server.up"}
SslTypes     == {"ssl.invalid", "ssl.expiring", "ssl.renewed"}

LEMMA PartsOfTheLog ==
    ASSUME NEW r, NEW is
    PROVE  /\ \A e \in ListingEvents(r.blacklist, is) : e.type \in ListingTypes
           /\ \A e \in ServerEvents(r.server) : e.type \in ServerTypes
           /\ \A e \in CertificateEvents(r.ssl) : e.type \in SslTypes
           /\ \A e \in DomainEvents(r.domain) : e.type = "domain.expiring"
<1>1. \A e \in ListingEvents(r.blacklist, is) : e.type \in ListingTypes
  BY DEF ListingEvents, ListEvent, ListingTypes
<1>2. \A e \in ServerEvents(r.server) : e.type \in ServerTypes
  BY DEF ServerEvents, Event, ServerTypes
<1>3. \A e \in CertificateEvents(r.ssl) : e.type \in SslTypes
  BY DEF CertificateEvents, Event, SslTypes
<1>4. \A e \in DomainEvents(r.domain) : e.type = "domain.expiring"
  BY DEF DomainEvents, Event
<1>5. QED
  BY <1>1, <1>2, <1>3, <1>4

LEMMA TypesInTheLog ==
    ASSUME NEW r, Record(r)
    PROVE  /\ {e \in events' : e.type \in ListingTypes}
                = ListingEvents(r.blacklist, Status(r.blacklist))
           /\ \A type \in ServerTypes :
                type \in TypesIn(events') <=> type \in TypesIn(ServerEvents(r.server))
           /\ \A type \in SslTypes :
                type \in TypesIn(events') <=> type \in TypesIn(CertificateEvents(r.ssl))
           /\ "domain.expiring" \in TypesIn(events') <=> DomainEvents(r.domain) # {}
<1> DEFINE listing == ListingEvents(r.blacklist, Status(r.blacklist))
           server  == ServerEvents(r.server)
           cert    == CertificateEvents(r.ssl)
           domain  == DomainEvents(r.domain)
<1>1. events' = listing \cup server \cup cert \cup domain
  BY DEF Record
<1>2. /\ \A e \in listing : e.type \in ListingTypes
      /\ \A e \in server : e.type \in ServerTypes
      /\ \A e \in cert : e.type \in SslTypes
      /\ \A e \in domain : e.type = "domain.expiring"
  BY PartsOfTheLog
<1> HIDE DEF listing, server, cert, domain
<1>3. {e \in events' : e.type \in ListingTypes} = listing
  BY <1>1, <1>2 DEF ListingTypes, ServerTypes, SslTypes
<1>4. \A type \in ServerTypes : type \in TypesIn(events') <=> type \in TypesIn(server)
  BY <1>1, <1>2 DEF ListingTypes, ServerTypes, SslTypes, TypesIn
<1>5. \A type \in SslTypes : type \in TypesIn(events') <=> type \in TypesIn(cert)
  BY <1>1, <1>2 DEF ListingTypes, ServerTypes, SslTypes, TypesIn
<1>6. "domain.expiring" \in TypesIn(events') <=> domain # {}
  BY <1>1, <1>2 DEF ListingTypes, ServerTypes, SslTypes, TypesIn
<1>7. QED
  BY <1>3, <1>4, <1>5, <1>6 DEF listing, server, cert, domain

-----------------------------------------------------------------------------
(* Types. *)

LEMMA ResultsAreStored ==
    ASSUME providers \subseteq Lists
    PROVE  Results \subseteq StoredResults
<1> SUFFICES ASSUME NEW r \in Results PROVE r \in StoredResults
  OBVIOUS
<1>1. Blacklists \subseteq StoredBlacklists
  BY DEF Blacklists, StoredBlacklists
<1>2. r.blacklist \in StoredBlacklists \cup {None}
  BY <1>1 DEF Results, Answers
<1>3. r.server \in {"up", "down", None}
  BY DEF Results, Answers
<1>4. r.ssl \in Certificates \cup {None}
  BY DEF Results, Answers
<1>5. r.domain \in Dates \cup {None}
  BY DEF Results, Answers
<1>6. r = [blacklist |-> r.blacklist, server |-> r.server, ssl |-> r.ssl,
           domain |-> r.domain]
  BY DEF Results
<1>7. QED
  BY <1>2, <1>3, <1>4, <1>5, <1>6 DEF StoredResults

LEMMA EventsAreTyped ==
    ASSUME TypeOK, NEW r \in Results, NEW is
    PROVE  \A e \in ListingEvents(r.blacklist, is) \cup ServerEvents(r.server)
                      \cup CertificateEvents(r.ssl) \cup DomainEvents(r.domain) :
             e.type \in EventTypes /\ e.lists \subseteq Lists
<1>1. r.blacklist # None => r.blacklist.listed \subseteq Lists
  BY ResultsAreStored DEF TypeOK, StoredResults, StoredBlacklists
<1>2. \A e \in ListingEvents(r.blacklist, is) : e.type \in EventTypes /\ e.lists \subseteq Lists
  BY <1>1 DEF ListingEvents, ListEvent, EventTypes, Conclusive
<1>3. \A e \in ServerEvents(r.server) : e.type \in EventTypes /\ e.lists \subseteq Lists
  BY DEF ServerEvents, Event, EventTypes
<1>4. \A e \in CertificateEvents(r.ssl) : e.type \in EventTypes /\ e.lists \subseteq Lists
  BY DEF CertificateEvents, Event, EventTypes
<1>5. \A e \in DomainEvents(r.domain) : e.type \in EventTypes /\ e.lists \subseteq Lists
  BY DEF DomainEvents, Event, EventTypes
<1>6. QED
  BY <1>2, <1>3, <1>4, <1>5

\* Results, events and the log are always well formed; an event has one of the
\* types that EVENT_TYPES names.
THEOREM TypeCorrect == Spec => []TypeOK
<1>1. Init => TypeOK
  <2> SUFFICES ASSUME Init PROVE TypeOK
    OBVIOUS
  <2>1. /\ said = [lists |-> {}, down |-> FALSE, ssl |-> "fine", domain |-> FALSE]
        /\ events = {} /\ previous = None /\ isBlacklisted = FALSE
        /\ judged = warning /\ warning \in [ssl: Warnings, domain: Warnings]
        /\ today = 0 /\ checked = 0
        /\ providers \in (SUBSET Lists) \ {{}}
    BY DEF Init, NothingSaid
  <2>2. 0 \in 0..LastDay
    BY EventAssumption DEF EventAssumption
  <2>3. QED
    BY <2>1, <2>2 DEF TypeOK
<1>2. TypeOK /\ [Next]_vars => TypeOK'
  <2> SUFFICES ASSUME TypeOK, [Next]_vars PROVE TypeOK'
    OBVIOUS
  <2>1. ASSUME NEW r \in Results, Record(r) PROVE TypeOK'
    <3>1. r \in StoredResults
      BY ResultsAreStored DEF TypeOK
    <3>2. isBlacklisted' \in BOOLEAN
      BY <2>1 DEF Record, Status, TypeOK
    <3>3. \A e \in events' : e.type \in EventTypes /\ e.lists \subseteq Lists
      BY <2>1, EventsAreTyped DEF Record
    <3>4. said'.lists \subseteq Lists
      <4>1. said'.lists = SaidLists(events', r.blacklist)
        BY <2>1 DEF Record, SaidAfter
      <4>2. UNION {e.lists : e \in {x \in events' : x.type \in ListingTypes}} \subseteq Lists
        BY <3>3
      <4>3. QED
        BY <4>1, <4>2 DEF SaidLists, TypeOK, ListingTypes
    <3>5. /\ said'.down \in BOOLEAN /\ said'.domain \in BOOLEAN
          /\ said'.ssl \in {"fine", "expiring", "invalid"}
      BY <2>1 DEF Record, SaidAfter, SaidSsl, TypeOK
    <3>6. QED
      BY <2>1, <3>1, <3>2, <3>3, <3>4, <3>5 DEF Record, TypeOK
  <2>2. ASSUME NEW w \in [ssl: Warnings, domain: Warnings], Adjust(w) PROVE TypeOK'
    BY <2>2 DEF Adjust, TypeOK
  <2>3. ASSUME NEW lists \in (SUBSET Lists) \ {{}}, Upgrade(lists) PROVE TypeOK'
    BY <2>3 DEF Upgrade, TypeOK
  <2>4. ASSUME NextDay PROVE TypeOK'
    <3>1. today' \in 0..LastDay
      BY <2>4, EventAssumption DEF NextDay, TypeOK, EventAssumption
    <3>2. QED
      BY <2>4, <3>1 DEF NextDay, TypeOK
  <2>5. CASE UNCHANGED vars
    BY <2>5 DEF vars, TypeOK
  <2>6. QED
    BY <2>1, <2>2, <2>3, <2>4, <2>5 DEF Next
<1>3. QED
  BY <1>1, <1>2, PTL DEF Spec

LEMMA NewResult ==
    ASSUME TypeOK, NEW r \in Results, Record(r)
    PROVE  /\ previous' = r /\ r # None /\ r \in StoredResults
           /\ providers' = providers /\ warning' = warning /\ judged' = warning
           /\ \A part \in Parts :
                Old(part) = IF previous = None THEN None ELSE previous[part]
  BY ResultsAreStored, NoneAssumption DEF Record, TypeOK, Old, NoneAssumption

-----------------------------------------------------------------------------
(* The server. *)

ServerInv ==
    IF previous = None THEN ~said.down
    ELSE /\ previous.server \in {"up", "down"}
         /\ said.down = (previous.server = "down")

LEMMA ServerInvHolds ==
    ASSUME "server" \in Watched, "server" \notin Missing
    PROVE  Spec => []ServerInv
<1>1. Init => ServerInv
  BY DEF Init, ServerInv, NothingSaid
<1>2. TypeOK /\ ServerInv /\ [Next]_vars => ServerInv'
  <2> SUFFICES ASSUME TypeOK, ServerInv, [Next]_vars PROVE ServerInv'
    OBVIOUS
  <2>1. ASSUME NEW r \in Results, Record(r) PROVE ServerInv'
    <3>1. r.server \in {"up", "down"} /\ previous' = r /\ r # None
      BY <2>1, NewResult DEF Results, Answers
    <3>2. /\ "server.up" \in TypesIn(events') <=> r.server = "up" /\ Old("server") = "down"
          /\ "server.down" \in TypesIn(events') <=> r.server = "down" /\ Old("server") # "down"
      BY <2>1, <3>1, TypesInTheLog DEF ServerTypes, TypesIn, ServerEvents, Event
    <3>3. said'.down = (\/ said.down /\ "server.up" \notin TypesIn(events')
                        \/ "server.down" \in TypesIn(events'))
      BY <2>1 DEF Record, SaidAfter
    <3>4. Old("server") = IF previous = None THEN None ELSE previous.server
      BY DEF Old
    <3>5. QED
      BY <3>1, <3>2, <3>3, <3>4, NoneAssumption DEF ServerInv, NoneAssumption
  <2>2. CASE UNCHANGED <<previous, said>>
    BY <2>2 DEF ServerInv
  <2>3. QED
    BY <2>1, <2>2 DEF Next, Adjust, Upgrade, NextDay, vars
<1>3. QED
  BY <1>1, <1>2, TypeCorrect, PTL DEF Spec

\* The log says "down" exactly while the server does not respond, if every
\* check of the server answers (detect_events, "server.down" and "server.up").
THEOREM LogTellsOutages ==
    ASSUME "server" \in Watched, "server" \notin Missing
    PROVE  Spec => []OutagesAreReported
<1>1. ServerInv => OutagesAreReported
  BY DEF ServerInv, OutagesAreReported
<1>2. QED
  BY <1>1, ServerInvHolds, PTL

-----------------------------------------------------------------------------
(* The domain: a warning that stands is about a date within the threshold,  *)
(* and stays so as days pass, for both dates are counted from now.          *)

LEMMA DaysAreNumbers ==
    ASSUME TypeOK
    PROVE  /\ warning.domain \in Int /\ today \in Int /\ Dates \subseteq Int
           /\ None \notin Dates
<1>1. warning.domain \in Warnings
  BY DEF TypeOK
<1>2. Warnings \subseteq Nat /\ Dates \subseteq Int /\ None \notin Int
  BY EventAssumption, NoneAssumption DEF EventAssumption, NoneAssumption
<1>3. today \in Int
  BY EventAssumption DEF TypeOK, EventAssumption
<1>4. warning.domain \in Nat
  BY <1>1, <1>2
<1>5. warning.domain \in Int
  BY <1>4
<1>6. None \notin Dates
  BY <1>2
<1>7. QED
  BY <1>2, <1>3, <1>5, <1>6

WarnedInv ==
    /\ previous # None => previous.domain \in Dates
    /\ said.domain => /\ previous # None
                      /\ DaysLeft(previous.domain) <= warning.domain

LEMMA WarnedInvHolds ==
    ASSUME "domain" \in Watched, "domain" \notin Missing, ~MayAdjust
    PROVE  Spec => []WarnedInv
<1>1. Init => WarnedInv
  BY DEF Init, WarnedInv, NothingSaid
<1>2. TypeOK /\ WarnedInv /\ [Next]_vars => WarnedInv'
  <2> SUFFICES ASSUME TypeOK, WarnedInv, [Next]_vars PROVE WarnedInv'
    OBVIOUS
  <2>1. ASSUME NEW r \in Results, Record(r) PROVE WarnedInv'
    <3>1. r.domain \in Dates /\ r.domain # None
      BY DaysAreNumbers DEF Results, Answers
    <3>2. previous' = r /\ r # None /\ warning' = warning /\ today' = today
      BY <2>1, NewResult DEF Record
    <3>3. said'.domain => \/ "domain.expiring" \in TypesIn(events')
                          \/ DaysLeft(r.domain) <= warning.domain
      BY <2>1, <3>1 DEF Record, SaidAfter
    <3>4. "domain.expiring" \in TypesIn(events') => DaysLeft(r.domain) <= warning.domain
      BY <2>1, TypesInTheLog DEF DomainEvents
    <3>5. QED
      BY <3>1, <3>2, <3>3, <3>4 DEF WarnedInv, DaysLeft
  <2>2. ASSUME NextDay PROVE WarnedInv'
    <3>1. /\ today' = today + 1 /\ warning' = warning /\ previous' = previous
          /\ said' = said
      BY <2>2 DEF NextDay
    <3>2. ASSUME NEW date \in Dates, date - today <= warning.domain
          PROVE  date - (today + 1) <= warning.domain
      <4>1. date \in Int /\ today \in Int /\ warning.domain \in Int
        BY DaysAreNumbers
      <4>2. QED
        BY <3>2, <4>1
    <3>3. QED
      BY <3>1, <3>2 DEF WarnedInv, DaysLeft
  <2>3. CASE UNCHANGED <<warning, today, previous, said>>
    BY <2>3 DEF WarnedInv, DaysLeft
  <2>4. QED
    BY <2>1, <2>2, <2>3 DEF Next, Adjust, Upgrade, vars
<1>3. QED
  BY <1>1, <1>2, TypeCorrect, PTL DEF Spec

-----------------------------------------------------------------------------
(* The certificate. *)

Verdict(cert, days) ==
    CASE ~cert.valid                -> "invalid"
      [] ExpiringWithin(cert, days) -> "expiring"
      [] OTHER                      -> "fine"

CertificateInv ==
    /\ judged = warning
    /\ IF previous = None THEN said.ssl = "fine"
       ELSE /\ previous.ssl \in Certificates
            /\ said.ssl = Verdict(previous.ssl, warning.ssl)

LEMMA CertificateInvHolds ==
    ASSUME "ssl" \in Watched, "ssl" \notin Missing, ~MayAdjust
    PROVE  Spec => []CertificateInv
<1>1. Init => CertificateInv
  BY DEF Init, CertificateInv, NothingSaid
<1>2. TypeOK /\ CertificateInv /\ [Next]_vars => CertificateInv'
  <2> SUFFICES ASSUME TypeOK, CertificateInv, [Next]_vars PROVE CertificateInv'
    OBVIOUS
  <2>1. ASSUME NEW r \in Results, Record(r) PROVE CertificateInv'
    <3> DEFINE old == Old("ssl")
               new == TypesIn(CertificateEvents(r.ssl))
               poor == old # None /\ (~old.valid \/ Expiring(old))
    <3>1. r.ssl \in Certificates /\ r.ssl # None /\ r.ssl.valid \in BOOLEAN
      BY NoneAssumption DEF Results, Answers, Certificates, NoneAssumption
    <3>2. old = IF previous = None THEN None ELSE previous.ssl
      BY DEF Old
    <3>3. old # None => old.valid \in BOOLEAN
      BY <3>2 DEF CertificateInv, Certificates
    <3>4. said.ssl = IF old = None THEN "fine" ELSE Verdict(old, warning.ssl)
      BY <3>2, NoneAssumption DEF CertificateInv, NoneAssumption
    <3>5. said'.ssl = CASE "ssl.invalid" \in new  -> "invalid"
                        [] "ssl.expiring" \in new -> "expiring"
                        [] "ssl.renewed" \in new  -> "fine"
                        [] OTHER                  -> said.ssl
      BY <2>1, TypesInTheLog DEF Record, SaidAfter, SaidSsl, SslTypes
    <3>6. CertificateEvents(r.ssl) =
            IF ~r.ssl.valid
            THEN IF old # None /\ ~old.valid THEN {} ELSE {Event("ssl.invalid")}
            ELSE IF Expiring(r.ssl)
            THEN IF Expiring(old) THEN {} ELSE {Event("ssl.expiring")}
            ELSE IF poor THEN {Event("ssl.renewed")} ELSE {}
      <4>1. ~r.ssl.valid => ~Expiring(r.ssl)
        BY DEF Expiring, ExpiringWithin
      <4>2. QED
        BY <3>1, <3>3, <4>1 DEF CertificateEvents
    <3>7. /\ TypesIn({}) = {}
          /\ \A type : TypesIn({Event(type)}) = {type}
      BY DEF TypesIn, Event
    <3> HIDE DEF old, new, poor
    <3>8. CASE ~r.ssl.valid
      <4>1. new = IF old # None /\ ~old.valid THEN {} ELSE {"ssl.invalid"}
        BY <3>6, <3>7, <3>8 DEF new
      <4>2. said'.ssl = "invalid"
        BY <3>3, <3>4, <3>5, <4>1 DEF Verdict, ExpiringWithin
      <4>3. Verdict(r.ssl, warning.ssl) = "invalid"
        BY <3>8 DEF Verdict, ExpiringWithin
      <4>4. QED
        BY <2>1, <3>1, <4>2, <4>3, NewResult DEF CertificateInv
    <3>9. CASE r.ssl.valid /\ Expiring(r.ssl)
      <4>1. new = IF Expiring(old) THEN {} ELSE {"ssl.expiring"}
        BY <3>6, <3>7, <3>9 DEF new
      <4>2. said'.ssl = "expiring"
        BY <3>4, <3>5, <4>1 DEF Verdict, Expiring, ExpiringWithin
      <4>3. Verdict(r.ssl, warning.ssl) = "expiring"
        BY <3>9 DEF Verdict, Expiring
      <4>4. QED
        BY <2>1, <3>1, <4>2, <4>3, NewResult DEF CertificateInv
    <3>10. CASE r.ssl.valid /\ ~Expiring(r.ssl)
      <4>1. new = IF poor THEN {"ssl.renewed"} ELSE {}
        BY <3>6, <3>7, <3>10 DEF new
      <4>2. said'.ssl = "fine"
        BY <3>3, <3>4, <3>5, <4>1 DEF Verdict, Expiring, poor
      <4>3. Verdict(r.ssl, warning.ssl) = "fine"
        BY <3>10 DEF Verdict, Expiring
      <4>4. QED
        BY <2>1, <3>1, <4>2, <4>3, NewResult DEF CertificateInv
    <3>11. QED
      BY <3>1, <3>8, <3>9, <3>10
  <2>2. CASE UNCHANGED <<judged, warning, previous, said>>
    BY <2>2 DEF CertificateInv, Verdict, ExpiringWithin
  <2>3. QED
    BY <2>1, <2>2 DEF Next, Adjust, Upgrade, NextDay, vars
<1>3. QED
  BY <1>1, <1>2, TypeCorrect, PTL DEF Spec

\* The log says of the certificate what is true of it, if every check of it
\* answers and the threshold stays (detect_events, "ssl.invalid" to "ssl.renewed").
THEOREM LogTellsCertificates ==
    ASSUME "ssl" \in Watched, "ssl" \notin Missing, ~MayAdjust
    PROVE  Spec => []CertificatesAreReported
<1>1. CertificateInv => CertificatesAreReported
  BY DEF CertificateInv, CertificatesAreReported, Verdict
<1>2. QED
  BY <1>1, CertificateInvHolds, PTL

-----------------------------------------------------------------------------
(* The blacklists.  Lists may come and go with releases.                   *)

ListingInv ==
    IF previous = None THEN ~isBlacklisted /\ said.lists = {}
    ELSE /\ previous.blacklist \in StoredBlacklists
         /\ said.lists = previous.blacklist.listed
         /\ isBlacklisted <=> said.lists # {}

ConclusiveOnly ==
    "blacklist" \in Watched /\ "blacklist" \notin Missing /\ "inconclusive" \notin Missing

\* A list in both the log and the lists of this check is one the check can
\* compare: the others are ignored on both sides.
Comparable(b) == said.lists \cap b.providers

LEMMA ListingNews ==
    ASSUME ConclusiveOnly, TypeOK, ListingInv, NEW r \in Results, Record(r),
           NEW b, b = r.blacklist
    PROVE  /\ b \in Blacklists /\ b \in StoredBlacklists /\ b # None
           /\ b.listed \subseteq b.providers /\ ~Inconclusive(b)
           /\ isBlacklisted' <=> b.listed # {}
           /\ {e \in events' : e.type \in ListingTypes} =
                IF b.listed # {}
                THEN IF Comparable(b) = {} THEN {ListEvent("blacklist.listed", b.listed)}
                     ELSE IF b.listed = Comparable(b) THEN {}
                     ELSE {ListEvent(IF b.listed \subseteq Comparable(b) THEN "blacklist.changed"
                                     ELSE "blacklist.listed", b.listed)}
                ELSE IF Comparable(b) = {} THEN {} ELSE {ListEvent("blacklist.delisted", {})}
<1> DEFINE is == Status(b)
<1>1. b \in Blacklists
  BY DEF Results, Answers, ConclusiveOnly
<1>2. b \in StoredBlacklists /\ b # None
  BY <1>1, NoneAssumption DEF Blacklists, StoredBlacklists, TypeOK, NoneAssumption
<1>3. b.listed \subseteq b.providers /\ ~Inconclusive(b)
  BY <1>1 DEF Blacklists, ConclusiveOnly
<1>4. is = (b.listed # {}) /\ is \in BOOLEAN
  BY <1>2, <1>3 DEF Status, Conclusive
<1>5. ListingEvents(b, is) =
        IF is THEN IF Comparable(b) = {} THEN {ListEvent("blacklist.listed", b.listed)}
                   ELSE IF b.listed = Comparable(b) THEN {}
                   ELSE {ListEvent(IF b.listed \subseteq Comparable(b) THEN "blacklist.changed"
                                   ELSE "blacklist.listed", b.listed)}
        ELSE IF Comparable(b) = {} THEN {} ELSE {ListEvent("blacklist.delisted", {})}
  <2>1. CASE previous = None
    BY <1>2, <1>3, <1>4, <2>1
       DEF ListingInv, ListingEvents, Old, Conclusive, Comparable
  <2>2. CASE previous # None
    <3>1. previous.blacklist # None /\ said.lists = previous.blacklist.listed
      BY <2>2, NoneAssumption DEF ListingInv, NoneAssumption
    <3>2. Old("blacklist") = previous.blacklist
      BY <2>2 DEF Old
    <3>3. QED
      BY <1>2, <1>3, <1>4, <3>1, <3>2 DEF ListingEvents, Conclusive, Comparable
  <2>3. QED
    BY <2>1, <2>2
<1>6. isBlacklisted' = is /\ {e \in events' : e.type \in ListingTypes} = ListingEvents(b, is)
  BY TypesInTheLog DEF Record
<1>7. QED
  BY <1>1, <1>2, <1>3, <1>4, <1>5, <1>6

LEMMA ListingInvHolds ==
    ASSUME ConclusiveOnly
    PROVE  Spec => []ListingInv
<1>1. Init => ListingInv
  BY DEF Init, ListingInv, NothingSaid
<1>2. TypeOK /\ ListingInv /\ [Next]_vars => ListingInv'
  <2> SUFFICES ASSUME TypeOK, ListingInv, [Next]_vars PROVE ListingInv'
    OBVIOUS
  <2>1. ASSUME NEW r \in Results, Record(r) PROVE ListingInv'
    <3> DEFINE b    == r.blacklist
               news == {e \in events' : e.type \in ListingTypes}
    <3>1. /\ b \in StoredBlacklists /\ b # None
          /\ b.listed \subseteq b.providers /\ ~Inconclusive(b)
          /\ isBlacklisted' <=> b.listed # {}
      BY <2>1, ListingNews
    <3>2. said'.lists = SaidLists(events', b)
      BY <2>1 DEF Record, SaidAfter
    <3>3. SaidLists(events', b) = b.listed
      <4>1. SaidLists(events', b) =
              (IF news = {} THEN said.lists ELSE UNION {e.lists : e \in news}) \cap b.providers
        BY <3>1 DEF SaidLists, Conclusive, ListingTypes
      <4>2. \A type, on : UNION {e.lists : e \in {ListEvent(type, on)}} = on
        BY DEF ListEvent
      <4>3. CASE news = {}
        <5>1. b.listed = Comparable(b)
          BY <2>1, <4>3, ListingNews
        <5>2. QED
          BY <4>1, <4>3, <5>1 DEF Comparable
      <4>4. CASE news # {}
        <5>1. \E type : news = {ListEvent(type, b.listed)}
          BY <2>1, <4>4, ListingNews
        <5>2. QED
          BY <3>1, <4>1, <4>2, <4>4, <5>1
      <4>5. QED
        BY <4>3, <4>4
    <3>4. QED
      BY <2>1, <3>1, <3>2, <3>3, NewResult DEF ListingInv
  <2>2. CASE UNCHANGED <<previous, isBlacklisted, said>>
    BY <2>2 DEF ListingInv
  <2>3. QED
    BY <2>1, <2>2 DEF Next, Adjust, Upgrade, NextDay, vars
<1>3. QED
  BY <1>1, <1>2, TypeCorrect, PTL DEF Spec

\* The lists the log names are the lists the asset was last found on, if every
\* blacklist check is conclusive, whichever lists each release checks
\* (detect_events, "ignore it on both sides").
THEOREM LogTellsListings ==
    ASSUME ConclusiveOnly
    PROVE  Spec => []ListingsAreReported
<1>1. ListingInv => ListingsAreReported
  BY DEF ListingInv, ListingsAreReported
<1>2. QED
  BY <1>1, ListingInvHolds, PTL

\* A delisting is reported only when a list the log names answered that the
\* asset is no longer on it, if every list answers, whichever lists each release
\* checks (detect_events, "blacklist.delisted").
THEOREM DelistingsHaveAnswers ==
    ASSUME ConclusiveOnly, "answers" \notin Missing
    PROVE  Spec => DelistingsAreReal
<1>1. ASSUME TypeOK, ListingInv, [Next]_vars, ~UNCHANGED vars,
             NEW e \in events', e.type = "blacklist.delisted"
      PROVE  \E l \in said.lists : /\ l \in previous'.blacklist.providers
                                   /\ l \notin previous'.blacklist.failed
                                   /\ l \notin previous'.blacklist.listed
  <2>1. PICK r \in Results : Record(r)
    BY <1>1 DEF Next, Adjust, Upgrade, NextDay
  <2> DEFINE b    == r.blacklist
             news == {x \in events' : x.type \in ListingTypes}
  <2>2. b.failed = {}
    BY <1>1, <2>1, ListingNews DEF Blacklists
  <2>3. e \in news
    BY <1>1 DEF ListingTypes
  <2>4. b.listed = {} /\ Comparable(b) # {}
    <3>1. \A type, on : ListEvent(type, on).type = type
      BY DEF ListEvent
    <3>2. CASE b.listed # {}
      <4>1. \/ news = {}
            \/ \E type \in {"blacklist.listed", "blacklist.changed"} :
                 news = {ListEvent(type, b.listed)}
        BY <1>1, <2>1, <3>2, ListingNews
      <4>2. QED
        BY <1>1, <2>3, <3>1, <4>1
    <3>3. CASE b.listed = {}
      <4>1. Comparable(b) = {} => news = {}
        BY <1>1, <2>1, <3>3, ListingNews
      <4>2. QED
        BY <2>3, <3>3, <4>1
    <3>4. QED
      BY <3>2, <3>3
  <2>5. previous' = r
    BY <2>1 DEF Record
  <2>6. QED
    BY <2>2, <2>4, <2>5 DEF Comparable
<1>2. TypeOK /\ ListingInv /\ [Next]_vars =>
        [\A e \in events' : e.type = "blacklist.delisted" =>
           \E l \in said.lists : /\ l \in previous'.blacklist.providers
                                 /\ l \notin previous'.blacklist.failed
                                 /\ l \notin previous'.blacklist.listed]_vars
  BY <1>1
<1>3. QED
  BY <1>2, TypeCorrect, ListingInvHolds, PTL DEF Spec, DelistingsAreReal

\* "Newly listed" is reported only for a listing the log does not tell of yet,
\* under the assumption of LogTellsListings (detect_events, "blacklist.listed").
THEOREM NewListingsAreNews ==
    ASSUME ConclusiveOnly
    PROVE  Spec => OnlyNewListingsAreReported
<1>1. ASSUME TypeOK, ListingInv, [Next]_vars, ~UNCHANGED vars,
             NEW e \in events', e.type = "blacklist.listed"
      PROVE  ~ (e.lists \subseteq said.lists)
  <2>1. PICK r \in Results : Record(r)
    BY <1>1 DEF Next, Adjust, Upgrade, NextDay
  <2> DEFINE b    == r.blacklist
             news == {x \in events' : x.type \in ListingTypes}
  <2>2. b.listed \subseteq b.providers
    BY <1>1, <2>1, ListingNews
  <2>3. e \in news
    BY <1>1 DEF ListingTypes
  <2>4. \A type, on : ListEvent(type, on).type = type /\ ListEvent(type, on).lists = on
    BY DEF ListEvent
  <2>5. e.lists = b.listed /\ ~ (b.listed \subseteq Comparable(b))
    <3>1. CASE b.listed = {}
      <4>1. news = {} \/ news = {ListEvent("blacklist.delisted", {})}
        BY <1>1, <2>1, <3>1, ListingNews
      <4>2. QED
        BY <1>1, <2>3, <2>4, <4>1
    <3>2. CASE b.listed # {}
      <4>1. news # {} => \E type : /\ news = {ListEvent(type, b.listed)}
                                   /\ type = "blacklist.changed" \/ ~ (b.listed \subseteq Comparable(b))
        BY <1>1, <2>1, <3>2, ListingNews
      <4>2. QED
        BY <1>1, <2>3, <2>4, <4>1
    <3>3. QED
      BY <3>1, <3>2
  <2>6. QED
    BY <2>2, <2>5 DEF Comparable
<1>2. TypeOK /\ ListingInv /\ [Next]_vars =>
        [\A e \in events' : e.type = "blacklist.listed" =>
           ~ (e.lists \subseteq said.lists)]_vars
  BY <1>1
<1>3. QED
  BY <1>2, TypeCorrect, ListingInvHolds, PTL DEF Spec, OnlyNewListingsAreReported

-----------------------------------------------------------------------------
(* Events without repetition.                                              *)

AllAnswer ==
    /\ {"server", "ssl", "domain"} \subseteq Watched
    /\ Missing \cap {"server", "ssl", "domain"} = {}
    /\ ~MayAdjust

\* No check reports an outage, an invalid or expiring certificate or an expiring
\* domain of which the log tells already, whatever days pass and however the
\* registration is renewed in between, if these parts always answer and the
\* thresholds stay (services/events.py, "one event per outage").
THEOREM NothingIsToldTwice ==
    ASSUME AllAnswer
    PROVE  Spec => ReportedOnce
<1>1. ASSUME TypeOK, ServerInv, CertificateInv, WarnedInv, [Next]_vars, ~UNCHANGED vars
      PROVE  LET new == TypesIn(events')
             IN  /\ "server.down" \in new => ~said.down
                 /\ "ssl.invalid" \in new => said.ssl # "invalid"
                 /\ "ssl.expiring" \in new => said.ssl # "expiring"
                 /\ "domain.expiring" \in new => ~said.domain
  <2>1. CASE events' = {}
    BY <2>1 DEF TypesIn
  <2>2. ASSUME NEW r \in Results, Record(r)
        PROVE  LET new == TypesIn(events')
               IN  /\ "server.down" \in new => ~said.down
                   /\ "ssl.invalid" \in new => said.ssl # "invalid"
                   /\ "ssl.expiring" \in new => said.ssl # "expiring"
                   /\ "domain.expiring" \in new => ~said.domain
    <3>1. "server.down" \in TypesIn(events') => ~said.down
      <4>1. "server.down" \in TypesIn(events') => Old("server") # "down"
        BY <2>2, TypesInTheLog DEF ServerTypes, TypesIn, ServerEvents, Event
      <4>2. QED
        BY <1>1, <4>1 DEF ServerInv, Old
    <3>2. /\ "ssl.invalid" \in TypesIn(events') => said.ssl # "invalid"
          /\ "ssl.expiring" \in TypesIn(events') => said.ssl # "expiring"
      <4> DEFINE old == Old("ssl")
      <4>1. said.ssl = IF old = None THEN "fine" ELSE Verdict(old, warning.ssl)
        BY <1>1, NoneAssumption DEF CertificateInv, Old, NoneAssumption
      <4>2. /\ "ssl.invalid" \in TypesIn(events') =>
                 "ssl.invalid" \in TypesIn(CertificateEvents(r.ssl))
            /\ "ssl.expiring" \in TypesIn(events') =>
                 "ssl.expiring" \in TypesIn(CertificateEvents(r.ssl))
        BY <2>2, TypesInTheLog DEF SslTypes
      <4>3. /\ TypesIn({}) = {}
            /\ \A type : TypesIn({Event(type)}) = {type}
        BY DEF TypesIn, Event
      <4>4. "ssl.invalid" \in TypesIn(CertificateEvents(r.ssl)) => (old # None => old.valid)
        BY <4>3 DEF CertificateEvents
      <4>5. "ssl.expiring" \in TypesIn(CertificateEvents(r.ssl)) => ~Expiring(old)
        BY <4>3 DEF CertificateEvents
      <4>6. old # None => old \in Certificates
        BY <1>1 DEF CertificateInv, Old
      <4>7. old # None => old.valid \in BOOLEAN
        BY <4>6 DEF Certificates
      <4> HIDE DEF old
      <4>8. QED
        BY <4>1, <4>2, <4>4, <4>5, <4>7 DEF Verdict, Expiring, ExpiringWithin
    <3>3. "domain.expiring" \in TypesIn(events') => ~said.domain
      <4>1. "domain.expiring" \in TypesIn(events') =>
              (Old("domain") # None => DaysLeft(Old("domain")) > warning.domain)
        BY <2>2, TypesInTheLog DEF DomainEvents
      <4>2. SUFFICES ASSUME said.domain, "domain.expiring" \in TypesIn(events') PROVE FALSE
        OBVIOUS
      <4>3. /\ Old("domain") = previous.domain /\ previous.domain \in Dates
            /\ DaysLeft(previous.domain) <= warning.domain
        BY <1>1, <4>2 DEF WarnedInv, Old
      <4>4. previous.domain \in Int /\ previous.domain # None
        BY <1>1, <4>3, DaysAreNumbers
      <4>5. DaysLeft(previous.domain) > warning.domain
        BY <4>1, <4>2, <4>3, <4>4
      <4>6. QED
        BY <1>1, <4>3, <4>4, <4>5, DaysAreNumbers DEF DaysLeft
    <3>4. QED
      BY <3>1, <3>2, <3>3
  <2>3. QED
    BY <1>1, <2>1, <2>2 DEF Next, Adjust, Upgrade, NextDay
<1>2. TypeOK /\ ServerInv /\ CertificateInv /\ WarnedInv /\ [Next]_vars =>
        [LET new == TypesIn(events')
         IN  /\ "server.down" \in new => ~said.down
             /\ "ssl.invalid" \in new => said.ssl # "invalid"
             /\ "ssl.expiring" \in new => said.ssl # "expiring"
             /\ "domain.expiring" \in new => ~said.domain]_vars
  BY <1>1
<1>3. /\ "server" \in Watched /\ "server" \notin Missing
      /\ "ssl" \in Watched /\ "ssl" \notin Missing
      /\ "domain" \in Watched /\ "domain" \notin Missing /\ ~MayAdjust
  BY DEF AllAnswer
<1>4. (Spec => []ServerInv) /\ (Spec => []CertificateInv) /\ (Spec => []WarnedInv)
  BY <1>3, ServerInvHolds, CertificateInvHolds, WarnedInvHolds
<1>5. QED
  BY <1>2, <1>4, TypeCorrect, PTL DEF Spec, ReportedOnce
===============================================================================
