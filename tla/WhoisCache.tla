------------------------------ MODULE WhoisCache ------------------------------
(***************************************************************************)
(* WHOIS lookups and their cache: backend/app/services/whois_lookup.py.    *)
(* Check cycles, re-checks and the tools page look up registered domains   *)
(* from many threads.  Answers are reused for a while; when the registry   *)
(* refuses, an older one is served.                                        *)
(*                                                                         *)
(* An answer is abstracted to the moment the registry gave it.  Each       *)
(* critical section of _cache_lock is one step; the query in between takes *)
(* its time, and lookups of one domain overlap.                            *)
(*                                                                         *)
(* Definitions named Wrong... are faulty variants of the definition that   *)
(* follows them, used only to test the properties.                         *)
(***************************************************************************)
EXTENDS Integers, FiniteSets

CONSTANTS
    None,        \* no cache entry, no lookup, no reply
    Domains,     \* registered domains
    Threads,     \* threads that look up
    TTL,         \* _cache_ttl(); 0 switches the cache off
    StaleFactor, \* _STALE_FACTOR
    MaxEntries,  \* _MAX_CACHE_ENTRIES
    MaxQuery,    \* a query, with its referral and parsing, takes no longer
    MaxTime      \* bound: the clock

Window == TTL * StaleFactor

Entry  == [at : Nat, said : Nat]
Lookup == [pc : {"asking", "answered"}, domain : Domains, since : Nat, said : Nat]
Reply  == [kind : {"cached", "new", "stale", "refused", "unsafe"}, age : Nat]

ASSUME WhoisAssumption ==
    /\ TTL \in Nat /\ StaleFactor \in Nat \ {0}
    /\ MaxEntries \in Nat \ {0} /\ MaxQuery \in Nat /\ MaxTime \in Nat
    /\ IsFiniteSet(Domains)
    /\ None \notin Int /\ None \notin Entry /\ None \notin Lookup /\ None \notin Reply

VARIABLES
    now,    \* time.monotonic()
    cache,  \* _cache: per domain an entry, or None
    lookup, \* per thread: where whois_lookup is
    reply,  \* what a lookup returned in this step, and its age
    kept    \* history: when an answer about the domain was last cached

vars == <<now, cache, lookup, reply, kept>>

Idle(t) == lookup[t] = None
In(t, pc) == ~Idle(t) /\ lookup[t].pc = pc

TypeOK ==
    /\ now \in Nat
    /\ cache \in [Domains -> Entry \cup {None}]
    /\ lookup \in [Threads -> Lookup \cup {None}]
    /\ reply \in Reply \cup {None}
    /\ kept \in [Domains -> Nat \cup {None}]

Init ==
    /\ now = 0
    /\ cache = [d \in Domains |-> None]
    /\ lookup = [t \in Threads |-> None]
    /\ reply = None
    /\ kept = [d \in Domains |-> None]

-----------------------------------------------------------------------------

Age(d) == now - cache[d].at

\* _cache_get finds an answer; an expired one stays for a refusal.
Fresh(d) == TTL > 0 /\ cache[d] # None /\ Age(d) < TTL

\* _cache_get_stale.
Servable(d) == Window > 0 /\ cache[d] # None /\ Age(d) < Window

\* The lookup returns, with an answer the registry gave at the time said.
Return(t, kind, said) ==
    /\ lookup' = [lookup EXCEPT ![t] = None]
    /\ reply' = [kind |-> kind, age |-> now - said]

\* An expired answer is forgotten when it is met.
WrongBegin(t, d) ==
    /\ Idle(t)
    /\ IF Fresh(d) THEN Return(t, "cached", cache[d].said) /\ UNCHANGED cache
       ELSE /\ lookup' = [lookup EXCEPT ![t] =
                 [pc |-> "asking", domain |-> d, since |-> now, said |-> now]]
            /\ cache' = [cache EXCEPT ![d] = None]
            /\ reply' = None
    /\ UNCHANGED <<now, kept>>

\* whois_lookup: a fresh answer is returned at once, else the registry is asked.
Begin(t, d) ==
    /\ Idle(t)
    /\ IF Fresh(d) THEN Return(t, "cached", cache[d].said)
       ELSE /\ lookup' = [lookup EXCEPT ![t] =
                 [pc |-> "asking", domain |-> d, since |-> now, said |-> now]]
            /\ reply' = None
    /\ UNCHANGED <<now, cache, kept>>

\* The registry answers; the answer has yet to be read, referred and parsed.
RegistryAnswers(t) ==
    /\ In(t, "asking")
    /\ lookup' = [lookup EXCEPT ![t] = [@ EXCEPT !.pc = "answered", !.said = now]]
    /\ reply' = None
    /\ UNCHANGED <<now, cache, kept>>

Live == {d \in Domains : cache[d] # None /\ Age(d) < Window}

\* The entries that _cache_put leaves: expired ones go, and of the others the
\* oldest until there is room for one more, even if its domain has an entry.
Spared(spared) ==
    /\ spared \subseteq Live
    /\ IF Cardinality(Live) < MaxEntries THEN spared = Live
       ELSE /\ Cardinality(spared) = MaxEntries - 1
            /\ \A d \in spared, e \in Live \ spared : cache[e].at <= cache[d].at

\* _cache_put, then the answer is returned.
Keep(t) ==
    /\ In(t, "answered") /\ Window > 0
    /\ \E spared \in SUBSET Domains :
         /\ Spared(spared)
         /\ cache' = [d \in Domains |->
              IF d = lookup[t].domain THEN [at |-> now, said |-> lookup[t].said]
              ELSE IF d \in spared THEN cache[d] ELSE None]
    /\ kept' = [kept EXCEPT ![lookup[t].domain] = now]
    /\ Return(t, "new", lookup[t].said)
    /\ UNCHANGED now

\* An answer too large to keep, or no cache at all.
KeepNot(t) ==
    /\ In(t, "answered")
    /\ Return(t, "new", lookup[t].said)
    /\ UNCHANGED <<now, cache, kept>>

\* The old answer is written back when it is served.
WrongRefuse(t) ==
    /\ ~Idle(t)
    /\ LET d == lookup[t].domain
       IN  IF Servable(d)
           THEN /\ Return(t, "stale", cache[d].said)
                /\ cache' = [cache EXCEPT ![d].at = now]
           ELSE /\ Return(t, "refused", now)
                /\ cache' = [cache EXCEPT ![d] = None]
    /\ UNCHANGED <<now, kept>>

\* No connection, a time-out, an empty answer or one that reads as a refusal:
\* _stale_or_error.
Refuse(t) ==
    /\ ~Idle(t)
    /\ LET d == lookup[t].domain
       IN  IF Servable(d)
           THEN Return(t, "stale", cache[d].said) /\ UNCHANGED cache
           ELSE /\ Return(t, "refused", now)
                /\ cache' = IF Window > 0 THEN [cache EXCEPT ![d] = None] ELSE cache
    /\ UNCHANGED <<now, kept>>

\* UnsafeDestinationError: no older answer is served for it.
RefuseUnsafe(t) ==
    /\ In(t, "asking")
    /\ Return(t, "unsafe", now)
    /\ UNCHANGED <<now, cache, kept>>

\* A query has a time-out.
Tick ==
    /\ now < MaxTime
    /\ \A t \in Threads : ~Idle(t) => now - lookup[t].since < MaxQuery
    /\ now' = now + 1
    /\ reply' = None
    /\ UNCHANGED <<cache, lookup, kept>>

Next ==
    \/ \E t \in Threads :
         \/ \E d \in Domains : Begin(t, d)
         \/ RegistryAnswers(t) \/ Keep(t) \/ KeepNot(t) \/ Refuse(t) \/ RefuseUnsafe(t)
    \/ Tick

Spec == Init /\ [][Next]_vars

-----------------------------------------------------------------------------
(* Properties. *)

\* How old an answer may be: what the cache returns as current is no older than
\* the cache window and one query, and what it serves for a refusal is no older
\* than the stale window and one query ("it still ages out of the stale
\* window"), whatever lookups overlap and however often it is served.
AnswersAreRecent ==
    reply # None =>
        /\ reply.kind = "new"    => reply.age <= MaxQuery
        /\ reply.kind = "cached" => reply.age < TTL + MaxQuery
        /\ reply.kind = "stale"  => reply.age < Window + MaxQuery

\* The other domains whose answers were kept after d's.
NewerThan(d) == {e \in Domains \ {d} : kept[e] # None /\ kept[e] >= kept[d]}

\* A registry that refuses costs nothing ("a monitored asset would otherwise
\* flip to an error on most cycles"): a lookup fails only if no answer was kept
\* within the stale window, or so many later ones were that the cache was full.
RefusalsAreCovered ==
    [][\A t \in Threads :
         Refuse(t) /\ reply'.kind = "refused" =>
           LET d == lookup[t].domain
           IN  kept[d] # None => \/ now - kept[d] >= Window
                                 \/ Cardinality(NewerThan(d)) >= MaxEntries - 1]_vars
===============================================================================
