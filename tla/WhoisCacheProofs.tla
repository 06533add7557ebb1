--------------------------- MODULE WhoisCacheProofs ---------------------------
(***************************************************************************)
(* What is proved of WhoisCache for any number of domains and threads, any *)
(* size of the cache and any windows.                                      *)
(***************************************************************************)
EXTENDS WhoisCache, FiniteSetTheorems, TLAPS

LEMMA WindowType == Window \in Nat
<1> DEFINE times(x, y) == x * y
<1>1. \A x, y \in Nat : times(x, y) \in Nat
  OBVIOUS
<1>2. TTL \in Nat /\ StaleFactor \in Nat
  BY WhoisAssumption
<1>3. times(TTL, StaleFactor) \in Nat
  BY <1>1, <1>2
<1>4. QED
  BY <1>3 DEF Window

-----------------------------------------------------------------------------
(* Ages.  An answer is kept within a query's time of the registry giving   *)
(* it, so that its age is that of its entry and a query's time.            *)

EntriesAreRecent ==
    \A d \in Domains : cache[d] # None =>
        /\ cache[d].said <= cache[d].at /\ cache[d].at <= now
        /\ cache[d].at - cache[d].said <= MaxQuery

LookupsAreShort ==
    \A t \in Threads : lookup[t] # None =>
        /\ lookup[t].since <= lookup[t].said /\ lookup[t].said <= now
        /\ now - lookup[t].since <= MaxQuery

AgeInv == TypeOK /\ EntriesAreRecent /\ LookupsAreShort /\ AnswersAreRecent

LEMMA AgeInit == Init => AgeInv
  BY WhoisAssumption
  DEF Init, AgeInv, TypeOK, EntriesAreRecent, LookupsAreShort, AnswersAreRecent

\* A lookup that returns an answer of the right age keeps the invariant.
LEMMA ReturnKeeps ==
  ASSUME AgeInv, NEW t \in Threads, NEW kind, NEW said, Return(t, kind, said),
         kind \in {"cached", "new", "stale", "refused", "unsafe"},
         said \in Nat, said <= now, UNCHANGED now,
         kind = "new" => now - said <= MaxQuery,
         kind = "cached" => now - said < TTL + MaxQuery,
         kind = "stale" => now - said < Window + MaxQuery
  PROVE  /\ lookup' \in [Threads -> Lookup \cup {None}]
         /\ reply' \in Reply \cup {None}
         /\ LookupsAreShort'
         /\ AnswersAreRecent'
<1>1. now \in Nat /\ lookup \in [Threads -> Lookup \cup {None}]
  BY DEF AgeInv, TypeOK
<1>2. reply' = [kind |-> kind, age |-> now - said]
  BY DEF Return
<1>3. now - said \in Nat
  BY <1>1
<1>4. reply' \in Reply
  BY <1>2, <1>3 DEF Reply
<1>5. lookup' = [lookup EXCEPT ![t] = None]
  BY DEF Return
<1>6. lookup' \in [Threads -> Lookup \cup {None}]
  BY <1>1, <1>5
<1>7. \A u \in Threads : lookup'[u] # None => lookup'[u] = lookup[u]
  BY <1>1, <1>5
<1>8. LookupsAreShort'
  BY <1>7 DEF LookupsAreShort, AgeInv
<1>9. AnswersAreRecent'
  <2>1. reply'.kind = kind /\ reply'.age = now - said
    BY <1>2
  <2>2. QED
    BY <2>1 DEF AnswersAreRecent, Window
<1>10. QED
  BY <1>4, <1>6, <1>8, <1>9

LEMMA AgeStep == AgeInv /\ [Next]_vars => AgeInv'
<1> SUFFICES ASSUME AgeInv, [Next]_vars PROVE AgeInv'
  OBVIOUS
<1> USE WhoisAssumption, WindowType
<1>t. /\ now \in Nat
      /\ cache \in [Domains -> Entry \cup {None}]
      /\ lookup \in [Threads -> Lookup \cup {None}]
      /\ kept \in [Domains -> Nat \cup {None}]
      /\ EntriesAreRecent /\ LookupsAreShort
  BY DEF AgeInv, TypeOK
<1>e. \A d \in Domains : cache[d] # None => /\ cache[d].at \in Nat /\ cache[d].said \in Nat
                                            /\ cache[d].said <= now
                                            /\ now - cache[d].said <= Age(d) + MaxQuery
  BY <1>t DEF Entry, EntriesAreRecent, Age
<1>l. \A t \in Threads : lookup[t] # None =>
         /\ lookup[t].domain \in Domains /\ lookup[t].said \in Nat /\ lookup[t].since \in Nat
         /\ lookup[t].said <= now /\ now - lookup[t].said <= MaxQuery
  BY <1>t DEF Lookup, LookupsAreShort
<1>1. ASSUME NEW t \in Threads, NEW d \in Domains, Begin(t, d) PROVE AgeInv'
  <2>1. CASE Fresh(d)
    <3>1. /\ cache[d].said \in Nat /\ cache[d].said <= now
          /\ now - cache[d].said < TTL + MaxQuery
      BY <1>t, <1>e, <2>1 DEF Fresh, Age
    <3>2. Return(t, "cached", cache[d].said) /\ UNCHANGED <<now, cache, kept>>
      BY <1>1, <2>1 DEF Begin
    <3>3. /\ lookup' \in [Threads -> Lookup \cup {None}]
          /\ reply' \in Reply \cup {None}
          /\ LookupsAreShort' /\ AnswersAreRecent'
      BY <3>1, <3>2, ReturnKeeps
    <3>4. QED
      BY <1>t, <3>2, <3>3 DEF AgeInv, TypeOK, EntriesAreRecent
  <2>2. CASE ~Fresh(d)
    <3> DEFINE new == [pc |-> "asking", domain |-> d, since |-> now, said |-> now]
    <3>1. /\ lookup' = [lookup EXCEPT ![t] = new]
          /\ reply' = None /\ UNCHANGED <<now, cache, kept>>
      BY <1>1, <2>2 DEF Begin
    <3>2. new \in Lookup
      BY <1>t DEF Lookup
    <3>3. lookup' \in [Threads -> Lookup \cup {None}]
      BY <1>t, <3>1, <3>2
    <3>4. LookupsAreShort'
      BY <1>t, <3>1 DEF LookupsAreShort
    <3>5. QED
      BY <1>t, <3>1, <3>3, <3>4 DEF AgeInv, TypeOK, EntriesAreRecent, AnswersAreRecent
  <2>3. QED
    BY <2>1, <2>2
<1>2. ASSUME NEW t \in Threads, RegistryAnswers(t) PROVE AgeInv'
  <2> DEFINE new == [lookup[t] EXCEPT !.pc = "answered", !.said = now]
  <2>1. /\ lookup[t] # None /\ lookup' = [lookup EXCEPT ![t] = new]
        /\ reply' = None /\ UNCHANGED <<now, cache, kept>>
    BY <1>2 DEF RegistryAnswers, In, Idle
  <2>2. lookup[t] \in Lookup
    BY <1>t, <2>1
  <2>3. new \in Lookup /\ new.since = lookup[t].since /\ new.said = now
    BY <1>t, <2>2 DEF Lookup
  <2>4. lookup' \in [Threads -> Lookup \cup {None}]
    BY <1>t, <2>1, <2>3
  <2>5. LookupsAreShort'
    <3> SUFFICES ASSUME NEW u \in Threads, lookup'[u] # None
                 PROVE  /\ lookup'[u].since <= lookup'[u].said /\ lookup'[u].said <= now'
                        /\ now' - lookup'[u].since <= MaxQuery
      BY DEF LookupsAreShort
    <3>1. CASE u = t
      <4>1. lookup'[t] = new
        BY <1>t, <2>1
      <4>2. lookup[t].since <= now /\ now - lookup[t].since <= MaxQuery
        BY <1>t, <1>l, <2>1 DEF LookupsAreShort
      <4>3. QED
        BY <1>t, <2>1, <2>3, <3>1, <4>1, <4>2
    <3>2. CASE u # t
      <4>1. lookup'[u] = lookup[u]
        BY <1>t, <2>1, <3>2
      <4>2. QED
        BY <1>t, <2>1, <4>1 DEF LookupsAreShort
    <3>3. QED
      BY <3>1, <3>2
  <2>6. QED
    BY <1>t, <2>1, <2>4, <2>5 DEF AgeInv, TypeOK, EntriesAreRecent, AnswersAreRecent
<1>3. ASSUME NEW t \in Threads, Keep(t) PROVE AgeInv'
  <2> DEFINE e == [at |-> now, said |-> lookup[t].said]
  <2>1. lookup[t] # None /\ Return(t, "new", lookup[t].said) /\ UNCHANGED now
    BY <1>3 DEF Keep, In, Idle
  <2>2. /\ lookup' \in [Threads -> Lookup \cup {None}]
        /\ reply' \in Reply \cup {None}
        /\ LookupsAreShort' /\ AnswersAreRecent'
    BY <1>l, <2>1, ReturnKeeps
  <2>3. PICK spared \in SUBSET Domains :
          cache' = [d \in Domains |-> IF d = lookup[t].domain THEN e
                                      ELSE IF d \in spared THEN cache[d] ELSE None]
    BY <1>3 DEF Keep
  <2>4. e \in Entry
    BY <1>t, <1>l, <2>1 DEF Entry
  <2>5. cache' \in [Domains -> Entry \cup {None}]
    BY <1>t, <2>3, <2>4
  <2>6. kept' \in [Domains -> Nat \cup {None}]
    BY <1>t, <1>3 DEF Keep
  <2>7. EntriesAreRecent'
    <3> SUFFICES ASSUME NEW d \in Domains, cache'[d] # None
                 PROVE  /\ cache'[d].said <= cache'[d].at /\ cache'[d].at <= now'
                        /\ cache'[d].at - cache'[d].said <= MaxQuery
      BY DEF EntriesAreRecent
    <3>1. CASE cache'[d] = e
      BY <1>t, <1>l, <2>1, <3>1
    <3>2. CASE cache'[d] = cache[d]
      BY <1>t, <2>1, <3>2 DEF EntriesAreRecent
    <3>3. QED
      BY <2>3, <3>1, <3>2
  <2>8. QED
    BY <1>t, <2>1, <2>2, <2>5, <2>6, <2>7 DEF AgeInv, TypeOK
<1>4. ASSUME NEW t \in Threads, KeepNot(t) PROVE AgeInv'
  <2>1. /\ lookup[t] # None /\ Return(t, "new", lookup[t].said)
        /\ UNCHANGED <<now, cache, kept>>
    BY <1>4 DEF KeepNot, In, Idle
  <2>2. /\ lookup' \in [Threads -> Lookup \cup {None}]
        /\ reply' \in Reply \cup {None}
        /\ LookupsAreShort' /\ AnswersAreRecent'
    BY <1>l, <2>1, ReturnKeeps
  <2>3. QED
    BY <1>t, <2>1, <2>2 DEF AgeInv, TypeOK, EntriesAreRecent
<1>5. ASSUME NEW t \in Threads, Refuse(t) PROVE AgeInv'
  <2> DEFINE d == lookup[t].domain
  <2>0. lookup[t] # None /\ d \in Domains /\ UNCHANGED <<now, kept>>
    BY <1>5, <1>l DEF Refuse, Idle
  <2>1. CASE Servable(d)
    <3>1. /\ cache[d].said \in Nat /\ cache[d].said <= now
          /\ now - cache[d].said < Window + MaxQuery
      BY <1>t, <1>e, <2>0, <2>1 DEF Servable, Age
    <3>2. Return(t, "stale", cache[d].said) /\ UNCHANGED cache
      BY <1>5, <2>1 DEF Refuse
    <3>3. /\ lookup' \in [Threads -> Lookup \cup {None}]
          /\ reply' \in Reply \cup {None}
          /\ LookupsAreShort' /\ AnswersAreRecent'
      BY <2>0, <3>1, <3>2, ReturnKeeps
    <3>4. QED
      BY <1>t, <2>0, <3>2, <3>3 DEF AgeInv, TypeOK, EntriesAreRecent
  <2>2. CASE ~Servable(d)
    <3>1. /\ Return(t, "refused", now)
          /\ cache' = IF Window > 0 THEN [cache EXCEPT ![d] = None] ELSE cache
      BY <1>5, <2>2 DEF Refuse
    <3>2. /\ lookup' \in [Threads -> Lookup \cup {None}]
          /\ reply' \in Reply \cup {None}
          /\ LookupsAreShort' /\ AnswersAreRecent'
      BY <1>t, <2>0, <3>1, ReturnKeeps
    <3>3. cache' \in [Domains -> Entry \cup {None}]
      BY <1>t, <3>1
    <3>4. \A x \in Domains : cache'[x] # None => cache'[x] = cache[x]
      BY <1>t, <3>1
    <3>5. EntriesAreRecent'
      BY <1>t, <2>0, <3>4 DEF EntriesAreRecent
    <3>6. QED
      BY <1>t, <2>0, <3>2, <3>3, <3>5 DEF AgeInv, TypeOK
  <2>3. QED
    BY <2>1, <2>2
<1>6. ASSUME NEW t \in Threads, RefuseUnsafe(t) PROVE AgeInv'
  <2>1. Return(t, "unsafe", now) /\ UNCHANGED <<now, cache, kept>>
    BY <1>6 DEF RefuseUnsafe
  <2>2. /\ lookup' \in [Threads -> Lookup \cup {None}]
        /\ reply' \in Reply \cup {None}
        /\ LookupsAreShort' /\ AnswersAreRecent'
    BY <1>t, <2>1, ReturnKeeps
  <2>3. QED
    BY <1>t, <2>1, <2>2 DEF AgeInv, TypeOK, EntriesAreRecent
<1>7. CASE Tick
  <2>1. now' = now + 1 /\ reply' = None /\ UNCHANGED <<cache, lookup, kept>>
    BY <1>7 DEF Tick
  <2>2. LookupsAreShort'
    <3>1. \A t \in Threads : lookup[t] # None => now - lookup[t].since < MaxQuery
      BY <1>7 DEF Tick, Idle
    <3>2. QED
      BY <1>t, <1>l, <2>1, <3>1 DEF LookupsAreShort
  <2>3. EntriesAreRecent'
    BY <1>t, <1>e, <2>1 DEF EntriesAreRecent
  <2>4. QED
    BY <1>t, <2>1, <2>2, <2>3 DEF AgeInv, TypeOK, AnswersAreRecent
<1>8. CASE UNCHANGED vars
  BY <1>8 DEF vars, AgeInv, TypeOK, EntriesAreRecent, LookupsAreShort, AnswersAreRecent
<1>9. QED
  BY <1>1, <1>2, <1>3, <1>4, <1>5, <1>6, <1>7, <1>8 DEF Next

\* The cache, the lookups under way and the replies are always well formed.
THEOREM TypeCorrect == Spec => []TypeOK
<1>1. AgeInv => TypeOK
  BY DEF AgeInv
<1>2. QED
  BY <1>1, AgeInit, AgeStep, PTL DEF Spec

\* No lookup returns an answer older than its window and one query, however
\* lookups of one domain overlap (_cache_get, _stale_or_error).
THEOREM AgesAreBounded == Spec => []AnswersAreRecent
<1>1. AgeInv => AnswersAreRecent
  BY DEF AgeInv
<1>2. QED
  BY <1>1, AgeInit, AgeStep, PTL DEF Spec

-----------------------------------------------------------------------------
(* Refusals.  An entry carries the time at which its answer was kept; once *)
(* it is gone, either the window is over or enough later answers were kept *)
(* to fill the cache.                                                      *)

KeptIsPast == \A d \in Domains : kept[d] # None => kept[d] <= now

EntryIsLastKept == \A d \in Domains : cache[d] # None => kept[d] = cache[d].at

Dismissed(d) == \/ now - kept[d] >= Window
                \/ Cardinality(NewerThan(d)) >= MaxEntries - 1

GoneIsDismissed ==
    \A d \in Domains : kept[d] # None /\ cache[d] = None => Dismissed(d)

KeptInv == TypeOK /\ KeptIsPast /\ EntryIsLastKept /\ GoneIsDismissed

LEMMA KeptInit == Init => KeptInv
  BY WhoisAssumption
  DEF Init, KeptInv, TypeOK, KeptIsPast, EntryIsLastKept, GoneIsDismissed

\* A larger set of domains is no smaller in number.
LEMMA MoreDomains ==
  ASSUME NEW S \in SUBSET Domains, NEW T \in SUBSET S
  PROVE  Cardinality(S) \in Nat /\ Cardinality(T) \in Nat /\ Cardinality(T) <= Cardinality(S)
<1>1. IsFiniteSet(Domains)
  BY WhoisAssumption
<1>2. IsFiniteSet(S)
  BY <1>1, FS_Subset
<1>3. IsFiniteSet(T) /\ Cardinality(T) <= Cardinality(S)
  BY <1>2, FS_Subset
<1>4. QED
  BY <1>2, <1>3, FS_CardinalityType

\* With the times of keeping unchanged, time only adds reasons.
LEMMA DismissedStays ==
  ASSUME NEW d \in Domains, KeptInv, kept[d] # None, Dismissed(d),
         UNCHANGED kept, now' \in Nat, now <= now'
  PROVE  Dismissed(d)'
<1>1. now \in Nat /\ kept[d] \in Nat
  BY DEF KeptInv, TypeOK
<1>2. NewerThan(d)' = NewerThan(d)
  BY DEF NewerThan
<1>3. CASE now - kept[d] >= Window
  <2>1. Window' = Window
    BY DEF Window
  <2>2. now' - kept'[d] >= Window
    BY <1>1, <1>3, WindowType
  <2>3. QED
    BY <2>1, <2>2 DEF Dismissed
<1>4. CASE Cardinality(NewerThan(d)) >= MaxEntries - 1
  BY <1>2, <1>4 DEF Dismissed
<1>5. QED
  BY <1>3, <1>4 DEF Dismissed

\* A step that touches neither the cache nor what was kept.
LEMMA KeptStutters ==
  ASSUME KeptInv, TypeOK', UNCHANGED <<cache, kept>>, now <= now'
  PROVE  KeptInv'
<1>1. now \in Nat /\ now' \in Nat /\ kept \in [Domains -> Nat \cup {None}]
  BY DEF KeptInv, TypeOK
<1>2. KeptIsPast'
  BY <1>1 DEF KeptInv, KeptIsPast
<1>3. EntryIsLastKept'
  BY DEF KeptInv, EntryIsLastKept
<1>4. GoneIsDismissed'
  BY <1>1, DismissedStays DEF KeptInv, GoneIsDismissed
<1>5. QED
  BY <1>2, <1>3, <1>4 DEF KeptInv

\* A domain whose entry Keep takes away has a full cache of later answers.
LEMMA EvictedIsDismissed ==
  ASSUME KeptInv, NEW e \in Domains, NEW d \in Domains \ {e},
         NEW spared \in SUBSET Domains, Spared(spared),
         cache[d] # None, d \notin spared,
         kept' = [kept EXCEPT ![e] = now], UNCHANGED now
  PROVE  Dismissed(d)'
<1> USE WhoisAssumption, WindowType
<1>1. /\ now \in Nat /\ cache \in [Domains -> Entry \cup {None}]
      /\ kept \in [Domains -> Nat \cup {None}]
  BY DEF KeptInv, TypeOK
<1>2. kept'[d] = kept[d] /\ kept[d] = cache[d].at /\ kept[d] \in Nat
  <2>1. cache[d] \in Entry
    BY <1>1
  <2>2. cache[d].at \in Nat
    BY <2>1 DEF Entry
  <2>3. kept[d] = cache[d].at
    BY DEF KeptInv, EntryIsLastKept
  <2>4. QED
    BY <1>1, <2>2, <2>3
<1>w. Window' = Window
  BY DEF Window
<1>3. CASE d \notin Live
  <2>1. ~(Age(d) < Window)
    BY <1>3 DEF Live
  <2>2. now' - kept'[d] >= Window
    BY <1>1, <1>2, <2>1 DEF Age
  <2>3. QED
    BY <2>2, <1>w DEF Dismissed
<1>4. CASE d \in Live
  <2>1. spared # Live
    BY <1>4
  <2>2. /\ Cardinality(spared) = MaxEntries - 1
        /\ \A x \in spared : cache[d].at <= cache[x].at
        /\ spared \subseteq Live
    BY <1>4, <2>1 DEF Spared
  <2>3. spared \subseteq NewerThan(d)'
    <3> SUFFICES ASSUME NEW x \in spared PROVE x \in NewerThan(d)'
      OBVIOUS
    <3>1. x \in Domains \ {d} /\ cache[x] # None
      BY <2>2 DEF Live
    <3>2. cache[x] \in Entry
      BY <1>1, <3>1
    <3>3. kept[x] = cache[x].at /\ kept[x] \in Nat
      BY <3>1, <3>2 DEF KeptInv, EntryIsLastKept, Entry
    <3>4. kept[d] <= kept[x]
      BY <1>2, <2>2, <3>3
    <3>5. kept'[x] = IF x = e THEN now ELSE kept[x]
      BY <1>1, <3>1
    <3>6. kept[d] <= now
      BY <1>1, <1>2 DEF KeptInv, KeptIsPast
    <3>7. kept'[x] # None /\ kept'[x] >= kept'[d]
      BY <1>1, <1>2, <3>3, <3>4, <3>5, <3>6
    <3>8. QED
      BY <3>1, <3>7 DEF NewerThan
  <2>4. NewerThan(d)' \in SUBSET Domains
    BY DEF NewerThan
  <2>5. Cardinality(spared) <= Cardinality(NewerThan(d)') /\ Cardinality(NewerThan(d)') \in Nat
    BY <2>3, <2>4, MoreDomains
  <2>6. Cardinality(NewerThan(d))' = Cardinality(NewerThan(d)')
    OBVIOUS
  <2>7. Cardinality(NewerThan(d)') >= MaxEntries - 1
    BY <2>2, <2>5
  <2>8. QED
    BY <2>7 DEF Dismissed
<1>5. QED
  BY <1>3, <1>4

\* A domain without an entry has no fewer later answers after one more is kept.
LEMMA AbsentStaysDismissed ==
  ASSUME KeptInv, NEW e \in Domains, NEW d \in Domains \ {e},
         kept[d] # None, Dismissed(d),
         kept' = [kept EXCEPT ![e] = now], UNCHANGED now
  PROVE  Dismissed(d)'
<1> USE WhoisAssumption, WindowType
<1>1. now \in Nat /\ kept \in [Domains -> Nat \cup {None}]
  BY DEF KeptInv, TypeOK
<1>2. kept'[d] = kept[d] /\ kept[d] \in Nat
  BY <1>1
<1>3. CASE now - kept[d] >= Window
  BY <1>2, <1>3 DEF Dismissed, Window
<1>4. CASE Cardinality(NewerThan(d)) >= MaxEntries - 1
  <2>1. NewerThan(d) \subseteq NewerThan(d)'
    <3> SUFFICES ASSUME NEW x \in NewerThan(d) PROVE x \in NewerThan(d)'
      OBVIOUS
    <3>1. x \in Domains \ {d} /\ kept[x] # None /\ kept[x] >= kept[d]
      BY DEF NewerThan
    <3>2. kept[d] <= now
      BY <1>1, <1>2 DEF KeptInv, KeptIsPast
    <3>3. kept'[x] = IF x = e THEN now ELSE kept[x]
      BY <1>1, <3>1
    <3>4. kept'[x] # None /\ kept'[x] >= kept'[d]
      BY <1>1, <1>2, <3>1, <3>2, <3>3
    <3>5. QED
      BY <3>1, <3>4 DEF NewerThan
  <2>2. NewerThan(d)' \in SUBSET Domains
    BY DEF NewerThan
  <2>3. /\ Cardinality(NewerThan(d)) <= Cardinality(NewerThan(d)')
        /\ Cardinality(NewerThan(d)) \in Nat /\ Cardinality(NewerThan(d)') \in Nat
    BY <2>1, <2>2, MoreDomains
  <2>4. Cardinality(NewerThan(d)') >= MaxEntries - 1
    BY <1>4, <2>3
  <2>5. QED
    BY <2>4 DEF Dismissed
<1>5. QED
  BY <1>3, <1>4 DEF Dismissed

LEMMA KeptStep == KeptInv /\ TypeOK' /\ [Next]_vars => KeptInv'
<1> SUFFICES ASSUME KeptInv, TypeOK', [Next]_vars PROVE KeptInv'
  OBVIOUS
<1> USE WhoisAssumption, WindowType
<1>t. /\ now \in Nat /\ cache \in [Domains -> Entry \cup {None}]
      /\ lookup \in [Threads -> Lookup \cup {None}]
      /\ kept \in [Domains -> Nat \cup {None}]
  BY DEF KeptInv, TypeOK
<1>1. ASSUME NEW t \in Threads, NEW d \in Domains, Begin(t, d) PROVE KeptInv'
  BY <1>1, <1>t, KeptStutters DEF Begin
<1>2. ASSUME NEW t \in Threads, RegistryAnswers(t) \/ KeepNot(t) \/ RefuseUnsafe(t)
      PROVE  KeptInv'
  BY <1>2, <1>t, KeptStutters DEF RegistryAnswers, KeepNot, RefuseUnsafe
<1>3. ASSUME NEW t \in Threads, Keep(t) PROVE KeptInv'
  <2> DEFINE e == lookup[t].domain
  <2>1. lookup[t] \in Lookup
    BY <1>3, <1>t DEF Keep, In, Idle
  <2>2. e \in Domains
    BY <2>1 DEF Lookup
  <2>3. PICK spared \in SUBSET Domains :
          /\ Spared(spared)
          /\ cache' = [d \in Domains |->
               IF d = e THEN [at |-> now, said |-> lookup[t].said]
               ELSE IF d \in spared THEN cache[d] ELSE None]
    BY <1>3 DEF Keep
  <2>4. kept' = [kept EXCEPT ![e] = now] /\ UNCHANGED now
    BY <1>3 DEF Keep
  <2>5. KeptIsPast'
    BY <1>t, <2>4 DEF KeptInv, KeptIsPast
  <2>6. EntryIsLastKept'
    <3> SUFFICES ASSUME NEW d \in Domains, cache'[d] # None PROVE kept'[d] = cache'[d].at
      BY DEF EntryIsLastKept
    <3>1. CASE d = e
      BY <1>t, <2>3, <2>4, <3>1
    <3>2. CASE d # e
      <4>1. cache'[d] = cache[d] /\ kept'[d] = kept[d]
        BY <1>t, <2>3, <2>4, <3>2
      <4>2. QED
        BY <4>1 DEF KeptInv, EntryIsLastKept
    <3>3. QED
      BY <3>1, <3>2
  <2>7. GoneIsDismissed'
    <3> SUFFICES ASSUME NEW d \in Domains, kept'[d] # None, cache'[d] = None
                 PROVE  Dismissed(d)'
      BY DEF GoneIsDismissed
    <3>1. d # e
      <4>1. [at |-> now, said |-> lookup[t].said] \in Entry
        BY <1>t, <2>1 DEF Lookup, Entry
      <4>2. QED
        BY <2>3, <4>1
    <3>2. kept[d] # None
      BY <1>t, <2>4, <3>1
    <3>3. CASE cache[d] = None
      <4>1. Dismissed(d)
        BY <3>2, <3>3 DEF KeptInv, GoneIsDismissed
      <4>2. QED
        BY <2>2, <2>4, <3>1, <3>2, <4>1, AbsentStaysDismissed
    <3>4. CASE cache[d] # None
      <4>1. d \notin spared
        BY <2>3, <3>1, <3>4
      <4>2. QED
        BY <2>2, <2>3, <2>4, <3>1, <3>4, <4>1, EvictedIsDismissed
    <3>5. QED
      BY <3>3, <3>4
  <2>8. QED
    BY <2>5, <2>6, <2>7 DEF KeptInv
<1>4. ASSUME NEW t \in Threads, Refuse(t) PROVE KeptInv'
  <2> DEFINE e == lookup[t].domain
  <2>1. UNCHANGED <<now, kept>>
    BY <1>4 DEF Refuse
  <2>2. CASE cache' = cache
    BY <1>t, <2>1, <2>2, KeptStutters
  <2>3. CASE cache' # cache
    <3>1. ~Servable(e) /\ Window > 0 /\ cache' = [cache EXCEPT ![e] = None]
      BY <1>4, <2>3 DEF Refuse
    <3>2. KeptIsPast'
      BY <2>1 DEF KeptInv, KeptIsPast
    <3>3. EntryIsLastKept'
      BY <1>t, <2>1, <3>1 DEF KeptInv, EntryIsLastKept
    <3>4. GoneIsDismissed'
      <4> SUFFICES ASSUME NEW d \in Domains, kept'[d] # None, cache'[d] = None
                   PROVE  Dismissed(d)'
        BY DEF GoneIsDismissed
      <4>1. kept[d] # None
        BY <2>1
      <4>2. CASE cache[d] = None
        <5>1. Dismissed(d)
          BY <4>1, <4>2 DEF KeptInv, GoneIsDismissed
        <5>2. QED
          BY <1>t, <2>1, <4>1, <5>1, DismissedStays
      <4>3. CASE cache[d] # None
        <5>1. d = e
          BY <1>t, <3>1, <4>3
        <5>2. ~(Age(d) < Window)
          BY <3>1, <4>3, <5>1 DEF Servable
        <5>3. cache[d].at \in Nat /\ kept[d] = cache[d].at
          BY <1>t, <4>3 DEF KeptInv, EntryIsLastKept, Entry
        <5>4. Dismissed(d)
          BY <1>t, <5>2, <5>3 DEF Age, Dismissed
        <5>5. QED
          BY <1>t, <2>1, <4>1, <5>4, DismissedStays
      <4>4. QED
        BY <4>2, <4>3
    <3>5. QED
      BY <3>2, <3>3, <3>4 DEF KeptInv
  <2>4. QED
    BY <2>2, <2>3
<1>5. CASE Tick
  BY <1>5, <1>t, KeptStutters DEF Tick
<1>6. CASE UNCHANGED vars
  BY <1>6, <1>t, KeptStutters DEF vars
<1>7. QED
  BY <1>1, <1>2, <1>3, <1>4, <1>5, <1>6 DEF Next

\* What the invariant says of a refusal that is passed on.
LEMMA RefusalHasReason ==
  ASSUME AgeInv, KeptInv, NEW t \in Threads, Refuse(t), reply'.kind = "refused",
         kept[lookup[t].domain] # None
  PROVE  Dismissed(lookup[t].domain)
<1> USE WhoisAssumption, WindowType
<1> DEFINE d == lookup[t].domain
<1>1. /\ now \in Nat /\ cache \in [Domains -> Entry \cup {None}]
      /\ kept \in [Domains -> Nat \cup {None}]
  BY DEF KeptInv, TypeOK
<1>2. d \in Domains
  <2>1. lookup[t] \in Lookup
    BY DEF Refuse, Idle, KeptInv, TypeOK
  <2>2. QED
    BY <2>1 DEF Lookup
<1>3. ~Servable(d)
  <2> SUFFICES ASSUME Servable(d) PROVE FALSE
    OBVIOUS
  <2>1. reply' = [kind |-> "stale", age |-> now - cache[d].said]
    BY DEF Refuse, Return
  <2>2. QED
    BY <2>1
<1>4. CASE Window = 0
  <2>1. kept[d] \in Nat /\ kept[d] <= now
    BY <1>1, <1>2 DEF KeptInv, KeptIsPast
  <2>2. QED
    BY <1>1, <1>4, <2>1 DEF Dismissed
<1>5. CASE cache[d] = None
  BY <1>2, <1>5 DEF KeptInv, GoneIsDismissed
<1>6. CASE Window # 0 /\ cache[d] # None
  <2>1. ~(Age(d) < Window)
    BY <1>3, <1>6 DEF Servable
  <2>2. cache[d].at \in Nat /\ kept[d] = cache[d].at
    BY <1>1, <1>2, <1>6 DEF KeptInv, EntryIsLastKept, Entry
  <2>3. QED
    BY <1>1, <2>1, <2>2 DEF Age, Dismissed
<1>7. QED
  BY <1>4, <1>5, <1>6

\* A lookup fails for a registry's refusal only if no answer was kept within
\* the stale window, or the cache was full of later ones (_cache_get_stale).
THEOREM RefusalsHaveReasons == Spec => RefusalsAreCovered
<1>1. AgeInv /\ KeptInv /\ [Next]_vars
        => [\A t \in Threads :
              Refuse(t) /\ reply'.kind = "refused" =>
                LET d == lookup[t].domain
                IN  kept[d] # None => \/ now - kept[d] >= Window
                                      \/ Cardinality(NewerThan(d)) >= MaxEntries - 1]_vars
  BY RefusalHasReason DEF Dismissed
<1>2. AgeInv /\ [Next]_vars => TypeOK'
  BY AgeStep DEF AgeInv
<1>3. QED
  BY <1>1, <1>2, AgeInit, AgeStep, KeptInit, KeptStep, PTL DEF Spec, RefusalsAreCovered
===============================================================================
