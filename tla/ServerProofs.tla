------------------------------ MODULE ServerProofs ------------------------------
(***************************************************************************)
(* Proofs about four of the parts that MCServer puts side by side: the two *)
(* limits (PublicLimit, LoginLimit), the blacklists (Dnsbl) and start-up   *)
(* (Startup), each for its own specification as it is instantiated there.  *)
(***************************************************************************)
EXTENDS MCServer, FiniteSetTheorems, TLAPS

-----------------------------------------------------------------------------
(* Lists of stamps.  Both limits keep a list of which they drop what is    *)
(* too old, and both have a history of everything that was ever entered.   *)

\* The clock of an entry may have been read up to MaxWait before it was made:
\* so far a later entry may be older than an earlier one, and so much earlier
\* than its window says an entry may have been dropped.
KeptList(list, all, clock, window) ==
    /\ IsFiniteSet(all) /\ all \subseteq [no : Nat, at : Nat] /\ list \subseteq all
    /\ \A e \in all : e.no <= Cardinality(all) /\ e.at <= clock
    /\ \A e, f \in all : f.no <= e.no => f.at <= e.at + MaxWait
    /\ \A e \in all \ list : e.at + window <= clock + MaxWait

\* The last stamp of a list is out of the window.
StaleList(list, at, window) ==
    \E e \in list : (\A f \in list : f.no <= e.no) /\ at - e.at >= window

RecentPart(list, at, window) == {e \in list : at - e.at < window}

LEMMA EmptyList == \A clock, window : KeptList({}, {}, clock, window)
  BY FS_EmptySet DEF KeptList

LEMMA ListAges ==
  ASSUME MaxWait \in Nat, NEW clock \in Nat, NEW window \in Nat, NEW list, NEW all,
         KeptList(list, all, clock, window)
  PROVE  KeptList(list, all, clock + 1, window)
  BY DEF KeptList

\* A list whose last stamp is old may be forgotten: what is before it is not
\* much younger.
LEMMA StaleIsForgotten ==
  ASSUME MaxWait \in Nat, NEW clock \in Nat, NEW window \in Nat, NEW list, NEW all,
         KeptList(list, all, clock, window), NEW at \in Nat, at <= clock,
         StaleList(list, at, window)
  PROVE  KeptList({}, all, clock, window)
<1>1. PICK last \in list : (\A f \in list : f.no <= last.no) /\ at - last.at >= window
  BY DEF StaleList
<1>2. ASSUME NEW e \in all PROVE e.at + window <= clock + MaxWait
  <2>1. last \in all /\ e.at \in Nat /\ last.at \in Nat
    BY <1>1 DEF KeptList
  <2>2. CASE e \in list
    <3>1. e.at <= last.at + MaxWait
      BY <1>1, <2>1, <2>2 DEF KeptList
    <3>2. QED
      BY <1>1, <2>1, <3>1
  <2>3. CASE e \notin list
    BY <2>3 DEF KeptList
  <2>4. QED
    BY <2>2, <2>3
<1>3. QED
  BY <1>2 DEF KeptList

LEMMA OldIsDropped ==
  ASSUME MaxWait \in Nat, NEW clock \in Nat, NEW window \in Nat, NEW list, NEW all,
         KeptList(list, all, clock, window), NEW at \in Nat, at <= clock
  PROVE  KeptList(RecentPart(list, at, window), all, clock, window)
<1>1. ASSUME NEW e \in all, e \notin RecentPart(list, at, window)
      PROVE  e.at + window <= clock + MaxWait
  <2>1. e.at \in Nat
    BY DEF KeptList
  <2>2. CASE e \in list
    <3>1. ~(at - e.at < window)
      BY <1>1, <2>2 DEF RecentPart
    <3>2. QED
      BY <2>1, <3>1
  <2>3. CASE e \notin list
    BY <2>3 DEF KeptList
  <2>4. QED
    BY <2>2, <2>3
<1>2. QED
  BY <1>1 DEF KeptList, RecentPart

\* An entry is made with a stamp that is not too old.
LEMMA EntryIsAdded ==
  ASSUME MaxWait \in Nat, NEW clock \in Nat, NEW window \in Nat, NEW list, NEW all,
         KeptList(list, all, clock, window), NEW at \in Nat, at <= clock,
         clock - at <= MaxWait, NEW new, new = [no |-> Cardinality(all) + 1, at |-> at]
  PROVE  /\ KeptList(list \cup {new}, all \cup {new}, clock, window)
         /\ new \notin all
<1>1. Cardinality(all) \in Nat
  BY FS_CardinalityType DEF KeptList
<1>2. new \notin all
  BY <1>1 DEF KeptList
<1>3. IsFiniteSet(all \cup {new}) /\ Cardinality(all \cup {new}) = Cardinality(all) + 1
  BY <1>2, FS_AddElement DEF KeptList
<1>4. all \cup {new} \subseteq [no : Nat, at : Nat] /\ list \cup {new} \subseteq all \cup {new}
  BY <1>1 DEF KeptList
<1>5. \A e \in all \cup {new} : e.no <= Cardinality(all \cup {new}) /\ e.at <= clock
  BY <1>1, <1>3 DEF KeptList
<1>6. ASSUME NEW e \in all \cup {new}, NEW f \in all \cup {new}, f.no <= e.no
      PROVE  f.at <= e.at + MaxWait
  <2>1. \A g \in all : g.no \in Nat /\ g.at \in Nat /\ g.no <= Cardinality(all) /\ g.at <= clock
    BY DEF KeptList
  <2>2. CASE e \in all /\ f \in all
    BY <1>6, <2>2 DEF KeptList
  <2>3. CASE e \in all /\ f = new
    BY <1>1, <1>6, <2>1, <2>3
  <2>4. CASE e = new
    BY <1>1, <2>1, <2>4
  <2>5. QED
    BY <2>2, <2>3, <2>4
<1>7. \A e \in (all \cup {new}) \ (list \cup {new}) : e.at + window <= clock + MaxWait
  BY DEF KeptList
<1>8. QED
  BY <1>2, <1>3, <1>4, <1>5, <1>6, <1>7 DEF KeptList

\* Whoever makes an entry sees every other one of a window that holds it.
LEMMA WindowIsSeen ==
  ASSUME MaxWait \in Nat, NEW clock \in Nat, NEW window \in Nat, NEW list, NEW all,
         KeptList(list, all, clock, window), NEW at \in Nat, clock - at <= MaxWait,
         NEW last \in Nat, at <= last,
         NEW e \in all, last - e.at < window - 2 * MaxWait
  PROVE  e \in RecentPart(list, at, window)
<1>1. e.at \in Nat
  BY DEF KeptList
<1>2. e \in list
  BY <1>1 DEF KeptList
<1>3. QED
  BY <1>1, <1>2 DEF RecentPart
-----------------------------------------------------------------------------
(* The limit on public checks.                                             *)

LEMMA PublicCardinality == \A S : Public!Cardinality(S) = Cardinality(S)
  BY DEF Public!Cardinality, Cardinality

PublicLists == \A c \in Clients : KeptList(requests[c], admitted[c], now, CheckWindow)

PublicWaits ==
    \A t \in Threads : waiting[t] # None =>
        waiting[t].stamp <= now /\ now - waiting[t].stamp <= MaxWait

PublicInv == Public!TypeOK /\ PublicLists /\ PublicWaits /\ AtMostLimitInWindow

LEMMA PublicConstants ==
    Limit \in Nat \ {0} /\ CheckWindow \in Nat /\ MaxWait \in Nat /\ MaxTime \in Nat
  BY ServerAssumption DEF Public!PublicLimitAssumption

LEMMA PublicInit == Public!Init => PublicInv
<1> SUFFICES ASSUME Public!Init PROVE PublicInv
  OBVIOUS
<1>1. Public!TypeOK
  BY DEF Public!Init, Public!TypeOK
<1>2. PublicLists
  BY EmptyList DEF Public!Init, PublicLists
<1>3. PublicWaits
  BY DEF Public!Init, PublicWaits
<1>4. AtMostLimitInWindow
  <2>1. ASSUME NEW c \in Clients, NEW last \in 0..MaxTime
        PROVE  Cardinality(Public!InWindow(c, last)) <= Limit
    <3>1. Public!InWindow(c, last) = {}
      BY DEF Public!Init, Public!InWindow
    <3>2. QED
      BY <3>1, FS_EmptySet, PublicConstants
  <2>2. QED
    BY <2>1, PublicCardinality DEF AtMostLimitInWindow, Public!AtMostLimitInWindow
<1>5. QED
  BY <1>1, <1>2, <1>3, <1>4 DEF PublicInv

\* Pruning the table leaves every list a good one.
LEMMA PublicPruneKeeps ==
  ASSUME Public!TypeOK, PublicLists, NEW at \in Nat, at <= now, NEW c \in Clients
  PROVE  /\ Public!Pruned(at) \in [Clients -> SUBSET Public!Stamps]
         /\ KeptList(Public!Pruned(at)[c], admitted[c], now, CheckWindow)
<1>1. requests \in [Clients -> SUBSET Public!Stamps] /\ now \in Nat
  BY DEF Public!TypeOK
<1>2. KeptList(requests[c], admitted[c], now, CheckWindow)
  BY DEF PublicLists
<1>3. CASE Public!Pruned(at) = requests
  BY <1>1, <1>2, <1>3
<1>4. CASE Public!Pruned(at) = [d \in Clients |-> IF Public!Stale(d, at) THEN {} ELSE requests[d]]
  <2>1. Public!Stale(c, at) => StaleList(requests[c], at, CheckWindow)
    BY DEF Public!Stale, StaleList
  <2>2. Public!Pruned(at)[c] = IF Public!Stale(c, at) THEN {} ELSE requests[c]
    BY <1>4
  <2>3. KeptList(Public!Pruned(at)[c], admitted[c], now, CheckWindow)
    BY <1>1, <1>2, <2>1, <2>2, StaleIsForgotten, PublicConstants
  <2>4. QED
    BY <1>1, <1>4, <2>3
<1>5. QED
  BY <1>3, <1>4 DEF Public!Pruned

LEMMA PublicEnter ==
  ASSUME PublicInv, NEW t \in Threads, Public!Enter(t) PROVE PublicInv'
<1> DEFINE c      == waiting[t].client
           at     == waiting[t].stamp
           pruned == Public!Pruned(at)
           recent == Public!Recent(pruned[c], at)
           new    == [no |-> Cardinality(admitted[c]) + 1, at |-> at]
<1>t. /\ now \in Nat /\ waiting \in [Threads -> [client : Clients, stamp : Nat] \cup {None}]
      /\ admitted \in [Clients -> SUBSET Public!Stamps]
  BY DEF PublicInv, Public!TypeOK
<1>1. /\ c \in Clients /\ at \in Nat /\ at <= now /\ now - at <= MaxWait
      /\ now' = now /\ waiting' = [waiting EXCEPT ![t] = None]
  BY <1>t DEF Public!Enter, PublicInv, PublicWaits
<1>2. PublicWaits'
  BY <1>1, <1>t DEF PublicInv, PublicWaits
<1>3. /\ pruned \in [Clients -> SUBSET Public!Stamps]
      /\ \A d \in Clients : KeptList(pruned[d], admitted[d], now, CheckWindow)
  BY <1>1, PublicPruneKeeps DEF PublicInv
<1>4. KeptList(recent, admitted[c], now, CheckWindow)
      /\ recent = RecentPart(pruned[c], at, CheckWindow)
  <2>1. recent = RecentPart(pruned[c], at, CheckWindow)
    BY DEF Public!Recent, RecentPart
  <2>2. QED
    BY <1>t, <1>1, <1>3, <2>1, OldIsDropped, PublicConstants
<1> HIDE DEF pruned, recent
<1>5. CASE requests' = pruned /\ admitted' = admitted
  <2>1. Public!TypeOK'
    BY <1>t, <1>1, <1>3, <1>5 DEF Public!TypeOK
  <2>2. PublicLists'
    BY <1>1, <1>3, <1>5 DEF PublicLists
  <2>3. AtMostLimitInWindow'
    BY <1>5 DEF PublicInv, AtMostLimitInWindow, Public!AtMostLimitInWindow, Public!InWindow
  <2>4. QED
    BY <1>2, <2>1, <2>2, <2>3 DEF PublicInv
<1>6. CASE /\ ~(Cardinality(recent) >= Limit)
           /\ requests' = [pruned EXCEPT ![c] = recent \cup {new}]
           /\ admitted' = [admitted EXCEPT ![c] = @ \cup {new}]
  <2>1. /\ KeptList(recent \cup {new}, admitted[c] \cup {new}, now, CheckWindow)
        /\ new \notin admitted[c]
    <3>1. new = [no |-> Cardinality(admitted[c]) + 1, at |-> at]
      OBVIOUS
    <3> HIDE DEF new, c, at
    <3>2. QED
      BY <1>t, <1>1, <1>4, <3>1, EntryIsAdded, PublicConstants
  <2>2. new \in Public!Stamps /\ recent \cup {new} \subseteq Public!Stamps
    BY <2>1 DEF KeptList, Public!Stamps
  <2>3. Public!TypeOK'
    BY <1>t, <1>1, <1>3, <1>6, <2>2 DEF Public!TypeOK
  <2>4. \A d \in Clients : /\ requests'[d] = IF d = c THEN recent \cup {new} ELSE pruned[d]
                           /\ admitted'[d] = IF d = c THEN admitted[c] \cup {new} ELSE admitted[d]
    BY <1>t, <1>3, <1>6
  <2> HIDE DEF new
  <2>5. PublicLists'
    BY <1>1, <1>3, <2>1, <2>4 DEF PublicLists
  <2>6. ASSUME NEW d \in Clients, NEW last \in 0..MaxTime
        PROVE  Cardinality(Public!InWindow(d, last)') <= Limit
    <3> DEFINE before == Public!InWindow(d, last)
    <3>0. Cardinality(before) <= Limit
      BY PublicCardinality DEF PublicInv, AtMostLimitInWindow, Public!AtMostLimitInWindow
    <3>1. CASE Public!InWindow(d, last)' = before
      BY <3>0, <3>1
    <3>2. CASE Public!InWindow(d, last)' # before
      <4>1. d = c /\ new.at = at
        BY <2>4, <3>2 DEF Public!InWindow, new
      <4>2. Public!InWindow(d, last)' = before \cup {new} /\ at <= last
        BY <2>4, <3>2, <4>1 DEF Public!InWindow
      <4>3. last \in Nat
        BY PublicConstants
      <4>4. before \subseteq recent
        <5>1. ASSUME NEW e \in before PROVE e \in RecentPart(pruned[c], at, CheckWindow)
          <6>1. e \in admitted[c] /\ last - e.at < CheckWindow - 2 * MaxWait
            BY <4>1 DEF Public!InWindow
          <6>2. QED
            BY <1>t, <1>1, <1>3, <4>2, <4>3, <6>1, WindowIsSeen, PublicConstants
        <5>2. QED
          BY <1>4, <5>1
      <4>5. IsFiniteSet(recent)
        BY <1>4, FS_Subset DEF KeptList
      <4>6. /\ IsFiniteSet(before) /\ Cardinality(before) <= Cardinality(recent)
            /\ Cardinality(before) \in Nat /\ Cardinality(recent) \in Nat
        BY <4>4, <4>5, FS_Subset, FS_CardinalityType
      <4> HIDE DEF before
      <4>7. Cardinality(before \cup {new}) <= Cardinality(before) + 1
        BY <4>6, FS_AddElement
      <4>8. Cardinality(before \cup {new}) \in Nat
        BY <4>6, FS_AddElement, FS_CardinalityType
      <4>9. QED
        BY <1>6, <4>2, <4>6, <4>7, <4>8, PublicConstants DEF before
    <3>3. QED
      BY <3>1, <3>2
  <2>7. AtMostLimitInWindow'
    BY <2>6, PublicCardinality DEF AtMostLimitInWindow, Public!AtMostLimitInWindow
  <2>8. QED
    BY <1>2, <2>3, <2>5, <2>7 DEF PublicInv
<1>7. QED
  BY <1>5, <1>6, PublicCardinality DEF Public!Enter, pruned, recent

LEMMA PublicStep == PublicInv /\ [Public!Next]_(Public!vars) => PublicInv'
<1> SUFFICES ASSUME PublicInv, [Public!Next]_(Public!vars) PROVE PublicInv'
  OBVIOUS
<1>t. /\ now \in Nat /\ waiting \in [Threads -> [client : Clients, stamp : Nat] \cup {None}]
      /\ \A c \in Clients : KeptList(requests[c], admitted[c], now, CheckWindow)
  BY DEF PublicInv, PublicLists, Public!TypeOK
<1>1. CASE UNCHANGED Public!vars
  BY <1>1 DEF PublicInv, PublicLists, PublicWaits, Public!TypeOK, Public!vars,
     AtMostLimitInWindow, Public!AtMostLimitInWindow, Public!InWindow
<1>2. ASSUME NEW t \in Threads, Public!Enter(t) PROVE PublicInv'
  BY <1>2, PublicEnter
<1>3. ASSUME NEW t \in Threads, NEW c \in Clients, Public!Arrive(t, c) PROVE PublicInv'
  <2>1. /\ waiting' = [waiting EXCEPT ![t] = [client |-> c, stamp |-> now]]
        /\ UNCHANGED <<now, requests, admitted>>
    BY <1>3 DEF Public!Arrive
  <2>2. PublicWaits' /\ Public!TypeOK'
    BY <1>t, <2>1, PublicConstants DEF PublicInv, PublicWaits, Public!TypeOK
  <2>3. QED
    BY <2>1, <2>2 DEF PublicInv, PublicLists, AtMostLimitInWindow, Public!AtMostLimitInWindow,
       Public!InWindow
<1>4. CASE Public!Tick
  <2>1. /\ now' = now + 1 /\ UNCHANGED <<requests, waiting, admitted>>
        /\ \A t \in Threads : waiting[t] # None => now - waiting[t].stamp < MaxWait
    BY <1>4 DEF Public!Tick
  <2>2. PublicWaits' /\ Public!TypeOK'
    BY <1>t, <2>1, PublicConstants DEF PublicInv, PublicWaits, Public!TypeOK
  <2>3. PublicLists'
    BY <1>t, <2>1, ListAges, PublicConstants DEF PublicLists
  <2>4. AtMostLimitInWindow'
    BY <2>1 DEF PublicInv, AtMostLimitInWindow, Public!AtMostLimitInWindow, Public!InWindow
  <2>5. QED
    BY <2>2, <2>3, <2>4 DEF PublicInv
<1>5. QED
  BY <1>1, <1>2, <1>3, <1>4 DEF Public!Next

\* No client gets more than the limit of quick checks through in any window, for
\* any number of clients and request threads and any size of the table, however
\* requests wait for the lock and the table is pruned (_enforce_public_check_limit).
THEOREM PublicChecksAreLimited == Public!Spec => []AtMostLimitInWindow
<1>1. PublicInv => AtMostLimitInWindow
  BY DEF PublicInv
<1>2. QED
  BY <1>1, PublicInit, PublicStep, PTL DEF Public!Spec

-----------------------------------------------------------------------------
(* The lock-out after failed logins.                                       *)

LoginLists == \A k \in Keys : KeptList(attempts[k], failures[k], now, LoginWindow)

LoginWaits ==
    \A t \in Threads : login[t].pc = "failed" =>
        login[t].stamp <= now /\ now - login[t].stamp <= MaxWait

\* Logins that may still fail, or have failed, within a window.
Pending(k, last) ==
    {t \in Threads : /\ login[t].key = k
                     /\ \/ login[t].pc = "verifying" /\ now <= last
                        \/ /\ login[t].pc = "failed" /\ login[t].stamp <= last
                           /\ last - login[t].stamp < LoginWindow - 2 * MaxWait}

\* A window with all the failures there may be is over, or the key is locked
\* to its end.
FullWindowsAreLocked ==
    \A k \in Keys : \A last \in 0..MaxTime :
        Cardinality(Login!InWindow(k, last)) >= MaxFailures =>
            \/ locked[k] # None /\ locked[k] > last
            \/ now > last

PendingAreCounted ==
    \A k \in Keys : \A last \in 0..MaxTime :
        Cardinality(Login!InWindow(k, last)) + Cardinality(Pending(k, last))
            < MaxFailures + Cardinality(Threads)

LoginInv ==
    Login!TypeOK /\ LoginLists /\ LoginWaits /\ FullWindowsAreLocked /\ PendingAreCounted

LEMMA LoginCardinality ==
    /\ \A S : Login!Cardinality(S) = Cardinality(S)
    /\ \A S : Login!IsFiniteSet(S) = IsFiniteSet(S)
  BY DEF Login!Cardinality, Cardinality, Login!IsFiniteSet, IsFiniteSet

LEMMA LoginConstants ==
    /\ MaxFailures \in Nat \ {0} /\ LoginWindow \in Nat /\ LockTime \in Nat
    /\ MaxWait \in Nat /\ MaxTime \in Nat
    /\ LockTime >= LoginWindow /\ None \notin Nat
    /\ IsFiniteSet(Threads) /\ Cardinality(Threads) \in Nat
  BY ServerAssumption, LoginCardinality, FS_CardinalityType DEF Login!LoginLimitAssumption

LEMMA LoginTypes ==
  ASSUME Login!TypeOK
  PROVE  /\ now \in Nat
         /\ attempts \in [Keys -> SUBSET Login!Stamps] /\ failures \in [Keys -> SUBSET Login!Stamps]
         /\ locked \in [Keys -> Nat \cup {None}]
         /\ DOMAIN login = Threads
         /\ \A t \in Threads :
              /\ login[t].pc \in {"idle", "verifying", "failed"}
              /\ login[t].pc = "idle" => login[t] = Login!Idle
              /\ login[t].pc # "idle" => login[t] \in [pc : {"verifying", "failed"}, key : Keys,
                                                        stamp : Nat]
  BY DEF Login!TypeOK, Login!Idle

LEMMA LoginSets ==
  ASSUME LoginLists, NEW k \in Keys, NEW last
  PROVE  /\ IsFiniteSet(Login!InWindow(k, last)) /\ Cardinality(Login!InWindow(k, last)) \in Nat
         /\ \A P \in SUBSET Threads : /\ IsFiniteSet(P) /\ Cardinality(P) \in Nat
                                      /\ Cardinality(P) <= Cardinality(Threads)
<1>1. IsFiniteSet(failures[k]) /\ Login!InWindow(k, last) \subseteq failures[k]
  BY DEF LoginLists, KeptList, Login!InWindow
<1>2. QED
  BY <1>1, FS_Subset, FS_CardinalityType, LoginConstants

LEMMA LoginInit == Login!Init => LoginInv
<1> SUFFICES ASSUME Login!Init PROVE LoginInv
  OBVIOUS
<1>1. Login!TypeOK
  BY DEF Login!Init, Login!TypeOK
<1>2. LoginLists
  BY EmptyList DEF Login!Init, LoginLists
<1>3. LoginWaits
  BY DEF Login!Init, LoginWaits, Login!Idle
<1>4. ASSUME NEW k \in Keys, NEW last
      PROVE  Cardinality(Login!InWindow(k, last)) = 0 /\ Cardinality(Pending(k, last)) = 0
  <2>1. Login!InWindow(k, last) = {} /\ Pending(k, last) = {}
    BY DEF Login!Init, Login!InWindow, Pending, Login!Idle
  <2>2. QED
    BY <2>1, FS_EmptySet
<1>5. FullWindowsAreLocked /\ PendingAreCounted
  BY <1>4, LoginConstants DEF FullWindowsAreLocked, PendingAreCounted
<1>6. QED
  BY <1>1, <1>2, <1>3, <1>5 DEF LoginInv

\* A step that records nothing and frees no key keeps the counts.
LEMMA NothingRecorded ==
  ASSUME LoginInv, Login!TypeOK', LoginWaits', UNCHANGED <<attempts, locked, failures>>,
         now' = now \/ now' = now + 1,
         \A k \in Keys : \A last \in 0..MaxTime :
            \/ Pending(k, last)' \subseteq Pending(k, last)
            \/ Cardinality(Login!InWindow(k, last)) < MaxFailures
  PROVE  LoginInv'
<1>t. now \in Nat /\ locked \in [Keys -> Nat \cup {None}]
  BY LoginTypes DEF LoginInv
<1>1. LoginLists'
  BY <1>t, ListAges, LoginConstants DEF LoginInv, LoginLists
<1>2. \A k \in Keys : \A last : Login!InWindow(k, last)' = Login!InWindow(k, last)
  BY DEF Login!InWindow
<1>3. FullWindowsAreLocked'
  <2>1. now' >= now
    BY <1>t
  <2>2. QED
    BY <1>t, <1>2, <2>1, LoginConstants DEF LoginInv, FullWindowsAreLocked
<1>4. ASSUME NEW k \in Keys, NEW last \in 0..MaxTime
      PROVE  Cardinality(Login!InWindow(k, last)) + Cardinality(Pending(k, last)')
               < MaxFailures + Cardinality(Threads)
  <2>1. /\ Cardinality(Login!InWindow(k, last)) \in Nat
        /\ \A P \in SUBSET Threads : /\ IsFiniteSet(P) /\ Cardinality(P) \in Nat
                                     /\ Cardinality(P) <= Cardinality(Threads)
    BY LoginSets DEF LoginInv
  <2>2. Pending(k, last)' \in SUBSET Threads /\ Pending(k, last) \in SUBSET Threads
    BY DEF Pending
  <2>3. CASE Pending(k, last)' \subseteq Pending(k, last)
    <3>1. Cardinality(Pending(k, last)') <= Cardinality(Pending(k, last))
      BY <2>1, <2>2, <2>3, FS_Subset
    <3>2. Cardinality(Login!InWindow(k, last)) + Cardinality(Pending(k, last))
            < MaxFailures + Cardinality(Threads)
      BY DEF LoginInv, PendingAreCounted
    <3>3. QED
      BY <2>1, <2>2, <3>1, <3>2, LoginConstants
  <2>4. CASE Cardinality(Login!InWindow(k, last)) < MaxFailures
    BY <2>1, <2>2, <2>4, LoginConstants
  <2>5. QED
    BY <2>3, <2>4
<1>5. PendingAreCounted'
  BY <1>2, <1>4 DEF PendingAreCounted
<1>6. QED
  BY <1>1, <1>3, <1>5 DEF LoginInv

LEMMA LoginPruneKeeps ==
  ASSUME Login!TypeOK, LoginLists, NEW at \in Nat, at <= now, NEW k \in Keys
  PROVE  /\ Login!Pruned(at) \in [Keys -> SUBSET Login!Stamps]
         /\ KeptList(Login!Pruned(at)[k], failures[k], now, LoginWindow)
<1>1. attempts \in [Keys -> SUBSET Login!Stamps] /\ now \in Nat
  BY DEF Login!TypeOK
<1>2. KeptList(attempts[k], failures[k], now, LoginWindow)
  BY DEF LoginLists
<1>3. CASE Login!Pruned(at) = attempts
  BY <1>1, <1>2, <1>3
<1>4. CASE Login!Pruned(at) = [j \in Keys |-> IF Login!Stale(j, at) THEN {} ELSE attempts[j]]
  <2>1. Login!Stale(k, at) => StaleList(attempts[k], at, LoginWindow)
    BY DEF Login!Stale, StaleList
  <2>2. Login!Pruned(at)[k] = IF Login!Stale(k, at) THEN {} ELSE attempts[k]
    BY <1>4
  <2>3. KeptList(Login!Pruned(at)[k], failures[k], now, LoginWindow)
    BY <1>1, <1>2, <2>1, <2>2, StaleIsForgotten, LoginConstants
  <2>4. QED
    BY <1>1, <1>4, <2>3
<1>5. QED
  BY <1>3, <1>4 DEF Login!Pruned

\* Pruning drops no lock that still holds.
LEMMA LocksPruned ==
  ASSUME Login!TypeOK, NEW at \in Nat, at <= now
  PROVE  /\ Login!PrunedLocks(at) \in [Keys -> Nat \cup {None}]
         /\ \A k \in Keys : \/ Login!PrunedLocks(at)[k] = locked[k]
                            \/ locked[k] = None \/ locked[k] <= now
<1>1. locked \in [Keys -> Nat \cup {None}] /\ now \in Nat
  BY DEF Login!TypeOK
<1>2. CASE Login!PrunedLocks(at) = locked
  BY <1>1, <1>2
<1>3. CASE Login!PrunedLocks(at) =
             [k \in Keys |-> IF locked[k] # None /\ locked[k] > at THEN locked[k] ELSE None]
  BY <1>1, <1>3
<1>4. QED
  BY <1>2, <1>3 DEF Login!PrunedLocks

LEMMA LoginRecord ==
  ASSUME LoginInv, NEW t \in Threads, Login!RecordFailure(t) PROVE LoginInv'
<1> DEFINE k      == login[t].key
           at     == login[t].stamp
           pruned == Login!Pruned(at)
           locks  == Login!PrunedLocks(at)
           new    == [no |-> Cardinality(failures[k]) + 1, at |-> at]
           recent == Login!Recent(pruned[k], at) \cup {new}
           inside(j, last) == j = k /\ at <= last /\ last - at < LoginWindow - 2 * MaxWait
<1> USE LoginConstants
<1>t. /\ now \in Nat /\ login[t].pc = "failed"
      /\ failures \in [Keys -> SUBSET Login!Stamps] /\ locked \in [Keys -> Nat \cup {None}]
      /\ DOMAIN login = Threads
  BY LoginTypes DEF LoginInv, Login!RecordFailure
<1>1. /\ k \in Keys /\ at \in Nat /\ at <= now /\ now - at <= MaxWait
      /\ now' = now /\ login' = [login EXCEPT ![t] = Login!Idle]
  BY <1>t, LoginTypes DEF Login!RecordFailure, LoginInv, LoginWaits
<1>2. /\ attempts' = [pruned EXCEPT ![k] = recent]
      /\ locked' = IF Cardinality(recent) >= MaxFailures
                   THEN [locks EXCEPT ![k] = at + LockTime] ELSE locks
      /\ failures' = [failures EXCEPT ![k] = failures[k] \cup {new}]
  BY LoginCardinality DEF Login!RecordFailure
<1>3. /\ pruned \in [Keys -> SUBSET Login!Stamps]
      /\ \A j \in Keys : KeptList(pruned[j], failures[j], now, LoginWindow)
  BY <1>1, LoginPruneKeeps DEF LoginInv
<1>4. /\ locks \in [Keys -> Nat \cup {None}]
      /\ \A j \in Keys : locks[j] = locked[j] \/ locked[j] = None \/ locked[j] <= now
  BY <1>1, LocksPruned DEF LoginInv
<1>5. recent = RecentPart(pruned[k], at, LoginWindow) \cup {new}
  BY DEF Login!Recent, RecentPart
<1>6. /\ KeptList(recent, failures[k] \cup {new}, now, LoginWindow)
      /\ new \notin failures[k]
  <2>1. new = [no |-> Cardinality(failures[k]) + 1, at |-> at]
    OBVIOUS
  <2> HIDE DEF new, k, at, pruned, recent
  <2>2. KeptList(RecentPart(pruned[k], at, LoginWindow), failures[k], now, LoginWindow)
    BY <1>t, <1>1, <1>3, OldIsDropped
  <2>3. QED
    BY <1>t, <1>1, <1>5, <2>1, <2>2, EntryIsAdded
<1>7. new.at = at
  OBVIOUS
<1> HIDE DEF pruned, locks, recent, new
<1>8. \A j \in Keys :
        /\ attempts'[j] = IF j = k THEN recent ELSE pruned[j]
        /\ failures'[j] = IF j = k THEN failures[k] \cup {new} ELSE failures[j]
        /\ locked'[j] = IF j = k /\ Cardinality(recent) >= MaxFailures
                        THEN at + LockTime ELSE locks[j]
  BY <1>t, <1>1, <1>2, <1>3, <1>4
<1>9. Login!TypeOK'
  <2>1. new \in Login!Stamps /\ recent \subseteq Login!Stamps
    BY <1>6 DEF KeptList, Login!Stamps
  <2>2. attempts' \in [Keys -> SUBSET Login!Stamps] /\ failures' \in [Keys -> SUBSET Login!Stamps]
    BY <1>t, <1>1, <1>2, <1>3, <2>1
  <2>3. locked' \in [Keys -> Nat \cup {None}]
    BY <1>1, <1>2, <1>4
  <2>4. QED
    BY <1>1, <2>2, <2>3 DEF LoginInv, Login!TypeOK
<1>10. LoginLists'
  BY <1>1, <1>3, <1>6, <1>8 DEF LoginLists
<1>11. \A u \in Threads : login'[u] = IF u = t THEN Login!Idle ELSE login[u]
  BY <1>t, <1>1
<1>12. LoginWaits'
  BY <1>1, <1>11 DEF LoginInv, LoginWaits, Login!Idle
<1>13. ASSUME NEW j \in Keys, NEW last \in 0..MaxTime
       PROVE  /\ Login!InWindow(j, last)' = IF inside(j, last)
                                            THEN Login!InWindow(j, last) \cup {new}
                                            ELSE Login!InWindow(j, last)
              /\ Pending(j, last)' = Pending(j, last) \ {t}
              /\ t \in Pending(j, last) <=> inside(j, last)
  <2>1. Login!InWindow(j, last)' = IF inside(j, last)
                                   THEN Login!InWindow(j, last) \cup {new}
                                   ELSE Login!InWindow(j, last)
    BY <1>7, <1>8 DEF Login!InWindow
  <2>2. Pending(j, last)' = Pending(j, last) \ {t}
    BY <1>1, <1>11 DEF Pending, Login!Idle
  <2>3. t \in Pending(j, last) <=> inside(j, last)
    BY <1>t DEF Pending
  <2>4. QED
    BY <2>1, <2>2, <2>3
<1>14. ASSUME NEW j \in Keys, NEW last \in 0..MaxTime,
              Cardinality(Login!InWindow(j, last)') >= MaxFailures, ~(now > last)
       PROVE  locked'[j] # None /\ locked'[j] > last
  <2>0. last \in Nat /\ LoginLists /\ FullWindowsAreLocked
    BY DEF LoginInv
  <2>1. CASE j = k /\ Cardinality(recent) >= MaxFailures
    <3>1. Login!InWindow(j, last)' # {}
      BY <1>14, FS_EmptySet
    <3>2. PICK e \in failures'[k] : e.at <= last /\ last - e.at < LoginWindow - 2 * MaxWait
      BY <2>1, <3>1 DEF Login!InWindow
    <3>3. e.at \in Nat /\ e.at <= now
      BY <1>1, <1>6, <1>8, <3>2 DEF KeptList
    <3>4. locked'[j] = at + LockTime
      BY <1>8, <2>1
    <3> HIDE DEF at, k
    <3>5. at + LockTime > last /\ at + LockTime \in Nat
      BY <1>t, <1>1, <2>0, <3>2, <3>3
    <3>6. QED
      BY <3>4, <3>5
  <2>2. CASE ~(j = k /\ Cardinality(recent) >= MaxFailures)
    <3>1. CASE inside(j, last)
      <4>1. Login!InWindow(j, last) \subseteq RecentPart(pruned[k], at, LoginWindow)
        <5>1. ASSUME NEW e \in Login!InWindow(j, last)
              PROVE  e \in RecentPart(pruned[k], at, LoginWindow)
          <6>1. e \in failures[k] /\ last - e.at < LoginWindow - 2 * MaxWait
            BY <3>1 DEF Login!InWindow
          <6>2. KeptList(pruned[k], failures[k], now, LoginWindow)
            BY <1>1, <1>3
          <6> HIDE DEF at, k
          <6>3. QED
            BY <1>t, <1>1, <2>0, <3>1, <6>1, <6>2, WindowIsSeen
        <5>2. QED
          BY <5>1
      <4>2. Login!InWindow(j, last)' \subseteq recent
        BY <1>5, <1>13, <3>1, <4>1
      <4>3. IsFiniteSet(recent)
        BY <1>6, FS_Subset DEF KeptList
      <4>4. /\ Cardinality(Login!InWindow(j, last)') <= Cardinality(recent)
            /\ Cardinality(Login!InWindow(j, last)') \in Nat /\ Cardinality(recent) \in Nat
        BY <4>2, <4>3, FS_Subset, FS_CardinalityType
      <4>5. QED
        BY <1>14, <2>2, <3>1, <4>4
    <3>2. CASE ~inside(j, last)
      <4>1. locked[j] # None /\ locked[j] > last
        BY <1>13, <1>14, <2>0, <3>2 DEF FullWindowsAreLocked
      <4>2. locks[j] = locked[j]
        BY <1>t, <1>4, <1>14, <2>0, <4>1
      <4>3. locked'[j] = locks[j]
        BY <1>8, <2>2
      <4>4. QED
        BY <4>1, <4>2, <4>3
    <3>3. QED
      BY <3>1, <3>2
  <2>3. QED
    BY <2>1, <2>2
<1>15. FullWindowsAreLocked'
  BY <1>1, <1>14 DEF FullWindowsAreLocked
<1>16. ASSUME NEW j \in Keys, NEW last \in 0..MaxTime
       PROVE  Cardinality(Login!InWindow(j, last)') + Cardinality(Pending(j, last)')
                < MaxFailures + Cardinality(Threads)
  <2> DEFINE before == Login!InWindow(j, last)
             due    == Pending(j, last)
  <2>1. /\ IsFiniteSet(before) /\ Cardinality(before) \in Nat
        /\ IsFiniteSet(due) /\ Cardinality(due) \in Nat
    BY LoginSets DEF LoginInv, Pending
  <2>2. Cardinality(before) + Cardinality(due) < MaxFailures + Cardinality(Threads)
    BY DEF LoginInv, PendingAreCounted
  <2>3. inside(j, last) => new \notin before
    BY <1>6 DEF Login!InWindow
  <2>4. /\ Login!InWindow(j, last)' = IF inside(j, last) THEN before \cup {new} ELSE before
        /\ Pending(j, last)' = due \ {t}
        /\ t \in due <=> inside(j, last)
    BY <1>13
  <2> HIDE DEF before, due, inside
  <2>5. CASE inside(j, last)
    <3>1. Cardinality(before \cup {new}) = Cardinality(before) + 1
      BY <2>1, <2>3, <2>5, FS_AddElement
    <3>2. Cardinality(due \ {t}) = Cardinality(due) - 1
      BY <2>1, <2>4, <2>5, FS_RemoveElement
    <3>3. QED
      BY <2>1, <2>2, <2>4, <2>5, <3>1, <3>2
  <2>6. CASE ~inside(j, last)
    <3>1. due \ {t} = due
      BY <2>4, <2>6
    <3>2. QED
      BY <2>2, <2>4, <2>6, <3>1
  <2>7. QED
    BY <2>5, <2>6
<1>17. PendingAreCounted'
  BY <1>16 DEF PendingAreCounted
<1>18. QED
  BY <1>9, <1>10, <1>12, <1>15, <1>17 DEF LoginInv

LEMMA LoginStep == LoginInv /\ [Login!Next]_(Login!vars) => LoginInv'
<1> SUFFICES ASSUME LoginInv, [Login!Next]_(Login!vars) PROVE LoginInv'
  OBVIOUS
<1> USE LoginConstants
<1>t. /\ now \in Nat /\ DOMAIN login = Threads
      /\ attempts \in [Keys -> SUBSET Login!Stamps] /\ failures \in [Keys -> SUBSET Login!Stamps]
      /\ locked \in [Keys -> Nat \cup {None}]
      /\ \A t \in Threads :
           login[t].pc # "idle" => login[t] \in [pc : {"verifying", "failed"}, key : Keys,
                                                 stamp : Nat]
  BY LoginTypes DEF LoginInv
<1>i. Login!TypeOK /\ LoginWaits /\ LoginLists /\ FullWindowsAreLocked /\ PendingAreCounted
  BY DEF LoginInv
<1>1. CASE UNCHANGED Login!vars
  BY <1>i, <1>1 DEF LoginInv, LoginLists, LoginWaits, Login!TypeOK, Login!vars, Pending,
     FullWindowsAreLocked, PendingAreCounted, Login!InWindow
<1>2. ASSUME NEW t \in Threads, NEW k \in Keys, Login!Begin(t, k) PROVE LoginInv'
  <2> DEFINE new == [pc |-> "verifying", key |-> k, stamp |-> 0]
  <2>1. /\ login' = [login EXCEPT ![t] = new] /\ UNCHANGED <<now, attempts, locked, failures>>
        /\ locked[k] # None => ~(locked[k] > now)
    BY <1>2 DEF Login!Begin, Login!Locked
  <2>2. \A u \in Threads : login'[u] = IF u = t THEN new ELSE login[u]
    BY <1>t, <2>1
  <2>3. Login!TypeOK' /\ LoginWaits'
    BY <1>i, <2>1, <2>2 DEF Login!TypeOK, LoginWaits
  <2>4. ASSUME NEW j \in Keys, NEW last \in 0..MaxTime
        PROVE  \/ Pending(j, last)' \subseteq Pending(j, last)
               \/ Cardinality(Login!InWindow(j, last)) < MaxFailures
    <3>1. CASE j = k /\ now <= last
      <4>1. ~(Cardinality(Login!InWindow(j, last)) >= MaxFailures)
        BY <1>t, <1>i, <2>1, <3>1 DEF FullWindowsAreLocked
      <4>2. Cardinality(Login!InWindow(j, last)) \in Nat
        BY <1>i, LoginSets
      <4>3. QED
        BY <4>1, <4>2
    <3>2. CASE ~(j = k /\ now <= last)
      BY <2>1, <2>2, <3>2 DEF Pending
    <3>3. QED
      BY <3>1, <3>2
  <2>5. QED
    BY <2>1, <2>3, <2>4, NothingRecorded
<1>3. ASSUME NEW t \in Threads, Login!Fail(t) PROVE LoginInv'
  <2> DEFINE new == [login[t] EXCEPT !.pc = "failed", !.stamp = now]
  <2>1. /\ login' = [login EXCEPT ![t] = new] /\ UNCHANGED <<now, attempts, locked, failures>>
        /\ login[t].pc = "verifying"
    BY <1>3 DEF Login!Fail
  <2>2. login[t] \in [pc : {"verifying", "failed"}, key : Keys, stamp : Nat]
    BY <1>t, <2>1
  <2>3. new.pc = "failed" /\ new.key = login[t].key /\ new.stamp = now
    BY <2>2
  <2>4. new \in [pc : {"verifying", "failed"}, key : Keys, stamp : Nat]
    BY <1>t, <2>2
  <2> HIDE DEF new
  <2>5. \A u \in Threads : login'[u] = IF u = t THEN new ELSE login[u]
    BY <1>t, <2>1
  <2>6. Login!TypeOK' /\ LoginWaits'
    BY <1>t, <1>i, <2>1, <2>3, <2>4, <2>5 DEF Login!TypeOK, LoginWaits
  <2>7. \A j \in Keys : \A last \in 0..MaxTime : Pending(j, last)' \subseteq Pending(j, last)
    BY <2>1, <2>3, <2>5 DEF Pending
  <2>8. QED
    BY <2>1, <2>6, <2>7, NothingRecorded
<1>4. ASSUME NEW t \in Threads, Login!RecordFailure(t) PROVE LoginInv'
  BY <1>4, LoginRecord
<1>5. ASSUME NEW t \in Threads, Login!Inactive(t) PROVE LoginInv'
  <2>1. login' = [login EXCEPT ![t] = Login!Idle] /\ UNCHANGED <<now, attempts, locked, failures>>
    BY <1>5 DEF Login!Inactive
  <2>2. \A u \in Threads : login'[u] = IF u = t THEN Login!Idle ELSE login[u]
    BY <1>t, <2>1
  <2>3. Login!TypeOK' /\ LoginWaits'
    BY <1>i, <2>1, <2>2 DEF Login!TypeOK, LoginWaits, Login!Idle
  <2>4. \A j \in Keys : \A last \in 0..MaxTime : Pending(j, last)' \subseteq Pending(j, last)
    BY <2>1, <2>2 DEF Pending, Login!Idle
  <2>5. QED
    BY <2>1, <2>3, <2>4, NothingRecorded
<1>6. ASSUME NEW t \in Threads, Login!Succeed(t) PROVE LoginInv'
  <2> DEFINE k == login[t].key
  <2>1. /\ login' = [login EXCEPT ![t] = Login!Idle] /\ UNCHANGED now
        /\ attempts' = [attempts EXCEPT ![k] = {}]
        /\ failures' = [failures EXCEPT ![k] = {}]
        /\ locked' = [locked EXCEPT ![k] = None] /\ k \in Keys
    BY <1>6, <1>t DEF Login!Succeed
  <2> HIDE DEF k
  <2>2. \A u \in Threads : login'[u] = IF u = t THEN Login!Idle ELSE login[u]
    BY <1>t, <2>1
  <2>3. \A j \in Keys : /\ attempts'[j] = IF j = k THEN {} ELSE attempts[j]
                        /\ failures'[j] = IF j = k THEN {} ELSE failures[j]
                        /\ locked'[j] = IF j = k THEN None ELSE locked[j]
    BY <1>t, <2>1
  <2>4. attempts' \in [Keys -> SUBSET Login!Stamps] /\ failures' \in [Keys -> SUBSET Login!Stamps]
        /\ locked' \in [Keys -> Nat \cup {None}]
    BY <1>t, <2>1
  <2>5. Login!TypeOK' /\ LoginWaits'
    BY <1>i, <2>1, <2>2, <2>4 DEF Login!TypeOK, LoginWaits, Login!Idle
  <2>6. LoginLists'
    BY <1>i, <2>1, <2>3, EmptyList DEF LoginLists
  <2>7. ASSUME NEW j \in Keys, NEW last \in 0..MaxTime
        PROVE  /\ Pending(j, last)' \subseteq Pending(j, last)
               /\ Login!InWindow(j, last)' = IF j = k THEN {} ELSE Login!InWindow(j, last)
    BY <2>1, <2>2, <2>3 DEF Pending, Login!Idle, Login!InWindow
  <2>8. FullWindowsAreLocked'
    <3>1. ASSUME NEW j \in Keys, NEW last \in 0..MaxTime,
                 Cardinality(Login!InWindow(j, last)') >= MaxFailures
          PROVE  (locked'[j] # None /\ locked'[j] > last) \/ now > last
      <4>1. j # k
        BY <2>7, <3>1, FS_EmptySet
      <4>2. locked'[j] = locked[j] /\ Cardinality(Login!InWindow(j, last)) >= MaxFailures
        BY <2>3, <2>7, <3>1, <4>1
      <4>3. QED
        BY <1>i, <4>2 DEF FullWindowsAreLocked
    <3>2. QED
      BY <2>1, <3>1 DEF FullWindowsAreLocked
  <2>9. ASSUME NEW j \in Keys, NEW last \in 0..MaxTime
        PROVE  Cardinality(Login!InWindow(j, last)') + Cardinality(Pending(j, last)')
                 < MaxFailures + Cardinality(Threads)
    <3>1. /\ Cardinality(Login!InWindow(j, last)) \in Nat
          /\ \A P \in SUBSET Threads : /\ IsFiniteSet(P) /\ Cardinality(P) \in Nat
                                       /\ Cardinality(P) <= Cardinality(Threads)
      BY <1>i, LoginSets
    <3>2. Pending(j, last)' \in SUBSET Threads /\ Pending(j, last) \in SUBSET Threads
      BY DEF Pending
    <3>3. CASE j = k
      BY <2>7, <3>1, <3>2, <3>3, FS_EmptySet
    <3>4. CASE j # k
      <4>1. Cardinality(Pending(j, last)') <= Cardinality(Pending(j, last))
        BY <2>7, <3>1, <3>2, FS_Subset
      <4>2. Cardinality(Login!InWindow(j, last)) + Cardinality(Pending(j, last))
              < MaxFailures + Cardinality(Threads)
        BY <1>i DEF PendingAreCounted
      <4>3. QED
        BY <2>7, <3>1, <3>2, <3>4, <4>1, <4>2
    <3>5. QED
      BY <3>3, <3>4
  <2>10. QED
    BY <2>5, <2>6, <2>8, <2>9 DEF LoginInv, PendingAreCounted
<1>7. CASE Login!Tick
  <2>1. /\ now' = now + 1 /\ UNCHANGED <<attempts, locked, login, failures>>
        /\ \A t \in Threads : login[t].pc = "failed" => now - login[t].stamp < MaxWait
    BY <1>7 DEF Login!Tick
  <2>2. Login!TypeOK'
    BY <1>t, <1>i, <2>1 DEF Login!TypeOK
  <2>3. LoginWaits'
    <3>1. ASSUME NEW t \in Threads, login'[t].pc = "failed"
          PROVE  login'[t].stamp <= now' /\ now' - login'[t].stamp <= MaxWait
      <4>1. login'[t] = login[t] /\ login[t].pc = "failed" /\ now' = now + 1
        BY <2>1, <3>1
      <4>2. login[t].stamp \in Nat /\ login[t].stamp <= now /\ now - login[t].stamp < MaxWait
        BY <1>t, <1>i, <2>1, <4>1 DEF LoginWaits
      <4>3. QED
        BY <1>t, <4>1, <4>2
    <3>2. QED
      BY <3>1 DEF LoginWaits
  <2>4. \A j \in Keys : \A last \in 0..MaxTime : Pending(j, last)' \subseteq Pending(j, last)
    BY <1>t, <2>1 DEF Pending
  <2>5. QED
    BY <2>1, <2>2, <2>3, <2>4, NothingRecorded
<1>8. QED
  BY <1>1, <1>2, <1>3, <1>4, <1>5, <1>6, <1>7 DEF Login!Next

\* Short of a success, a key gets no more failures in any window than the limit
\* and the logins that were being verified when the lock fell, for any number of
\* keys and request threads (_check_login_limit and _record_login_failure).
THEOREM GuessesAreBounded == Login!Spec => []FailuresAreBounded
<1>1. ASSUME LoginInv PROVE FailuresAreBounded
  <2>1. ASSUME NEW k \in Keys, NEW last \in 0..MaxTime
        PROVE  Cardinality(Login!InWindow(k, last)) < MaxFailures + Cardinality(Threads)
    <3>1. /\ Cardinality(Login!InWindow(k, last)) \in Nat
          /\ Cardinality(Pending(k, last)) \in Nat
      BY <1>1, LoginSets DEF LoginInv, Pending
    <3>2. Cardinality(Login!InWindow(k, last)) + Cardinality(Pending(k, last))
            < MaxFailures + Cardinality(Threads)
      BY <1>1 DEF LoginInv, PendingAreCounted
    <3>3. QED
      BY <3>1, <3>2, LoginConstants
  <2>2. QED
    BY <2>1, LoginCardinality DEF FailuresAreBounded, Login!FailuresAreBounded
<1>2. QED
  BY <1>1, LoginInit, LoginStep, PTL DEF Login!Spec

-----------------------------------------------------------------------------
(* The blacklists.                                                         *)

\* A passed test is remembered for TestTTL.  Unless the provider still answers
\* as it should it has changed since the test began, at most MaxTest earlier.
TestsAreFresh ==
    \A p \in Providers :
        /\ changed[p] <= now /\ okUntil[p] <= now + TestTTL
        /\ okUntil[p] > changed[p] + TestTTL + MaxTest => mode[p] = "good"

\* What holds of a test of one provider: one that has answered the first query
\* as it should, or both, does so still or has changed since.
TestIsRight(k, p) ==
    k.stage \in {"second", "passed"} =>
        /\ k.since <= now /\ now <= k.since + MaxTest
        /\ mode[p] # "good" =>
             changed[p] >= k.since \/ (k.stage = "second" /\ mode[p] = "flooding")

TestsAreRight == \A t \in Blacklists!Testers, p \in Providers : TestIsRight(test[t][p], p)

\* Only the providers a check has yet to test are tested for it, from its start.
TestsAreOfChecks ==
    \A c \in Checks, p \in Providers : test[c][p].stage # "none" =>
        /\ check[c].pc = "testing" /\ p \in check[c].todo
        /\ test[c][p].stage # "first" => check[c].start <= test[c][p].since

\* The provider has answered the query of the check.
Answered(k, p) ==
    /\ p \notin k.failed
    /\ k.pc = "testing" \/ (k.pc \in {"first", "retry"} /\ p \notin k.todo)

ChecksAreRight ==
    \A c \in Checks :
        /\ check[c].start <= now
        /\ check[c].listed \cap check[c].failed = {}
        /\ check[c].pc \in {"first", "retry"} => check[c].listed \cap check[c].todo = {}
        /\ \A p \in Providers : Blacklists!Steady(c, p) =>
             /\ Answered(check[c], p) =>
                  Blacklists!Answer(p, p \in listing) =
                      IF p \in check[c].listed THEN "listed" ELSE "clean"
             /\ check[c].pc = "testing" /\ p \notin check[c].todo \cup check[c].failed
                  => mode[p] = "good"

BlacklistInv ==
    Blacklists!TypeOK /\ TestsAreFresh /\ TestsAreRight /\ TestsAreOfChecks /\ ChecksAreRight

LEMMA BlacklistCardinality ==
    /\ \A S : Blacklists!Cardinality(S) = Cardinality(S)
    /\ \A S : Blacklists!IsFiniteSet(S) = IsFiniteSet(S)
  BY DEF Blacklists!Cardinality, Cardinality, Blacklists!IsFiniteSet, IsFiniteSet

LEMMA BlacklistConstants ==
    /\ Spamhaus \in Providers /\ IsFiniteSet(Providers)
    /\ TooMany \in Nat \ {0} /\ TestTTL \in Nat \ {0} /\ MaxTest \in Nat
  BY ServerAssumption, BlacklistCardinality DEF Blacklists!DnsblAssumption

LEMMA BlacklistTypes ==
  ASSUME Blacklists!TypeOK
  PROVE  /\ now \in Nat /\ listing \subseteq Providers
         /\ mode \in [Providers -> Blacklists!Modes]
         /\ changed \in [Providers -> Int] /\ okUntil \in [Providers -> Int]
         /\ check \in [Checks -> Blacklists!Check]
         /\ test \in [Blacklists!Testers -> [Providers -> Blacklists!Test]]
         /\ \A c \in Checks :
              /\ check[c].pc \in {"idle", "first", "retry", "testing"} /\ check[c].start \in Int
              /\ check[c].todo \subseteq Providers /\ check[c].listed \subseteq Providers
              /\ check[c].failed \subseteq Providers /\ check[c].refused \subseteq Providers
         /\ \A t \in Blacklists!Testers, p \in Providers :
              /\ test[t][p].stage \in {"none", "first", "second", "passed"}
              /\ test[t][p].since \in Int
<1>1. \A t \in Blacklists!Testers, p \in Providers : test[t][p] \in Blacklists!Test
  BY DEF Blacklists!TypeOK
<1>2. QED
  BY <1>1 DEF Blacklists!TypeOK, Blacklists!Check, Blacklists!Test

LEMMA BlacklistInit == Blacklists!Init => BlacklistInv
<1> SUFFICES ASSUME Blacklists!Init PROVE BlacklistInv
  OBVIOUS
<1>1. /\ Blacklists!NotTesting \in Blacklists!Test /\ Blacklists!NotTesting.stage = "none"
      /\ \A t \in Blacklists!Testers, p \in Providers : test[t][p] = Blacklists!NotTesting
      /\ test \in [Blacklists!Testers -> [Providers -> Blacklists!Test]]
  <2>1. Blacklists!NotTesting \in Blacklists!Test /\ Blacklists!NotTesting.stage = "none"
    BY DEF Blacklists!NotTesting, Blacklists!Test
  <2>2. test = [t \in Blacklists!Testers |-> [p \in Providers |-> Blacklists!NotTesting]]
    BY DEF Blacklists!Init
  <2>3. QED
    BY <2>1, <2>2
<1>2. Blacklists!TypeOK
  BY <1>1, BlacklistConstants
     DEF Blacklists!Init, Blacklists!TypeOK, Blacklists!Idle, Blacklists!Check
<1>3. TestsAreFresh
  BY BlacklistConstants DEF Blacklists!Init, TestsAreFresh
<1>4. TestsAreRight /\ TestsAreOfChecks
  BY <1>1 DEF TestsAreRight, TestIsRight, TestsAreOfChecks, Blacklists!Testers
<1>5. ChecksAreRight
  BY DEF Blacklists!Init, ChecksAreRight, Blacklists!Idle, Answered
<1>6. QED
  BY <1>2, <1>3, <1>4, <1>5 DEF BlacklistInv

\* What holds of one check.
CheckIsRight(k) ==
    /\ k.start <= now
    /\ k.listed \cap k.failed = {}
    /\ k.pc \in {"first", "retry"} => k.listed \cap k.todo = {}
    /\ \A p \in Providers : changed[p] + TestTTL + MaxTest <= k.start =>
         /\ Answered(k, p) => Blacklists!Answer(p, p \in listing) =
                                IF p \in k.listed THEN "listed" ELSE "clean"
         /\ k.pc = "testing" /\ p \notin k.todo \cup k.failed => mode[p] = "good"

LEMMA OneByOne == ChecksAreRight <=> \A c \in Checks : CheckIsRight(check[c])
  BY DEF ChecksAreRight, CheckIsRight, Blacklists!Steady

\* One check has moved on, and nothing that the others rest on has changed.
LEMMA OneCheckChanges ==
  ASSUME BlacklistInv, NEW c \in Checks, NEW new \in Blacklists!Check,
         CheckIsRight(new), Blacklists!Update(c, new),
         UNCHANGED <<now, listing, mode, changed>>
  PROVE  /\ check' \in [Checks -> Blacklists!Check]
         /\ \A d \in Checks : check'[d] = IF d = c THEN new ELSE check[d]
         /\ ChecksAreRight'
<1>t. check \in [Checks -> Blacklists!Check]
  BY BlacklistTypes DEF BlacklistInv
<1>1. check' = [check EXCEPT ![c] = new]
  BY DEF Blacklists!Update
<1>2. \A d \in Checks : check'[d] = IF d = c THEN new ELSE check[d]
  BY <1>t, <1>1
<1>3. check' \in [Checks -> Blacklists!Check]
  BY <1>t, <1>1
<1>4. ASSUME NEW d \in Checks PROVE CheckIsRight(check[d])'
  <2> DEFINE k == IF d = c THEN new ELSE check[d]
  <2>1. CheckIsRight(k) /\ check'[d] = k
    BY <1>2, OneByOne DEF BlacklistInv
  <2> HIDE DEF k
  <2>2. QED
    BY <2>1 DEF CheckIsRight, Answered, Blacklists!Answer
<1>5. ChecksAreRight'
  BY <1>4 DEF ChecksAreRight, CheckIsRight, Blacklists!Steady
<1>6. QED
  BY <1>2, <1>3, <1>5

\* A check that tests nothing moves on.
LEMMA OneCheckMoves ==
  ASSUME BlacklistInv, NEW c \in Checks, NEW new \in Blacklists!Check,
         check[c].pc # "testing" \/ check[c].todo = {},
         CheckIsRight(new), Blacklists!Update(c, new),
         UNCHANGED <<now, listing, mode, changed, changes, okUntil, test>>
  PROVE  BlacklistInv'
<1>1. /\ check' \in [Checks -> Blacklists!Check] /\ ChecksAreRight'
      /\ \A d \in Checks : check'[d] = IF d = c THEN new ELSE check[d]
  BY OneCheckChanges
<1>2. Blacklists!TypeOK'
  BY <1>1 DEF BlacklistInv, Blacklists!TypeOK
<1>3. TestsAreFresh' /\ TestsAreRight'
  BY DEF BlacklistInv, TestsAreFresh, TestsAreRight, TestIsRight
<1>4. \A p \in Providers : test[c][p].stage = "none"
  BY DEF BlacklistInv, TestsAreOfChecks
<1>5. TestsAreOfChecks'
  BY <1>1, <1>4 DEF BlacklistInv, TestsAreOfChecks
<1>6. QED
  BY <1>1, <1>2, <1>3, <1>5 DEF BlacklistInv

\* What checks have noted stays right while neither they nor the lists change.
LEMMA ChecksStayRight ==
  ASSUME ChecksAreRight, UNCHANGED <<now, listing, mode, changed, check>>
  PROVE  ChecksAreRight'
<1>1. ASSUME NEW c \in Checks PROVE CheckIsRight(check[c])'
  <2>1. CheckIsRight(check[c])
    BY OneByOne
  <2>2. QED
    BY <2>1 DEF CheckIsRight, Answered, Blacklists!Answer
<1>2. QED
  BY <1>1 DEF ChecksAreRight, CheckIsRight, Blacklists!Steady

\* One test moves on.
LEMMA OneTestChanges ==
  ASSUME BlacklistInv, NEW t \in Blacklists!Testers, NEW p \in Providers,
         NEW new \in Blacklists!Test, TestIsRight(new, p),
         test' = [test EXCEPT ![t][p] = new], UNCHANGED <<now, mode, changed>>
  PROVE  /\ test' \in [Blacklists!Testers -> [Providers -> Blacklists!Test]] /\ TestsAreRight'
         /\ \A u \in Blacklists!Testers, q \in Providers :
              test'[u][q] = IF u = t /\ q = p THEN new ELSE test[u][q]
<1>t. test \in [Blacklists!Testers -> [Providers -> Blacklists!Test]]
  BY BlacklistTypes DEF BlacklistInv
<1>1. test' \in [Blacklists!Testers -> [Providers -> Blacklists!Test]]
  BY <1>t
<1>2. \A u \in Blacklists!Testers, q \in Providers :
        test'[u][q] = IF u = t /\ q = p THEN new ELSE test[u][q]
  BY <1>t
<1>3. ASSUME NEW u \in Blacklists!Testers, NEW q \in Providers PROVE TestIsRight(test[u][q], q)'
  <2> DEFINE k == IF u = t /\ q = p THEN new ELSE test[u][q]
  <2>1. TestIsRight(k, q) /\ test'[u][q] = k
    BY <1>2 DEF BlacklistInv, TestsAreRight
  <2> HIDE DEF k
  <2>2. QED
    BY <2>1 DEF TestIsRight
<1>4. QED
  BY <1>1, <1>2, <1>3 DEF TestsAreRight

\* A test goes on: the check it is for has nothing to note yet.
LEMMA TestGoesOn ==
  ASSUME BlacklistInv, NEW t \in Blacklists!Testers, NEW p \in Providers,
         NEW new \in Blacklists!Test, TestIsRight(new, p),
         t \in Checks => /\ check[t].pc = "testing" /\ p \in check[t].todo
                         /\ new.stage # "first" => check[t].start <= new.since,
         test' = [test EXCEPT ![t][p] = new],
         UNCHANGED <<now, listing, mode, changed, changes, okUntil, check>>
  PROVE  BlacklistInv'
<1>1. /\ test' \in [Blacklists!Testers -> [Providers -> Blacklists!Test]] /\ TestsAreRight'
      /\ \A u \in Blacklists!Testers, q \in Providers :
           test'[u][q] = IF u = t /\ q = p THEN new ELSE test[u][q]
  BY OneTestChanges, ZenonT(30)
<1>2. Blacklists!TypeOK' /\ TestsAreFresh' /\ ChecksAreRight'
  BY <1>1, ChecksStayRight DEF BlacklistInv, Blacklists!TypeOK, TestsAreFresh
<1>3. TestsAreOfChecks'
  BY <1>1 DEF BlacklistInv, TestsAreOfChecks, Blacklists!Testers
<1>4. QED
  BY <1>1, <1>2, <1>3 DEF BlacklistInv

\* A test is over: what it found of a provider that has not changed is true.
LEMMA TestEnds ==
  ASSUME BlacklistInv, NEW t \in Blacklists!Testers, NEW p \in Providers,
         NEW healthy \in BOOLEAN, Blacklists!Conclude(t, p, healthy),
         t \in Checks => /\ check[t].pc = "testing" /\ p \in check[t].todo
                         /\ healthy /\ changed[p] + TestTTL + MaxTest <= check[t].start
                              => mode[p] = "good",
         UNCHANGED <<now, listing, mode, changed, changes>>,
         okUntil' \in [Providers -> Int], TestsAreFresh'
  PROVE  BlacklistInv'
<1>n. Blacklists!NotTesting \in Blacklists!Test /\ Blacklists!NotTesting.stage = "none"
  BY DEF Blacklists!NotTesting, Blacklists!Test
<1>1. /\ test' \in [Blacklists!Testers -> [Providers -> Blacklists!Test]] /\ TestsAreRight'
      /\ \A u \in Blacklists!Testers, q \in Providers :
           test'[u][q] = IF u = t /\ q = p THEN Blacklists!NotTesting ELSE test[u][q]
  <2> DEFINE new == Blacklists!NotTesting
  <2>1. test' = [test EXCEPT ![t][p] = new]
    BY DEF Blacklists!Conclude
  <2>2. new \in Blacklists!Test /\ new.stage = "none"
    BY <1>n
  <2> HIDE DEF new
  <2>3. TestIsRight(new, p) /\ UNCHANGED <<now, mode, changed>>
    BY <2>2 DEF TestIsRight
  <2>4. /\ test' \in [Blacklists!Testers -> [Providers -> Blacklists!Test]] /\ TestsAreRight'
        /\ \A u \in Blacklists!Testers, q \in Providers :
             test'[u][q] = IF u = t /\ q = p THEN new ELSE test[u][q]
    BY <2>1, <2>2, <2>3, OneTestChanges, ZenonT(30)
  <2>5. QED
    BY <2>4 DEF new
<1>2. CASE t \notin Checks
  <2>1. UNCHANGED check
    BY <1>2 DEF Blacklists!Conclude
  <2>2. Blacklists!TypeOK' /\ ChecksAreRight'
    BY <1>1, <2>1, ChecksStayRight DEF BlacklistInv, Blacklists!TypeOK
  <2>3. TestsAreOfChecks'
    BY <1>1, <1>2, <2>1 DEF BlacklistInv, TestsAreOfChecks, Blacklists!Testers
  <2>4. QED
    BY <1>1, <2>2, <2>3 DEF BlacklistInv
<1>3. CASE t \in Checks
  <2> DEFINE k   == check[t]
             new == Blacklists!Judged(k, p, healthy)
  <2>1. /\ k \in Blacklists!Check /\ CheckIsRight(k) /\ k.pc = "testing" /\ p \in k.todo
        /\ Blacklists!Update(t, new)
        /\ healthy /\ changed[p] + TestTTL + MaxTest <= k.start => mode[p] = "good"
    BY <1>3, OneByOne, BlacklistTypes DEF BlacklistInv, Blacklists!Conclude
  <2> HIDE DEF k
  <2>2. /\ new.pc = "testing" /\ new.start = k.start /\ new.todo = k.todo \ {p}
        /\ new.listed = IF healthy THEN k.listed ELSE k.listed \ {p}
        /\ new.failed = IF healthy THEN k.failed ELSE k.failed \cup {p}
        /\ new \in Blacklists!Check
    BY <2>1 DEF Blacklists!Check, Blacklists!Judged
  <2> HIDE DEF new
  <2>3. CheckIsRight(new)
    BY <2>1, <2>2 DEF CheckIsRight, Answered
  <2>4. /\ check' \in [Checks -> Blacklists!Check] /\ ChecksAreRight'
        /\ \A d \in Checks : check'[d] = IF d = t THEN new ELSE check[d]
    BY <1>3, <2>1, <2>2, <2>3, OneCheckChanges
  <2>5. Blacklists!TypeOK'
    BY <1>1, <2>4 DEF BlacklistInv, Blacklists!TypeOK
  <2>6. ASSUME NEW c \in Checks, NEW q \in Providers, test'[c][q].stage # "none"
        PROVE  /\ check'[c].pc = "testing" /\ q \in check'[c].todo
               /\ test'[c][q].stage # "first" => check'[c].start <= test'[c][q].since
    <3>1. ~(c = t /\ q = p) /\ test'[c][q] = test[c][q]
      BY <1>n, <1>1, <2>6 DEF Blacklists!Testers
    <3>2. /\ check[c].pc = "testing" /\ q \in check[c].todo
          /\ test[c][q].stage # "first" => check[c].start <= test[c][q].since
      BY <2>6, <3>1 DEF BlacklistInv, TestsAreOfChecks
    <3>3. CASE c = t
      BY <2>2, <2>4, <3>1, <3>2, <3>3 DEF k
    <3>4. CASE c # t
      BY <2>4, <3>1, <3>2, <3>4
    <3>5. QED
      BY <3>3, <3>4
  <2>7. TestsAreOfChecks'
    BY <2>6 DEF TestsAreOfChecks
  <2>8. QED
    BY <1>1, <2>4, <2>5, <2>7 DEF BlacklistInv
<1>4. QED
  BY <1>2, <1>3

\* The steps of a test.
LEMMA TestSteps ==
  ASSUME BlacklistInv, NEW t \in Blacklists!Testers, NEW p \in Providers,
         \/ Blacklists!Remembered(t, p) \/ Blacklists!Ask(t, p)
         \/ Blacklists!FirstAnswer(t, p) \/ Blacklists!SecondAnswer(t, p)
         \/ Blacklists!Remember(t, p)
  PROVE  BlacklistInv'
<1> DEFINE k == test[t][p]
<1>t. /\ now \in Nat /\ mode \in [Providers -> Blacklists!Modes]
      /\ changed \in [Providers -> Int] /\ okUntil \in [Providers -> Int]
      /\ k \in Blacklists!Test /\ k.since \in Int
      /\ test \in [Blacklists!Testers -> [Providers -> Blacklists!Test]]
      /\ \A c \in Checks : check[c].start \in Int /\ check[c].start <= now
      /\ TestTTL \in Nat \ {0} /\ MaxTest \in Nat /\ changed[p] \in Int /\ okUntil[p] \in Int
  BY BlacklistTypes, BlacklistConstants DEF BlacklistInv, ChecksAreRight
<1>m. mode[p] \in {"good", "silent", "flooding", "refusing"}
  BY <1>t DEF Blacklists!Modes
<1>r. TestIsRight(k, p)
  BY DEF BlacklistInv, TestsAreRight
<1>c. t \in Checks /\ k.stage # "none" =>
        /\ check[t].pc = "testing" /\ p \in check[t].todo
        /\ k.stage # "first" => check[t].start <= k.since
  BY DEF BlacklistInv, TestsAreOfChecks
<1>f. UNCHANGED <<now, mode, changed, okUntil>> => okUntil' \in [Providers -> Int] /\ TestsAreFresh'
  BY <1>t DEF BlacklistInv, TestsAreFresh
<1>1. ASSUME Blacklists!Remembered(t, p) PROVE BlacklistInv'
  <2>1. /\ Blacklists!Conclude(t, p, TRUE) /\ okUntil[p] > now
        /\ t \in Checks => check[t].pc = "testing" /\ p \in check[t].todo
        /\ UNCHANGED <<now, listing, mode, changed, changes, okUntil>>
    BY <1>1 DEF Blacklists!Remembered, Blacklists!MayTest
  <2>2. ASSUME t \in Checks, changed[p] + TestTTL + MaxTest <= check[t].start
        PROVE  mode[p] = "good"
    <3>1. okUntil[p] > changed[p] + TestTTL + MaxTest
      BY <1>t, <2>1, <2>2
    <3>2. QED
      BY <3>1 DEF BlacklistInv, TestsAreFresh
  <2>3. QED
    BY <1>f, <2>1, <2>2, TestEnds
<1>2. ASSUME Blacklists!Ask(t, p) PROVE BlacklistInv'
  <2> DEFINE new == [k EXCEPT !.stage = "first"]
  <2>1. new \in Blacklists!Test /\ new.stage = "first"
    BY <1>t DEF Blacklists!Test
  <2>2. test' = [test EXCEPT ![t][p] = new]
    BY <1>2 DEF Blacklists!Ask
  <2>3. /\ t \in Checks => check[t].pc = "testing" /\ p \in check[t].todo
        /\ UNCHANGED <<now, listing, mode, changed, changes, okUntil, check>>
    BY <1>2 DEF Blacklists!Ask, Blacklists!MayTest
  <2> HIDE DEF new
  <2>4. TestIsRight(new, p)
    BY <2>1 DEF TestIsRight
  <2>5. QED
    BY <2>1, <2>2, <2>3, <2>4, TestGoesOn
<1>3. ASSUME Blacklists!FirstAnswer(t, p) PROVE BlacklistInv'
  <2>1. k.stage = "first" /\ UNCHANGED <<now, listing, mode, changed, changes, okUntil>>
    BY <1>3 DEF Blacklists!FirstAnswer
  <2>2. PICK answer \in {Blacklists!Answer(p, TRUE), Blacklists!Lost} :
          IF answer = "listed"
          THEN /\ test' = [test EXCEPT ![t][p] = [stage |-> "second", since |-> now]]
               /\ UNCHANGED check
          ELSE Blacklists!Conclude(t, p, FALSE)
    BY <1>3 DEF Blacklists!FirstAnswer, Blacklists!Wanted
  <2>3. CASE answer = "listed"
    <3> DEFINE new == [stage |-> "second", since |-> now]
    <3>1. new \in Blacklists!Test /\ new.stage = "second" /\ new.since = now
      BY <1>t DEF Blacklists!Test
    <3>2. test' = [test EXCEPT ![t][p] = new] /\ UNCHANGED check
      BY <2>2, <2>3
    <3>3. mode[p] \in {"good", "flooding"}
      BY <1>m, <2>2, <2>3 DEF Blacklists!Answer, Blacklists!Lost
    <3> HIDE DEF new
    <3>4. TestIsRight(new, p)
      BY <1>t, <3>1, <3>3 DEF TestIsRight
    <3>5. t \in Checks => /\ check[t].pc = "testing" /\ p \in check[t].todo
                          /\ check[t].start <= new.since
      BY <1>t, <1>c, <2>1, <3>1
    <3>6. QED
      BY <2>1, <3>1, <3>2, <3>4, <3>5, TestGoesOn
  <2>4. CASE answer # "listed"
    BY <1>c, <1>f, <2>1, <2>2, <2>4, TestEnds
  <2>5. QED
    BY <2>3, <2>4
<1>4. ASSUME Blacklists!SecondAnswer(t, p) PROVE BlacklistInv'
  <2>1. k.stage = "second" /\ UNCHANGED <<now, listing, mode, changed, changes, okUntil>>
    BY <1>4 DEF Blacklists!SecondAnswer
  <2>2. PICK answer \in {Blacklists!Answer(p, FALSE), Blacklists!Lost} :
          IF answer = "clean"
          THEN test' = [test EXCEPT ![t][p].stage = "passed"] /\ UNCHANGED check
          ELSE Blacklists!Conclude(t, p, FALSE)
    BY <1>4 DEF Blacklists!SecondAnswer, Blacklists!Wanted
  <2>3. CASE answer = "clean"
    <3> DEFINE new == [k EXCEPT !.stage = "passed"]
    <3>1. new \in Blacklists!Test /\ new.stage = "passed" /\ new.since = k.since
      BY <1>t DEF Blacklists!Test
    <3>2. test' = [test EXCEPT ![t][p] = new] /\ UNCHANGED check
      BY <2>2, <2>3
    <3>3. mode[p] \in {"good", "silent"}
      BY <1>m, <2>2, <2>3 DEF Blacklists!Answer, Blacklists!Lost
    <3> HIDE DEF new
    <3>4. TestIsRight(new, p)
      BY <1>r, <2>1, <3>1, <3>3 DEF TestIsRight
    <3>5. QED
      BY <1>c, <2>1, <3>1, <3>2, <3>4, TestGoesOn
  <2>4. CASE answer # "clean"
    BY <1>c, <1>f, <2>1, <2>2, <2>4, TestEnds
  <2>5. QED
    BY <2>3, <2>4
<1>5. ASSUME Blacklists!Remember(t, p) PROVE BlacklistInv'
  <2>1. /\ k.stage = "passed" /\ Blacklists!Conclude(t, p, TRUE)
        /\ okUntil' = [okUntil EXCEPT ![p] = now + TestTTL]
        /\ UNCHANGED <<now, listing, mode, changed, changes>>
    BY <1>5 DEF Blacklists!Remember
  <2>2. /\ k.since <= now /\ now <= k.since + MaxTest
        /\ mode[p] # "good" => changed[p] >= k.since
    BY <1>r, <2>1 DEF TestIsRight
  <2> HIDE DEF k
  <2>3. /\ okUntil' \in [Providers -> Int]
        /\ \A q \in Providers : okUntil'[q] = IF q = p THEN now + TestTTL ELSE okUntil[q]
    BY <1>t, <2>1
  <2>4. now + TestTTL > changed[p] + TestTTL + MaxTest => mode[p] = "good"
    BY <1>t, <2>2
  <2>5. TestsAreFresh'
    BY <1>t, <2>1, <2>3, <2>4 DEF BlacklistInv, TestsAreFresh
  <2>6. ASSUME t \in Checks, changed[p] + TestTTL + MaxTest <= check[t].start
        PROVE  mode[p] = "good"
    <3>1. check[t].start <= k.since /\ check[t].start \in Int
      BY <1>c, <1>t, <2>1, <2>6
    <3>2. QED
      BY <1>t, <2>2, <2>6, <3>1
  <2>7. t \in Checks => check[t].pc = "testing" /\ p \in check[t].todo
    BY <1>c, <2>1
  <2>8. QED
    BY <2>1, <2>3, <2>5, <2>6, <2>7, TestEnds
<1>6. QED
  BY <1>1, <1>2, <1>3, <1>4, <1>5

LEMMA BlacklistStep == BlacklistInv /\ [Blacklists!Next]_(Blacklists!vars) => BlacklistInv'
<1> SUFFICES ASSUME BlacklistInv, [Blacklists!Next]_(Blacklists!vars) PROVE BlacklistInv'
  OBVIOUS
<1> USE BlacklistConstants
<1>t. /\ now \in Nat /\ listing \subseteq Providers
      /\ mode \in [Providers -> Blacklists!Modes]
      /\ changed \in [Providers -> Int] /\ okUntil \in [Providers -> Int]
      /\ check \in [Checks -> Blacklists!Check]
  BY BlacklistTypes DEF BlacklistInv
<1>i. /\ Blacklists!TypeOK /\ TestsAreFresh /\ TestsAreRight /\ TestsAreOfChecks
      /\ \A c \in Checks : CheckIsRight(check[c])
  BY OneByOne DEF BlacklistInv
<1>1. CASE UNCHANGED Blacklists!vars
  <2>1. UNCHANGED <<now, listing, mode, changed, changes, okUntil, check, test>>
    BY <1>1 DEF Blacklists!vars
  <2>2. Blacklists!TypeOK' /\ TestsAreFresh'
    BY <1>i, <2>1 DEF Blacklists!TypeOK, TestsAreFresh
  <2>3. TestsAreRight' /\ TestsAreOfChecks'
    BY <1>i, <2>1 DEF TestsAreRight, TestIsRight, TestsAreOfChecks
  <2>4. ChecksAreRight'
    BY <2>1, ChecksStayRight DEF BlacklistInv
  <2>5. QED
    BY <2>2, <2>3, <2>4 DEF BlacklistInv
<1>2. ASSUME NEW c \in Checks, Blacklists!Begin(c) PROVE BlacklistInv'
  <2> DEFINE new == [Blacklists!Idle EXCEPT !.pc = "first", !.start = now, !.todo = Providers]
  <2>1. /\ new.pc = "first" /\ new.start = now /\ new.todo = Providers
        /\ new.listed = {} /\ new.failed = {} /\ new \in Blacklists!Check
    <3>1. /\ Blacklists!Idle \in Blacklists!Check
          /\ Blacklists!Idle.listed = {} /\ Blacklists!Idle.failed = {}
      BY DEF Blacklists!Idle, Blacklists!Check
    <3>2. /\ new.pc = "first" /\ new.start = now /\ new.todo = Providers
          /\ new.listed = Blacklists!Idle.listed /\ new.failed = Blacklists!Idle.failed
      BY <3>1 DEF Blacklists!Check
    <3>3. new \in Blacklists!Check
      <4>1. now \in Int /\ Providers \in SUBSET Providers
        BY <1>t
      <4>2. QED
        BY <3>1, <4>1 DEF Blacklists!Check
    <3> HIDE DEF new
    <3>4. QED
      BY <3>1, <3>2, <3>3
  <2>2. /\ Blacklists!Update(c, new)
        /\ UNCHANGED <<now, listing, mode, changed, changes, okUntil, test>>
    BY <1>2 DEF Blacklists!Begin
  <2>p. check[c].pc # "testing"
    BY <1>2 DEF Blacklists!Begin
  <2> HIDE DEF new
  <2>3. CheckIsRight(new)
    BY <1>t, <2>1 DEF CheckIsRight, Answered
  <2>4. QED
    BY <2>p, <2>1, <2>2, <2>3, OneCheckMoves
<1>3. ASSUME NEW c \in Checks, Blacklists!Retry(c) PROVE BlacklistInv'
  <2> DEFINE k     == check[c]
             retry == k.failed \ k.refused
             new   == [k EXCEPT !.pc = "retry", !.failed = @ \ retry, !.todo = retry]
  <2>1. k \in Blacklists!Check /\ CheckIsRight(k) /\ k.pc = "first" /\ k.todo = {}
    BY <1>t, <1>i, <1>3 DEF Blacklists!Retry
  <2>2. /\ Blacklists!Update(c, new)
        /\ UNCHANGED <<now, listing, mode, changed, changes, okUntil, test>>
    BY <1>3 DEF Blacklists!Retry
  <2>p. check[c].pc # "testing"
    BY <2>1
  <2> HIDE DEF k
  <2>3. /\ new.pc = "retry" /\ new.start = k.start /\ new.todo = retry
        /\ new.listed = k.listed /\ new.failed = k.failed \ retry /\ new \in Blacklists!Check
    BY <2>1 DEF Blacklists!Check
  <2> HIDE DEF new
  <2>4. CheckIsRight(new)
    BY <2>1, <2>3 DEF CheckIsRight, Answered
  <2>5. QED
    BY <2>p, <2>2, <2>3, <2>4, OneCheckMoves
<1>4. ASSUME NEW c \in Checks, Blacklists!BeginTests(c) PROVE BlacklistInv'
  <2> DEFINE k   == check[c]
             new == [k EXCEPT !.pc = "testing", !.todo = Blacklists!Tested(k)]
  <2>1. k \in Blacklists!Check /\ CheckIsRight(k) /\ k.pc \in {"first", "retry"} /\ k.todo = {}
    BY <1>t, <1>i, <1>4 DEF Blacklists!BeginTests
  <2>2. /\ Blacklists!Update(c, new)
        /\ UNCHANGED <<now, listing, mode, changed, changes, okUntil, test>>
    BY <1>4 DEF Blacklists!BeginTests
  <2>p. check[c].pc # "testing"
    BY <2>1
  <2> HIDE DEF k
  <2>3. /\ new.pc = "testing" /\ new.start = k.start /\ new.todo = Providers \ k.failed
        /\ new.listed = k.listed /\ new.failed = k.failed /\ new \in Blacklists!Check
    BY <2>1 DEF Blacklists!Check, Blacklists!Tested
  <2> HIDE DEF new
  <2>4. CheckIsRight(new)
    BY <2>1, <2>3 DEF CheckIsRight, Answered
  <2>5. QED
    BY <2>p, <2>2, <2>3, <2>4, OneCheckMoves
<1>5. ASSUME NEW c \in Checks, Blacklists!Finish(c) PROVE BlacklistInv'
  <2>1. /\ Blacklists!Update(c, Blacklists!Idle)
        /\ UNCHANGED <<now, listing, mode, changed, changes, okUntil, test>>
    BY <1>5 DEF Blacklists!Finish
  <2>p. check[c].todo = {}
    BY <1>5 DEF Blacklists!Finish, Blacklists!Finished
  <2>2. Blacklists!Idle \in Blacklists!Check /\ CheckIsRight(Blacklists!Idle)
    BY <1>t DEF Blacklists!Idle, Blacklists!Check, CheckIsRight, Answered
  <2>3. QED
    BY <2>p, <2>1, <2>2, OneCheckMoves
<1>6. ASSUME NEW c \in Checks, NEW p \in Providers, Blacklists!Complete(c, p) PROVE BlacklistInv'
  <2> DEFINE k == check[c]
  <2>1. /\ k \in Blacklists!Check /\ CheckIsRight(k) /\ k.pc \in {"first", "retry"} /\ p \in k.todo
    BY <1>t, <1>i, <1>6 DEF Blacklists!Complete
  <2>2. PICK answer \in {Blacklists!Answer(p, p \in listing), Blacklists!Lost} :
          Blacklists!Update(c, Blacklists!Handled(k, p, answer))
    BY <1>6 DEF Blacklists!Complete, Blacklists!Lookup
  <2>p. check[c].pc # "testing"
    BY <2>1
  <2> DEFINE new == Blacklists!Handled(k, p, answer)
  <2> HIDE DEF k
  <2>3. /\ new.pc = k.pc /\ new.start = k.start /\ new.todo = k.todo \ {p}
        /\ new.listed = IF answer = "listed" THEN k.listed \cup {p} ELSE k.listed
        /\ new.failed = CASE answer = "listed" -> k.failed \ {p}
                          [] answer = "clean"  -> k.failed
                          [] OTHER             -> k.failed \cup {p}
        /\ new \in Blacklists!Check
    BY <2>1 DEF Blacklists!Check, Blacklists!Handled
  <2> HIDE DEF new
  <2>4. CheckIsRight(new)
    BY <2>1, <2>2, <2>3 DEF CheckIsRight, Answered, Blacklists!Lost
  <2>5. UNCHANGED <<now, listing, mode, changed, changes, okUntil, test>>
    BY <1>6 DEF Blacklists!Complete
  <2>6. QED
    BY <2>p, <2>2, <2>3, <2>4, <2>5, OneCheckMoves DEF new
<1>7. ASSUME NEW u \in Blacklists!Testers, NEW p \in Providers,
             \/ Blacklists!Remembered(u, p) \/ Blacklists!Ask(u, p)
             \/ Blacklists!FirstAnswer(u, p) \/ Blacklists!SecondAnswer(u, p)
             \/ Blacklists!Remember(u, p)
      PROVE  BlacklistInv'
  BY <1>7, TestSteps
<1>8. ASSUME NEW p \in Providers, NEW m \in Blacklists!Modes, Blacklists!Change(p, m)
      PROVE  BlacklistInv'
  <2>1. /\ mode' = [mode EXCEPT ![p] = m] /\ changed' = [changed EXCEPT ![p] = now]
        /\ changes' = changes + 1 /\ UNCHANGED <<now, listing, okUntil, check, test>>
    BY <1>8 DEF Blacklists!Change
  <2>2. \A q \in Providers : /\ mode'[q] = IF q = p THEN m ELSE mode[q]
                             /\ changed'[q] = IF q = p THEN now ELSE changed[q]
    BY <1>t, <2>1
  <2>3. Blacklists!TypeOK'
    BY <1>t, <1>i, <2>1 DEF Blacklists!TypeOK
  <2>4. TestsAreFresh'
    BY <1>t, <1>i, <2>1, <2>2 DEF TestsAreFresh
  <2>5. TestsAreOfChecks'
    BY <1>i, <2>1 DEF TestsAreOfChecks
  <2>6. ASSUME NEW u \in Blacklists!Testers, NEW q \in Providers
        PROVE  TestIsRight(test[u][q], q)'
    <3>1. TestIsRight(test[u][q], q) /\ test[u][q].since \in Int
      BY <1>i, BlacklistTypes DEF TestsAreRight
    <3>2. CASE q = p
      BY <1>t, <2>1, <2>2, <3>1, <3>2 DEF TestIsRight
    <3>3. CASE q # p
      BY <2>1, <2>2, <3>1, <3>3 DEF TestIsRight
    <3>4. QED
      BY <3>2, <3>3
  <2>7. TestsAreRight'
    BY <2>6 DEF TestsAreRight
  <2>8. ASSUME NEW c \in Checks PROVE CheckIsRight(check[c])'
    <3>1. CheckIsRight(check[c]) /\ check[c].start \in Int /\ check[c].start <= now
      BY <1>i, BlacklistTypes DEF CheckIsRight
    <3>2. ~(changed'[p] + TestTTL + MaxTest <= check[c].start)
      BY <1>t, <2>2, <3>1
    <3>3. ASSUME NEW q \in Providers, changed'[q] + TestTTL + MaxTest <= check[c].start
          PROVE  /\ q # p /\ mode'[q] = mode[q] /\ changed'[q] = changed[q]
                 /\ Blacklists!Answer(q, q \in listing)' = Blacklists!Answer(q, q \in listing)
      BY <2>1, <2>2, <3>2, <3>3 DEF Blacklists!Answer
    <3>4. QED
      BY <2>1, <3>1, <3>3 DEF CheckIsRight, Answered
  <2>9. ChecksAreRight'
    BY <2>8 DEF ChecksAreRight, CheckIsRight, Blacklists!Steady
  <2>10. QED
    BY <2>3, <2>4, <2>5, <2>7, <2>9 DEF BlacklistInv
<1>9. CASE Blacklists!Tick
  <2>1. /\ now' = now + 1 /\ UNCHANGED <<listing, mode, changed, changes, okUntil, check, test>>
        /\ \A u \in Blacklists!Testers, p \in Providers : ~Blacklists!Overdue(u, p)
    BY <1>9 DEF Blacklists!Tick
  <2>2. Blacklists!TypeOK' /\ TestsAreFresh'
    BY <1>t, <1>i, <2>1 DEF Blacklists!TypeOK, TestsAreFresh
  <2>3. TestsAreOfChecks'
    BY <1>i, <2>1 DEF TestsAreOfChecks
  <2>4. ASSUME NEW u \in Blacklists!Testers, NEW q \in Providers
        PROVE  TestIsRight(test[u][q], q)'
    <3>1. TestIsRight(test[u][q], q) /\ test[u][q].since \in Int
      BY <1>i, BlacklistTypes DEF TestsAreRight
    <3>2. test[u][q].stage \in {"second", "passed"} => ~(now - test[u][q].since >= MaxTest)
      BY <2>1 DEF Blacklists!Overdue
    <3>3. QED
      BY <1>t, <2>1, <3>1, <3>2 DEF TestIsRight
  <2>5. TestsAreRight'
    BY <2>4 DEF TestsAreRight
  <2>6. ASSUME NEW c \in Checks PROVE CheckIsRight(check[c])'
    <3>1. CheckIsRight(check[c]) /\ check[c].start \in Int
      BY <1>i, BlacklistTypes
    <3>2. check[c].start <= now /\ check[c].start <= now + 1
      BY <1>t, <3>1 DEF CheckIsRight
    <3>3. QED
      BY <2>1, <3>1, <3>2 DEF CheckIsRight, Answered, Blacklists!Answer
  <2>7. ChecksAreRight'
    BY <2>6 DEF ChecksAreRight, CheckIsRight, Blacklists!Steady
  <2>8. QED
    BY <2>2, <2>3, <2>5, <2>7 DEF BlacklistInv
<1>10. QED
  BY <1>1, <1>2, <1>3, <1>4, <1>5, <1>6, <1>7, <1>8, <1>9 DEF Blacklists!Next

\* Whatever a finished check says of a provider is either "no answer" or true if
\* the provider has not changed its ways since as long before the check as a
\* passed test is remembered and a test may take; and a clean result that counts
\* misses fewer listings by such providers than make a check inconclusive.  For
\* any providers, checks and lookups for the dashboard, each test being two
\* queries and a clock read after them (check_dnsbl_providers and
\* _answers_test_points).
THEOREM BlacklistResultsAreTrue == Blacklists!Spec => []ResultsAreTrue
<1>1. ASSUME BlacklistInv PROVE ResultsAreTrue
  <2>1. ASSUME NEW c \in Checks, Blacklists!Finished(c)
        PROVE  LET steady == {p \in Providers : Blacklists!Steady(c, p)}
               IN  /\ check[c].listed \cap check[c].failed = {}
                   /\ Blacklists!AnswersAreTrue(check[c], steady)
                   /\ Blacklists!CleanIsClean(check[c], steady)
    <3> DEFINE k      == check[c]
               steady == {p \in Providers : Blacklists!Steady(c, p)}
    <3>1. CheckIsRight(k) /\ k.pc = "testing" /\ k.todo = {}
      BY <1>1, <2>1, OneByOne DEF BlacklistInv, Blacklists!Finished
    <3>2. \A p \in steady : changed[p] + TestTTL + MaxTest <= k.start
      BY DEF Blacklists!Steady
    <3> HIDE DEF k
    <3>3. ASSUME NEW p \in steady \ k.failed PROVE p \in k.listed <=> p \in listing
      <4>1. /\ mode[p] = "good"
            /\ Blacklists!Answer(p, p \in listing) = IF p \in k.listed THEN "listed" ELSE "clean"
        BY <3>1, <3>2, <3>3 DEF CheckIsRight, Answered
      <4>2. QED
        BY <4>1 DEF Blacklists!Answer
    <3>4. Blacklists!AnswersAreTrue(k, steady)
      BY <3>3 DEF Blacklists!AnswersAreTrue
    <3>5. Blacklists!CleanIsClean(k, steady)
      <4>1. SUFFICES ASSUME k.listed = {}, ~(Cardinality(k.failed) >= TooMany)
                     PROVE  Cardinality(listing \cap steady) < TooMany
        BY BlacklistCardinality DEF Blacklists!CleanIsClean, Blacklists!Inconclusive
      <4>2. listing \cap steady \subseteq k.failed
        BY <3>3, <4>1
      <4>3. IsFiniteSet(k.failed)
        BY <1>1, BlacklistTypes, BlacklistConstants, FS_Subset DEF BlacklistInv, k
      <4>4. /\ Cardinality(listing \cap steady) <= Cardinality(k.failed)
            /\ Cardinality(listing \cap steady) \in Nat /\ Cardinality(k.failed) \in Nat
        BY <4>2, <4>3, FS_Subset, FS_CardinalityType
      <4>5. QED
        BY <4>1, <4>4, BlacklistConstants
    <3>6. k.listed \cap k.failed = {}
      BY <3>1 DEF CheckIsRight
    <3>7. QED
      BY <3>4, <3>5, <3>6 DEF k
  <2>2. QED
    BY <2>1 DEF ResultsAreTrue, Blacklists!ResultsAreTrue
<1>2. QED
  BY <1>1, BlacklistInit, BlacklistStep, PTL DEF Blacklists!Spec

-----------------------------------------------------------------------------
(* Start-up.  StartupProofs has proved it by itself; here it is the same   *)
(* system under other names.                                               *)

StartProofs == INSTANCE StartupProofs

LEMMA SameStart == Start!Init <=> StartProofs!Init
  BY DEF
     Start!Init, StartProofs!Init, Start!Columns, StartProofs!Columns, Start!Models,
     StartProofs!Models, Start!Revision, StartProofs!Revision, Start!Baseline,
     StartProofs!Baseline, Start!NoFile, StartProofs!NoFile, Start!NoAccount,
     StartProofs!NoAccount, Start!Down, StartProofs!Down, Start!Empty, StartProofs!Empty,
     Start!NoTable, StartProofs!NoTable

LEMMA SameSteps ==
    [Start!Next]_(Start!vars) <=> [StartProofs!Next]_(StartProofs!vars)
  BY DEF
     Start!Baseline, StartProofs!Baseline, Start!Revision, StartProofs!Revision,
     Start!Models, StartProofs!Models, Start!Columns, StartProofs!Columns, Start!NoFile,
     StartProofs!NoFile, Start!Empty, StartProofs!Empty, Start!NoAccount,
     StartProofs!NoAccount, Start!Down, StartProofs!Down, Start!database,
     StartProofs!database, Start!indexes, StartProofs!indexes, Start!Indexed,
     StartProofs!Indexed, Start!NoTable, StartProofs!NoTable, Start!IndexNext,
     StartProofs!IndexNext, Start!NothingToIndex, StartProofs!NothingToIndex,
     Start!CreateIndexes, StartProofs!CreateIndexes, Start!vars, StartProofs!vars, Start!At, StartProofs!At,
     Start!Goto, StartProofs!Goto, Start!Fail, StartProofs!Fail, Start!Crash,
     StartProofs!Crash, Start!ReadKey, StartProofs!ReadKey, Start!MayCreate,
     StartProofs!MayCreate, Start!OpenKey, StartProofs!OpenKey, Start!WriteKey,
     StartProofs!WriteKey, Start!RereadKey, StartProofs!RereadKey, Start!LegacyOrder,
     StartProofs!LegacyOrder, Start!IsLegacy, StartProofs!IsLegacy, Start!Inspect,
     StartProofs!Inspect, Start!Missing, StartProofs!Missing, Start!FindMissing,
     StartProofs!FindMissing, Start!Execute, StartProofs!Execute, Start!EnsureVersion,
     StartProofs!EnsureVersion, Start!Stamp, StartProofs!Stamp, Start!UpgradeOf,
     StartProofs!UpgradeOf, Start!Plan, StartProofs!Plan, Start!CreateBaseline,
     StartProofs!CreateBaseline, Start!FirstChange, StartProofs!FirstChange,
     Start!FinishUpgrade, StartProofs!FinishUpgrade,
     Start!UsersReadable, StartProofs!UsersReadable, Start!Seed, StartProofs!Seed, Start!InsertAdmin,
     StartProofs!InsertAdmin, Start!SavePassword, StartProofs!SavePassword, Start!Known,
     StartProofs!Known, Start!ChangeOrder, StartProofs!ChangeOrder, Start!ChangePassword,
     StartProofs!ChangePassword, Start!Forget, StartProofs!Forget, Start!CommitPassword,
     StartProofs!CommitPassword, Start!ResetPassword, StartProofs!ResetPassword, Start!Next,
     StartProofs!Next

LEMMA SameProperties ==
    /\ ServesCurrentSchema <=> StartProofs!ServesCurrentSchema
    /\ FileOpensAccount <=> StartProofs!FileOpensAccount
  BY DEF ServesCurrentSchema, FileOpensAccount,
     Start!ServesCurrentSchema, StartProofs!ServesCurrentSchema, Start!FileOpensAccount,
     StartProofs!FileOpensAccount, Start!Serving, StartProofs!Serving,
     Start!Models, StartProofs!Models, Start!Revision,
     StartProofs!Revision, Start!Baseline, StartProofs!Baseline, Start!NoAccount,
     StartProofs!NoAccount

\* No process serves requests while a table or a column of the models is missing,
\* or a table they no longer have is left, for any number of processes and starts
\* and wherever they die (run_migrations).  Indexes may be missing: StartupIndexes.
THEOREM SchemaIsCurrent == Start!Spec => []ServesCurrentSchema
  BY StartProofs!CurrentSchemaIsServed, SameStart, SameSteps, SameProperties, PTL
     DEF Start!Spec, StartProofs!Spec

\* While initial_admin_password exists its password opens the account, wherever
\* a start or a change of the password dies (seed_default_admin).
THEOREM InitialPasswordWorks == Start!Spec => []FileOpensAccount
  BY StartProofs!PasswordFileOpensAccount, SameStart, SameSteps, SameProperties, PTL
     DEF Start!Spec, StartProofs!Spec

\* A signing key written whole is never replaced, however many processes start
\* at once (load_secret_key).
THEOREM KeyStaysSame == Start!Spec => KeyIsKept
  BY StartProofs!SigningKeyIsKept, SameStart, SameSteps, PTL
     DEF Start!Spec, StartProofs!Spec, KeyIsKept, Start!KeyIsKept, StartProofs!KeyIsKept,
     Start!NoFile, StartProofs!NoFile, Start!Empty, StartProofs!Empty
=================================================================================
