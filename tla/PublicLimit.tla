------------------------------ MODULE PublicLimit ------------------------------
(***************************************************************************)
(* The limit on quick checks without an account: the sliding window of     *)
(* _enforce_public_check_limit, backend/app/api/routers/blacklist.py.      *)
(*                                                                         *)
(* A handler reads the clock before it waits for _public_check_lock, so    *)
(* the stamps of a client's checks need not be in the order in which they  *)
(* are entered.  The section under the lock is one step.                   *)
(*                                                                         *)
(* Definitions named Wrong... are faulty variants of the definition that   *)
(* follows them, used only to test the properties.                         *)
(***************************************************************************)
EXTENDS Integers, FiniteSets

CONSTANTS
    None,       \* a handler that is not waiting
    Clients,    \* client addresses
    Threads,    \* request threads
    Limit,      \* _PUBLIC_CHECK_LIMIT
    Window,     \* _PUBLIC_CHECK_WINDOW_SECONDS
    MaxTracked, \* the table is pruned when it has more entries (10 000)
    MaxWait,    \* a handler waits for the lock no longer
    MaxTime     \* bound: the clock

\* What the constants must be.
PublicLimitAssumption ==
    /\ Limit \in Nat \ {0} /\ MaxTracked \in Nat
    /\ Window \in Nat /\ MaxWait \in Nat /\ MaxTime \in Nat

VARIABLES
    now,      \* time.monotonic()
    requests, \* _public_check_requests: per client its recent stamps
    waiting,  \* per thread: the client and the stamp it will enter, or None
    admitted  \* history: per client the stamps of all its admitted checks

vars == <<now, requests, waiting, admitted>>

\* A list of stamps is the set of its elements, each with a number that grows
\* along the list.  No list is empty: {} is a client without an entry.
Stamps == [no : Nat, at : Nat]

TypeOK ==
    /\ now \in Nat
    /\ requests \in [Clients -> SUBSET Stamps]
    /\ waiting \in [Threads -> [client : Clients, stamp : Nat] \cup {None}]
    /\ admitted \in [Clients -> SUBSET Stamps]

Init ==
    /\ now = 0
    /\ requests = [c \in Clients |-> {}]
    /\ waiting = [t \in Threads |-> None]
    /\ admitted = [c \in Clients |-> {}]

Arrive(t, c) ==
    /\ waiting[t] = None
    /\ waiting' = [waiting EXCEPT ![t] = [client |-> c, stamp |-> now]]
    /\ UNCHANGED <<now, requests, admitted>>

\* The first stamp of an entry decides, as if it were the newest.
WrongStale(c, at) ==
    \E e \in requests[c] : /\ \A f \in requests[c] : e.no <= f.no
                           /\ at - e.at >= Window

\* The last stamp of the entry is no longer recent.
Stale(c, at) ==
    \E e \in requests[c] : /\ \A f \in requests[c] : f.no <= e.no
                           /\ at - e.at >= Window

\* Clients without a recent check are forgotten when the table grows.
Pruned(at) ==
    IF Cardinality({c \in Clients : requests[c] # {}}) <= MaxTracked THEN requests
    ELSE [c \in Clients |-> IF Stale(c, at) THEN {} ELSE requests[c]]

\* The recent stamps of a client.
Recent(entry, at) == {e \in entry : at - e.at < Window}

Enter(t) ==
    /\ waiting[t] # None
    /\ LET c      == waiting[t].client
           at     == waiting[t].stamp
           recent == Recent(Pruned(at)[c], at)
           new    == [no |-> Cardinality(admitted[c]) + 1, at |-> at]
       IN  IF Cardinality(recent) >= Limit
           THEN requests' = Pruned(at) /\ UNCHANGED admitted
           ELSE /\ requests' = [Pruned(at) EXCEPT ![c] = recent \cup {new}]
                /\ admitted' = [admitted EXCEPT ![c] = @ \cup {new}]
    /\ waiting' = [waiting EXCEPT ![t] = None]
    /\ UNCHANGED now

Tick ==
    /\ now < MaxTime
    /\ \A t \in Threads : waiting[t] # None => now - waiting[t].stamp < MaxWait
    /\ now' = now + 1
    /\ UNCHANGED <<requests, waiting, admitted>>

Next ==
    \/ \E t \in Threads : Enter(t) \/ \E c \in Clients : Arrive(t, c)
    \/ Tick

Spec == Init /\ [][Next]_vars

-----------------------------------------------------------------------------

\* The admitted checks of a client in the window that ends with last.
InWindow(c, last) ==
    {e \in admitted[c] : e.at <= last /\ last - e.at < Window - 2 * MaxWait}

\* No client gets more than the limit through in any window, however its
\* requests interleave and however often the table is pruned - up to twice the
\* wait for the lock.  A request that read the clock before another one but came
\* to the lock after it no longer sees the stamps the other has dropped; and if
\* it comes last into its entry, the entry is forgotten by its older stamp.
AtMostLimitInWindow ==
    \A c \in Clients : \A last \in 0..MaxTime : Cardinality(InWindow(c, last)) <= Limit
================================================================================
