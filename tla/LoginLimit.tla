------------------------------ MODULE LoginLimit ------------------------------
(***************************************************************************)
(* The lock-out after failed logins: _check_login_limit,                   *)
(* _record_login_failure and _clear_login_failures around the password     *)
(* check of login, backend/app/api/routers/auth.py.                        *)
(*                                                                         *)
(* Verifying a password takes long and holds no lock, so several logins    *)
(* with one key are verified at a time.  Each section under _login_lock is *)
(* one step; the clock of a failure is read before the lock is had.        *)
(*                                                                         *)
(* Definitions named Wrong... are faulty variants of the definition that   *)
(* follows them, used only to test the properties.                         *)
(***************************************************************************)
EXTENDS Integers, FiniteSets

CONSTANTS
    None,        \* a key that is not locked; a thread without a login
    Keys,        \* client address and user name
    Threads,     \* request threads
    MaxFailures, \* _LOGIN_MAX_FAILURES
    Window,      \* _LOGIN_WINDOW_SECONDS
    LockTime,    \* _LOGIN_LOCK_SECONDS
    MaxTracked,  \* _LOGIN_TRACKED_KEYS_MAX
    MaxWait,     \* a handler waits for the lock no longer
    MaxTime      \* bound: the clock

\* What the constants must be.
LoginLimitAssumption ==
    /\ MaxFailures \in Nat \ {0} /\ MaxTracked \in Nat
    /\ Window \in Nat /\ LockTime \in Nat /\ MaxWait \in Nat /\ MaxTime \in Nat
    /\ LockTime >= Window /\ None \notin Nat
    /\ IsFiniteSet(Threads)

VARIABLES
    now,      \* time.monotonic()
    attempts, \* _login_attempts: per key the stamps of recent failures
    locked,   \* _login_locked_until: per key a time, or None
    login,    \* per thread: where it is, its key and its stamp
    failures  \* history: per key the stamps of all failures since a success

vars == <<now, attempts, locked, login, failures>>

Idle == [pc |-> "idle", key |-> None, stamp |-> 0]

\* A list of stamps is the set of its elements, each with a number that grows
\* along the list.  No list is empty: {} is a key without an entry.
Stamps == [no : Nat, at : Nat]

TypeOK ==
    /\ now \in Nat
    /\ attempts \in [Keys -> SUBSET Stamps]
    /\ locked \in [Keys -> Nat \cup {None}]
    /\ login \in [Threads -> {Idle} \cup
                    [pc : {"verifying", "failed"}, key : Keys, stamp : Nat]]
    /\ failures \in [Keys -> SUBSET Stamps]

Init ==
    /\ now = 0
    /\ attempts = [k \in Keys |-> {}]
    /\ locked = [k \in Keys |-> None]
    /\ login = [t \in Threads |-> Idle]
    /\ failures = [k \in Keys |-> {}]

\* _check_login_limit; a locked key is answered with 429.
Locked(k) == locked[k] # None /\ locked[k] > now

Begin(t, k) ==
    /\ login[t].pc = "idle"
    /\ ~Locked(k)
    /\ login' = [login EXCEPT ![t] = [pc |-> "verifying", key |-> k, stamp |-> 0]]
    /\ UNCHANGED <<now, attempts, locked, failures>>

\* A wrong password or no such user: _record_login_failure reads the clock.
Fail(t) ==
    /\ login[t].pc = "verifying"
    /\ login' = [login EXCEPT ![t] = [@ EXCEPT !.pc = "failed", !.stamp = now]]
    /\ UNCHANGED <<now, attempts, locked, failures>>

Tracked == {k \in Keys : attempts[k] # {}}

WrongStale(k, at) == TRUE

\* "Drop stale entries so random usernames can't grow memory forever": the last
\* stamp of the entry is no longer recent.
Stale(k, at) ==
    \E e \in attempts[k] : /\ \A f \in attempts[k] : f.no <= e.no
                           /\ at - e.at >= Window

Pruned(at) ==
    IF Cardinality(Tracked) <= MaxTracked THEN attempts
    ELSE [k \in Keys |-> IF Stale(k, at) THEN {} ELSE attempts[k]]

PrunedLocks(at) ==
    IF Cardinality(Tracked) <= MaxTracked THEN locked
    ELSE [k \in Keys |-> IF locked[k] # None /\ locked[k] > at THEN locked[k] ELSE None]

Recent(entry, at) == {e \in entry : at - e.at < Window}

\* _record_login_failure under the lock.
RecordFailure(t) ==
    /\ login[t].pc = "failed"
    /\ LET k      == login[t].key
           at     == login[t].stamp
           new    == [no |-> Cardinality(failures[k]) + 1, at |-> at]
           recent == Recent(Pruned(at)[k], at) \cup {new}
       IN  /\ attempts' = [Pruned(at) EXCEPT ![k] = recent]
           /\ locked' = IF Cardinality(recent) >= MaxFailures
                        THEN [PrunedLocks(at) EXCEPT ![k] = at + LockTime]
                        ELSE PrunedLocks(at)
           /\ failures' = [failures EXCEPT ![k] = @ \cup {new}]
    /\ login' = [login EXCEPT ![t] = Idle]
    /\ UNCHANGED now

\* The right password of an inactive user: neither counted nor cleared.
Inactive(t) ==
    /\ login[t].pc = "verifying"
    /\ login' = [login EXCEPT ![t] = Idle]
    /\ UNCHANGED <<now, attempts, locked, failures>>

\* _clear_login_failures.
Succeed(t) ==
    /\ login[t].pc = "verifying"
    /\ attempts' = [attempts EXCEPT ![login[t].key] = {}]
    /\ locked' = [locked EXCEPT ![login[t].key] = None]
    /\ failures' = [failures EXCEPT ![login[t].key] = {}]
    /\ login' = [login EXCEPT ![t] = Idle]
    /\ UNCHANGED now

Tick ==
    /\ now < MaxTime
    /\ \A t \in Threads : login[t].pc = "failed" => now - login[t].stamp < MaxWait
    /\ now' = now + 1
    /\ UNCHANGED <<attempts, locked, login, failures>>

Next ==
    \/ \E t \in Threads :
         \/ \E k \in Keys : Begin(t, k)
         \/ Fail(t) \/ RecordFailure(t) \/ Inactive(t) \/ Succeed(t)
    \/ Tick

Spec == Init /\ [][Next]_vars

-----------------------------------------------------------------------------

\* The failures of a key, since its last success, in the window that ends with
\* last.
InWindow(k, last) ==
    {e \in failures[k] : e.at <= last /\ last - e.at < Window - 2 * MaxWait}

\* In any window, and short of a successful login in between, a key gets no
\* more failures than the limit and the logins that were being verified when
\* the lock fell, however the table is pruned for other keys - up to twice the
\* wait for the lock, as in PublicLimit.
FailuresAreBounded ==
    \A k \in Keys : \A last \in 0..MaxTime :
        Cardinality(InWindow(k, last)) < MaxFailures + Cardinality(Threads)
================================================================================
